------------------------------ MODULE Session ------------------------------
(***************************************************************************)
(* A board's session with its helper: core/dh_session.c with the counter   *)
(* window of core/dh_auth.c, as channel_lifecycle.c drives it.  A hello    *)
(* keys the session, every later frame carries a counter under that key,   *)
(* silence ends it, and each pass of core 0 tells the helper at most one   *)
(* thing it is owed.                                                       *)
(*                                                                         *)
(* The registered helper's frames may arrive late, out of order or again;  *)
(* other clients of the same endpoint get refusals.  A tag is good exactly *)
(* when the frame was made under the key it is checked with, so a frame is *)
(* its counter and whether its tag verifies.  The outbound queue (modules  *)
(* DhOutq, HelperSeam) takes or refuses what it is offered.                *)
(***************************************************************************)
EXTENDS Integers, FiniteSets

CONSTANTS
    HEARTBEAT_MS,        \* DH_SESSION_HEARTBEAT_MS, in ticks of the clock
    ABSENT_MS,           \* DH_SESSION_ABSENT_MS
    LISTENER_WINDOW_MS,  \* DH_LISTENER_WINDOW_MS
    LISTENER_THRESHOLD,  \* DH_LISTENER_THRESHOLD
    AUTH_WINDOW,         \* DH_AUTH_WINDOW: counters the window remembers
    CLOCK,               \* where the millisecond counter wraps
    Policies,            \* clipboard policies the config may hold
    MaxHello,            \* bound: hellos the helper writes
    MaxNonce,            \* bound: nonces the board draws
    MaxCounter,          \* bound: counters the helper uses
    MaxTag,              \* bound: frames the board tags in a session
    MaxRefused,          \* bound: frames that fail their tag
    MaxStrange,          \* bound: frames tagged before the last stranger knocks
    MaxDrops             \* bound: the drop total

ASSUME SessionAssumption ==
    /\ HEARTBEAT_MS \in Nat \ {0} /\ ABSENT_MS \in Nat \ {0}
    /\ LISTENER_WINDOW_MS \in Nat \ {0} /\ LISTENER_THRESHOLD \in Nat \ {0}
    /\ AUTH_WINDOW \in Nat \ {0} /\ CLOCK \in Nat \ {0} /\ Policies # {}
    /\ MaxHello \in Nat /\ MaxNonce \in Nat /\ MaxCounter \in Nat /\ MaxTag \in Nat \ {0}
    /\ MaxRefused \in Nat /\ MaxStrange \in Nat /\ MaxDrops \in Nat

\* The deadline is less than half the clock's range and a beat less than all of
\* it, as 3 s and 1 s are of 2^32 ms: an age is read back as it was.
ASSUME ClockAssumption == 2 * ABSENT_MS < CLOCK /\ HEARTBEAT_MS < CLOCK

VARIABLES
    clock,     \* to_ms_since_boot, wrapping
    passed,    \* a pass began since the clock last moved
    now,       \* the one reading of the clock the pass works with
    running,   \* core 0 is inside channel_task
    s,         \* dh_session
    nonces,    \* nonces drawn so far; the last one is the staged one
    hellos,    \* hellos the helper has written; hello n carries nonce n
    policy,    \* the clipboard policy in state->config
    drops,     \* the board's drop totals
    (* History, read by no action: *)
    accepted,  \* counters accepted under the session's key
    keyed,     \* every key a session was given
    tagged,    \* counters the board tagged a frame with under the last one
    reused,    \* a frame was tagged with a key and counter used before
    silence,   \* ticks the helper has not been heard for, capped
    early,     \* a helper was timed out before its deadline
    quiet,     \* ticks since a tagged frame was queued, capped
    beatless,  \* ticks since one that is not a drop report was
    crowded,   \* something untagged was queued, or a frame refused, since
    told       \* the policy and the totals the helper was last told

vars == <<clock, passed, now, running, s, nonces, hellos, policy, drops, accepted, keyed, tagged,
          reused, silence, early, quiet, beatless, crowded, told>>

config == <<policy, drops>>
tags == <<keyed, tagged, reused>>
wire == <<quiet, beatless, crowded>>
-----------------------------------------------------------------------------
\* What a helper was told before it was told anything.
Nothing == [policy |-> "nothing", drops |-> -1]

NoKey == [helper |-> 0, board |-> 0]

\* The window of counters seen: bit i of seen stands for highest - i.
dh_auth_counter_init == [any |-> FALSE, highest |-> 0, seen |-> {}]

dh_auth_counter_ok(c, n) ==
    \/ ~ c.any
    \/ n > c.highest
    \/ c.highest - n < AUTH_WINDOW /\ (c.highest - n) \notin c.seen

\* Mutant: a jump ahead forgets what the window had seen.
dh_auth_counter_accept_forgets(c, n) ==
    IF ~ c.any \/ n > c.highest THEN [any |-> TRUE, highest |-> n, seen |-> {0}]
    ELSE [c EXCEPT !.seen = @ \cup {c.highest - n}]

\* Mutant: what slides out of the window stays in the record.
dh_auth_counter_accept_unmasked(c, n) ==
    IF ~ c.any THEN [any |-> TRUE, highest |-> n, seen |-> {0}]
    ELSE IF n > c.highest
      THEN [any |-> TRUE, highest |-> n, seen |-> {0} \cup {i + n - c.highest : i \in c.seen}]
      ELSE [c EXCEPT !.seen = @ \cup {c.highest - n}]

dh_auth_counter_accept(c, n) ==
    IF ~ c.any THEN [any |-> TRUE, highest |-> n, seen |-> {0}]
    ELSE IF n > c.highest
      THEN [any |-> TRUE, highest |-> n,
            seen |-> {0} \cup {i \in 1 .. AUTH_WINDOW - 1 : i - (n - c.highest) \in c.seen}]
      ELSE [c EXCEPT !.seen = @ \cup {c.highest - n}]

\* (uint32_t)(a - b) and (int32_t)(a - b)
Elapsed(a, b) == (a - b) % CLOCK
SignedElapsed(a, b) == IF 2 * Elapsed(a, b) >= CLOCK THEN Elapsed(a, b) - CLOCK ELSE Elapsed(a, b)

\* A stamp that is not there: window_started or drops_ever_sent is false.
Unset == -1

dh_session_init(p) ==
    [present |-> FALSE, key |-> NoKey, rx |-> dh_auth_counter_init, tx_counter |-> 0,
     last_seen_ms |-> 0, last_sent_ms |-> 0, nonce_staged |-> FALSE,
     policy |-> p, clip_policy_owed |-> FALSE,
     drops |-> 0, drops_owed |-> FALSE, drops_sent_ms |-> Unset,
     window_started_ms |-> Unset, refused_in_window |-> 0,
     refused_as_registered |-> FALSE, alert_pending |-> FALSE, frames_refused |-> 0]

\* Mutant: the pending alert goes with the session.
dh_session_drop_all(x) ==
    [x EXCEPT !.present = FALSE, !.key = NoKey, !.rx = dh_auth_counter_init, !.tx_counter = 0,
              !.last_seen_ms = 0, !.last_sent_ms = 0, !.clip_policy_owed = FALSE,
              !.drops_owed = FALSE, !.drops_sent_ms = Unset, !.alert_pending = FALSE]

\* The listener count and the staged nonce survive; the keys do not.
dh_session_drop(x) ==
    [x EXCEPT !.present = FALSE, !.key = NoKey, !.rx = dh_auth_counter_init, !.tx_counter = 0,
              !.last_seen_ms = 0, !.last_sent_ms = 0, !.clip_policy_owed = FALSE,
              !.drops_owed = FALSE, !.drops_sent_ms = Unset]

dh_session_note_sent(x, t) == [x EXCEPT !.last_sent_ms = t]

note_received(x, t) == IF x.present THEN [x EXCEPT !.last_seen_ms = t] ELSE x

note_refused(x, t, as_registered) ==
    LET w == IF x.window_started_ms # Unset THEN x
             ELSE [x EXCEPT !.window_started_ms = t,
                            !.refused_in_window = 0, !.refused_as_registered = FALSE]
    IN [w EXCEPT !.frames_refused = @ + 1, !.refused_in_window = @ + 1,
                 !.refused_as_registered = @ \/ as_registered]

close_listener_window(x, t) ==
    IF x.window_started_ms # Unset /\ Elapsed(t, x.window_started_ms) >= LISTENER_WINDOW_MS
      THEN [x EXCEPT !.alert_pending = @ \/ x.refused_in_window >= LISTENER_THRESHOLD
                                           \/ x.refused_as_registered,
                     !.window_started_ms = Unset, !.refused_in_window = 0,
                     !.refused_as_registered = FALSE]
      ELSE x

dh_session_set_clip_policy(x, p) ==
    IF x.policy = p THEN x
    ELSE [x EXCEPT !.policy = p, !.clip_policy_owed = @ \/ x.present]

dh_session_set_drops(x, d) ==
    IF x.drops = d THEN x ELSE [x EXCEPT !.drops = d, !.drops_owed = @ \/ x.present]

\* The counter of a tagged frame, and what tagging it leaves behind.
Tagged(x) == [x EXCEPT !.tx_counter = @ + 1]

Init ==
    /\ clock = 0 /\ passed = TRUE /\ now = 0 /\ running = FALSE
    /\ policy \in Policies /\ drops = 0
    /\ s = dh_session_init(policy)
    /\ nonces = 0 /\ hellos = 0
    /\ accepted = {} /\ keyed = {} /\ tagged = {} /\ reused = FALSE
    /\ silence = 0 /\ early = FALSE /\ quiet = 0 /\ beatless = 0 /\ crowded = FALSE
    /\ told = Nothing
-----------------------------------------------------------------------------
(* History. *)

\* A frame is tagged under the session's key.
Tags(x) ==
    /\ tagged' = tagged \cup {x.tx_counter}
    /\ reused' = (reused \/ x.tx_counter \in tagged)
    /\ UNCHANGED keyed

\* The session goes, and with it what was heard and told in it.
Forget ==
    /\ accepted' = {} /\ silence' = 0 /\ told' = Nothing
    /\ quiet' = 0 /\ beatless' = 0 /\ crowded' = FALSE

\* A tagged frame was offered to the queue.
Offered(queued, report) ==
    /\ quiet' = IF queued THEN 0 ELSE quiet
    /\ beatless' = IF queued /\ ~ report THEN 0 ELSE beatless
    /\ crowded' = (~ queued \/ (report /\ crowded))
-----------------------------------------------------------------------------
\* Time moves at most once between two passes, at any point of one.
Tick ==
    /\ passed
    /\ passed' = FALSE
    /\ clock' = (clock + 1) % CLOCK
    /\ silence' = IF s.present /\ silence <= ABSENT_MS + 1 THEN silence + 1 ELSE silence
    /\ quiet' = IF s.present /\ quiet <= ABSENT_MS THEN quiet + 1 ELSE quiet
    /\ beatless' = IF s.present /\ beatless <= ABSENT_MS THEN beatless + 1 ELSE beatless
    /\ UNCHANGED <<now, running, s, nonces, hellos, config, accepted, tags, early, crowded, told>>

\* A config page write, or a seam that dropped something.
Config ==
    /\ \/ /\ \E p \in Policies \ {policy} : policy' = p
          /\ UNCHANGED drops
       \/ /\ drops < MaxDrops
          /\ drops' = drops + 1
          /\ UNCHANGED policy
    /\ UNCHANGED <<clock, passed, now, running, s, nonces, hellos, accepted, tags,
                   silence, early, wire, told>>

\* channel_task reads the clock and stages a nonce if the last one is spent.
dh_session_stage_nonce ==
    /\ ~ running
    /\ s.nonce_staged \/ nonces < MaxNonce
    /\ running' = TRUE /\ passed' = TRUE
    /\ now' = clock
    /\ nonces' = IF s.nonce_staged THEN nonces ELSE nonces + 1
    /\ s' = [s EXCEPT !.nonce_staged = TRUE]
    /\ UNCHANGED <<clock, hellos, config, accepted, tags, silence, early, wire, told>>
-----------------------------------------------------------------------------
(* Frames drained in this pass. *)

\* The helper writes a hello with a fresh nonce.
WriteHello ==
    /\ hellos < MaxHello
    /\ hellos' = hellos + 1
    /\ UNCHANGED <<clock, passed, now, running, s, nonces, config, accepted, tags, silence,
                   early, wire, told>>

\* Mutant: the nonce a session was keyed with is kept for the next one.
Keyed_keeps_nonce(x, k, t) ==
    [x EXCEPT !.present = TRUE, !.key = k, !.rx = dh_auth_counter_init, !.tx_counter = 0,
              !.last_seen_ms = t, !.last_sent_ms = t, !.clip_policy_owed = TRUE,
              !.drops_owed = TRUE, !.drops_sent_ms = Unset]

\* Mutant: a helper that reconnects is not told the policy again.
Keyed_owes_nothing(x, k, t) ==
    [x EXCEPT !.present = TRUE, !.key = k, !.rx = dh_auth_counter_init, !.tx_counter = 0,
              !.last_seen_ms = t, !.last_sent_ms = t, !.nonce_staged = FALSE,
              !.drops_owed = TRUE, !.drops_sent_ms = Unset]

\* The session a good hello leaves, before its ack is tagged.
Keyed(x, k, t) ==
    [x EXCEPT !.present = TRUE, !.key = k, !.rx = dh_auth_counter_init, !.tx_counter = 0,
              !.last_seen_ms = t, !.last_sent_ms = t, !.clip_policy_owed = TRUE,
              !.drops_owed = TRUE, !.drops_sent_ms = Unset, !.nonce_staged = FALSE]

(***************************************************************************)
(* answer_hello for a hello of the registered helper, perhaps one it wrote *)
(* long ago.  The queue is emptied before the ack is offered, so the ack   *)
(* is always taken.  With no nonce staged the board says nothing.          *)
(***************************************************************************)
answer_hello(n) ==
    LET key == Keyed(s, [helper |-> n, board |-> nonces], now) IN
    /\ running
    /\ s.nonce_staged
    /\ s' = dh_session_note_sent(Tagged(key), now)
    /\ keyed' = keyed \cup {key.key}
    /\ tagged' = {0}
    /\ reused' = (reused \/ key.key \in keyed)
    /\ Forget
    /\ UNCHANGED <<clock, passed, now, running, nonces, hellos, config, early>>

\* A hello that names the registered key and fails its tag.
HelloRefused ==
    /\ running
    /\ s.frames_refused < MaxRefused
    /\ s' = note_refused(s, now, TRUE)
    /\ UNCHANGED <<clock, passed, now, running, nonces, hellos, config, accepted, tags,
                   silence, early, wire, told>>

(***************************************************************************)
(* Another client's hello or pairing request is answered with an untagged  *)
(* refusal, which goes through channel_lifecycle_queue like any other.     *)
(***************************************************************************)
refuse_hello ==
    /\ running
    /\ s.tx_counter < MaxStrange
    /\ s' = dh_session_note_sent(s, now)
    /\ crowded' = TRUE
    /\ UNCHANGED <<clock, passed, now, running, nonces, hellos, config, accepted, tags,
                   silence, early, quiet, beatless, told>>

\* dh_session_authenticate: the tag verifies and the counter is new.
dh_session_authenticate(n) ==
    /\ running
    /\ s.present
    /\ dh_auth_counter_ok(s.rx, n)
    /\ s' = note_received([s EXCEPT !.rx = dh_auth_counter_accept(@, n)], now)
    /\ accepted' = accepted \cup {n}
    /\ silence' = 0
    /\ UNCHANGED <<clock, passed, now, running, nonces, hellos, config, tags, early,
                   wire, told>>

\* The tag fails, or the counter was seen before or is too old.
AuthenticateFails ==
    /\ running
    /\ s.present
    /\ s.frames_refused < MaxRefused
    /\ s' = note_refused(s, now, FALSE)
    /\ UNCHANGED <<clock, passed, now, running, nonces, hellos, config, accepted, tags,
                   silence, early, wire, told>>

\* end_session on a stream that cannot be trusted, and on a wipe: the frame is
\* tagged before the key goes, and offered once.
end_session(queued) ==
    /\ running
    /\ s.present
    /\ s' = IF queued THEN dh_session_note_sent(dh_session_drop(s), now) ELSE dh_session_drop(s)
    /\ Tags(s)
    /\ Forget
    /\ UNCHANGED <<clock, passed, now, running, nonces, hellos, config, early>>

\* channel_lifecycle_link_lost, from a USB callback.
channel_lifecycle_link_lost ==
    /\ ~ running
    /\ s.present
    /\ s' = dh_session_drop(s)
    /\ Forget
    /\ UNCHANGED <<clock, passed, now, running, nonces, hellos, config, tags, early>>

\* A placement or relayed frame: tagged, then offered.  A refusal spends the
\* counter all the same.
dh_session_emit_relayed(queued) ==
    /\ running
    /\ s.present
    /\ s.tx_counter < MaxTag
    /\ s' = IF queued THEN dh_session_note_sent(Tagged(s), now) ELSE Tagged(s)
    /\ Tags(s)
    /\ Offered(queued, FALSE)
    /\ UNCHANGED <<clock, passed, now, running, nonces, hellos, config, accepted, silence, early,
                   told>>
-----------------------------------------------------------------------------
(* The end of the pass: channel_lifecycle_update_config and dh_session_tick. *)

Updated == close_listener_window(dh_session_set_clip_policy(dh_session_set_drops(s, drops), policy),
                                 now)

\* Mutant: the deadline is one interval short.
Absent_early(x, t) == SignedElapsed(t, x.last_seen_ms) >= ABSENT_MS - HEARTBEAT_MS

Absent(x, t) == SignedElapsed(t, x.last_seen_ms) >= ABSENT_MS

DropsDue(x, t) ==
    x.drops_owed /\ (x.drops_sent_ms = Unset \/ Elapsed(t, x.drops_sent_ms) >= HEARTBEAT_MS)

\* Mutant: a beat waits for two idle intervals.
BeatDue_late(x, t) == Elapsed(t, x.last_sent_ms) > HEARTBEAT_MS + 1

BeatDue(x, t) == Elapsed(t, x.last_sent_ms) >= HEARTBEAT_MS

\* What this pass tells the helper: the first of these that applies.
Owes(x, t) ==
    IF ~ x.present THEN "nothing"
    ELSE IF Absent(x, t) THEN "end"
    ELSE IF x.clip_policy_owed THEN "policy"
    ELSE IF x.alert_pending THEN "alert"
    ELSE IF DropsDue(x, t) THEN "drops"
    ELSE IF BeatDue(x, t) THEN "beat" ELSE "nothing"

TickQuiet ==
    /\ running
    /\ Owes(Updated, now) = "nothing"
    /\ s' = Updated
    /\ running' = FALSE
    /\ UNCHANGED <<clock, passed, now, nonces, hellos, config, accepted, tags, silence,
                   early, wire, told>>

\* dh_session_end: the frame is tagged before the key goes.
dh_session_end(queued) ==
    /\ running
    /\ Owes(Updated, now) = "end"
    /\ s' = IF queued THEN dh_session_note_sent(dh_session_drop(Updated), now)
                      ELSE dh_session_drop(Updated)
    /\ Tags(Updated)
    /\ early' = (early \/ silence < ABSENT_MS - 1)
    /\ Forget
    /\ running' = FALSE
    /\ UNCHANGED <<clock, passed, now, nonces, hellos, config>>

(***************************************************************************)
(* A frame the session produced.  Encoding it charges the counter, and the *)
(* idle timer unless it is a drop report; being queued charges the timer   *)
(* again and releases what was owed (dh_session_note_owed_sent).           *)
(***************************************************************************)
dh_session_tick(queued) ==
    LET x == Updated
        type == Owes(x, now)
        made == IF type = "drops"
                  THEN [Tagged(x) EXCEPT !.drops_sent_ms = now]
                  ELSE dh_session_note_sent(Tagged(x), now)
    IN
    /\ running
    /\ type \in {"policy", "alert", "drops", "beat"}
    /\ x.tx_counter < MaxTag
    /\ s' = IF queued
              THEN [dh_session_note_sent(made, now)
                      EXCEPT !.clip_policy_owed = @ /\ type # "policy",
                             !.alert_pending = @ /\ type # "alert",
                             !.drops_owed = @ /\ type # "drops"]
              ELSE made
    /\ Tags(x)
    /\ Offered(queued, type = "drops")
    /\ told' = IF ~ queued THEN told
               ELSE [policy |-> IF type = "policy" THEN x.policy ELSE told.policy,
                     drops |-> IF type = "drops" THEN x.drops ELSE told.drops]
    /\ running' = FALSE
    /\ UNCHANGED <<clock, passed, now, nonces, hellos, config, accepted, silence, early>>

Next ==
    \/ Tick \/ Config \/ dh_session_stage_nonce \/ WriteHello
    \/ \E n \in 1 .. hellos : answer_hello(n)
    \/ HelloRefused \/ refuse_hello
    \/ \E n \in 0 .. MaxCounter : dh_session_authenticate(n)
    \/ AuthenticateFails \/ channel_lifecycle_link_lost
    \/ \E queued \in BOOLEAN :
         \/ dh_session_emit_relayed(queued) \/ end_session(queued)
         \/ dh_session_end(queued) \/ dh_session_tick(queued)
    \/ TickQuiet

Spec == Init /\ [][Next]_vars
-----------------------------------------------------------------------------
Keys == [helper : Nat, board : Nat]

Counters == [any : BOOLEAN, highest : Nat, seen : SUBSET (0 .. AUTH_WINDOW - 1)]

Ms == 0 .. CLOCK - 1

Sessions ==
    [present : BOOLEAN, key : Keys, rx : Counters, tx_counter : 0 .. MaxTag,
     last_seen_ms : Ms, last_sent_ms : Ms, nonce_staged : BOOLEAN,
     policy : Policies, clip_policy_owed : BOOLEAN,
     drops : Nat, drops_owed : BOOLEAN, drops_sent_ms : Ms \cup {Unset},
     window_started_ms : Ms \cup {Unset}, refused_in_window : Nat,
     refused_as_registered : BOOLEAN, alert_pending : BOOLEAN, frames_refused : Nat]

\* The types of the session's state.
TypeOK ==
    /\ clock \in Ms /\ now \in Ms /\ passed \in BOOLEAN /\ running \in BOOLEAN
    /\ s \in Sessions
    /\ nonces \in Nat /\ hellos \in Nat /\ policy \in Policies /\ drops \in Nat
    /\ accepted \subseteq Nat /\ reused \in BOOLEAN /\ crowded \in BOOLEAN
    /\ keyed \subseteq Keys /\ tagged \subseteq 0 .. MaxTag
    /\ silence \in Nat /\ early \in BOOLEAN /\ quiet \in Nat /\ beatless \in Nat

(***************************************************************************)
(* The window of bits is exactly the record it stands for: a counter       *)
(* passes when it was not accepted under this key before and is less than  *)
(* AUTH_WINDOW behind the newest accepted one, whatever order frames of    *)
(* the striped channels arrive in (dh_auth_counter_ok, _accept).           *)
(***************************************************************************)
WindowExact ==
    s.present => \A n \in 0 .. MaxCounter :
        dh_auth_counter_ok(s.rx, n) <=>
            n \notin accepted /\ \A a \in accepted : a - n < AUTH_WINDOW

(***************************************************************************)
(* The board never tags two frames with one key and counter, across        *)
(* refused offers, ended sessions and a hello that arrives twice (the      *)
(* nonce is spent with the ack, dh_session_drop takes the keys).           *)
(***************************************************************************)
NoTagReuse == ~ reused

(***************************************************************************)
(* Silence ends a session and nothing else does it early: a helper heard   *)
(* within the deadline is never timed out, up to the one reading of the    *)
(* clock a pass works with, and a silent one never outlives it by more     *)
(* than a pass, also across the wrap of the clock (dh_session_tick).       *)
(***************************************************************************)
EvictsOnTime ==
    /\ ~ early
    /\ s.present => silence <= ABSENT_MS + 1

(***************************************************************************)
(* A live session is never silent for longer than a beat takes, unless the *)
(* queue refused a frame or an untagged refusal took its place: the policy,*)
(* the alert and the drop report all stand in for the beat (dh_session_tick). *)
(***************************************************************************)
BeatFillsSilence == s.present /\ ~ crowded => quiet <= HEARTBEAT_MS + 1

(***************************************************************************)
(* The helper is told what changed: while nothing is owed, the last policy *)
(* and the last drop totals it was sent in this session are the session's  *)
(* own, across reconnections, refused offers and changes in between        *)
(* (dh_session_note_owed_sent).                                            *)
(***************************************************************************)
ToldCurrent ==
    s.present =>
        /\ ~ s.clip_policy_owed => told.policy = s.policy
        /\ ~ s.drops_owed => told.drops = s.drops

(***************************************************************************)
(* A measured listener alert is never lost: it stays pending across ended  *)
(* sessions and refused offers until a frame carrying it is queued in a    *)
(* live session (close_listener_window, dh_session_note_owed_sent).        *)
(***************************************************************************)
AlertSurvives ==
    [][s.alert_pending /\ ~ s'.alert_pending =>
         s.present /\ s'.present /\ quiet' = 0 /\ s'.tx_counter = s.tx_counter + 1]_vars

(***************************************************************************)
(* What docs/protocol.md says of the drop report: "it is the one frame the *)
(* device sends that does not charge the idle timer", so that beats go on  *)
(* while something is dropping: one pass late when a report was due in the *)
(* same pass, and no later.                                                *)
(***************************************************************************)
DropReportIsNotABeat == s.present /\ ~ crowded => beatless <= HEARTBEAT_MS + 2
=============================================================================
