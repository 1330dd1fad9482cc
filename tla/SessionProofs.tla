--------------------------- MODULE SessionProofs ---------------------------
(***************************************************************************)
(* Proofs about the session: the counter window accepts each counter once  *)
(* and refuses no other that is recent enough, the board tags no two       *)
(* frames with one key and counter, the helper is told what changed, a     *)
(* silent helper goes on time and a quiet board beats.                     *)
(***************************************************************************)
EXTENDS Session, TLAPS

\* The window is the record of the counters accepted.
Records(c, acc) ==
    /\ c.any <=> acc # {}
    /\ c.any => /\ c.highest \in acc
                /\ \A a \in acc : a <= c.highest
                /\ c.seen = {i \in 0 .. AUTH_WINDOW - 1 : c.highest - i \in acc}

\* Every counter tagged under the live key is below the next one, and a staged
\* nonce has never been in a key.
TagsFresh ==
    /\ ~ reused
    /\ s.present => \A n \in tagged : n < s.tx_counter
    /\ \A k \in keyed : k.board <= nonces
    /\ s.nonce_staged => \A k \in keyed : k.board < nonces

SessionInv == TypeOK /\ Records(s.rx, accepted) /\ TagsFresh /\ ToldCurrent

\* What most steps leave of a session.
Keeps(x, y) ==
    /\ y \in Sessions
    /\ y.present = x.present /\ y.rx = x.rx /\ y.tx_counter = x.tx_counter
    /\ y.nonce_staged = x.nonce_staged

KeepsOwed(x, y) ==
    /\ y.policy = x.policy /\ y.clip_policy_owed = x.clip_policy_owed
    /\ y.drops = x.drops /\ y.drops_owed = x.drops_owed
    /\ y.alert_pending = x.alert_pending

\* What is owed of the configuration stays owed, and a change is owed.
OwesMore(x, y) ==
    /\ \/ y.policy = x.policy /\ y.clip_policy_owed = x.clip_policy_owed
       \/ x.present => y.clip_policy_owed
    /\ \/ y.drops = x.drops /\ y.drops_owed = x.drops_owed
       \/ x.present => y.drops_owed
    /\ x.alert_pending => y.alert_pending

\* ToldCurrent of any session and any record of what was told.
ToldOf(x, t) ==
    x.present => /\ ~ x.clip_policy_owed => t.policy = x.policy
                 /\ ~ x.drops_owed => t.drops = x.drops
-----------------------------------------------------------------------------
(* The constants as the steps below use them. *)
LEMMA Constants ==
  /\ CLOCK \in Nat \ {0} /\ AUTH_WINDOW \in Nat \ {0} /\ MaxTag \in Nat \ {0}
  /\ 0 \in Ms /\ NoKey \in Keys /\ dh_auth_counter_init \in Counters
  /\ MaxCounter \in Nat /\ 0 \in 0 .. MaxTag /\ 1 \in 0 .. MaxTag
  BY SessionAssumption DEF Ms, NoKey, Keys, dh_auth_counter_init, Counters

(* The empty window records nothing (dh_auth_counter_init). *)
LEMMA EmptyRecord == Records(dh_auth_counter_init, {})
  BY DEF Records, dh_auth_counter_init

(* dh_auth_counter_ok tells exactly the counters that were not accepted and
   are not too far behind. *)
LEMMA WindowTells ==
  ASSUME NEW c \in Counters, NEW acc \in SUBSET Nat, Records(c, acc), NEW n \in Nat
  PROVE  dh_auth_counter_ok(c, n) <=> n \notin acc /\ \A a \in acc : a - n < AUTH_WINDOW
  <1>1. AUTH_WINDOW \in Nat \ {0} /\ c.highest \in Nat /\ c.any \in BOOLEAN
    BY Constants DEF Counters
  <1>2. CASE ~ c.any
    BY <1>2 DEF Records, dh_auth_counter_ok
  <1>3. CASE c.any
    <2>1. c.highest \in acc /\ (\A a \in acc : a \in Nat /\ a <= c.highest)
      BY <1>3 DEF Records
    <2>2. CASE n > c.highest
      BY <1>1, <2>1, <2>2 DEF dh_auth_counter_ok
    <2>3. CASE n <= c.highest
      <3>1. (\A a \in acc : a - n < AUTH_WINDOW) <=> c.highest - n < AUTH_WINDOW
        BY <1>1, <2>1
      <3>2. c.highest - n < AUTH_WINDOW =>
              ((c.highest - n) \in c.seen <=> c.highest - (c.highest - n) \in acc)
        BY <1>1, <1>3, <2>3 DEF Records
      <3>3. c.highest - (c.highest - n) = n
        BY <1>1
      <3>4. QED
        BY <1>1, <1>3, <2>3, <3>1, <3>2, <3>3 DEF dh_auth_counter_ok
    <2>4. QED
      BY <1>1, <2>2, <2>3
  <1>4. QED
    BY <1>1, <1>2, <1>3

(* dh_auth_counter_accept adds the counter to the record: a jump ahead shifts
   the window without forgetting what stays in it. *)
LEMMA WindowAdds ==
  ASSUME NEW c \in Counters, NEW acc \in SUBSET Nat, Records(c, acc), NEW n \in Nat,
         dh_auth_counter_ok(c, n)
  PROVE  /\ dh_auth_counter_accept(c, n) \in Counters
         /\ Records(dh_auth_counter_accept(c, n), acc \cup {n})
  <1> DEFINE d == dh_auth_counter_accept(c, n)
             W == AUTH_WINDOW
  <1>1. W \in Nat \ {0} /\ c.highest \in Nat /\ c.any \in BOOLEAN /\ c.seen \in SUBSET (0 .. W - 1)
    BY Constants DEF Counters
  <1>2. CASE ~ c.any
    <2>1. d = [any |-> TRUE, highest |-> n, seen |-> {0}] /\ acc = {}
      BY <1>2 DEF dh_auth_counter_accept, Records
    <2>2. {0} = {i \in 0 .. W - 1 : n - i \in {n}}
      BY <1>1
    <2>3. QED
      BY <1>1, <2>1, <2>2 DEF Records, Counters
  <1>3. CASE c.any /\ n > c.highest
    <2> DEFINE B == {0} \cup {i \in 1 .. W - 1 : i - (n - c.highest) \in c.seen}
    <2>1. d = [any |-> TRUE, highest |-> n, seen |-> B]
      BY <1>3 DEF dh_auth_counter_accept
    <2>2. c.highest \in acc /\ (\A a \in acc : a \in Nat /\ a <= c.highest)
          /\ c.seen = {i \in 0 .. W - 1 : c.highest - i \in acc}
      BY <1>3 DEF Records
    <2>3. ASSUME NEW i \in 0 .. W - 1
          PROVE  i \in B <=> n - i \in acc \cup {n}
      <3>1. CASE i = 0
        BY <1>1, <3>1
      <3>2. CASE i # 0
        <4>1. i \in 1 .. W - 1 /\ n - i # n
          BY <1>1, <2>3, <3>2
        <4>2. c.highest - (i - (n - c.highest)) = n - i
          BY <1>1, <4>1
        <4>3. n - i \in acc => i - (n - c.highest) \in 0 .. W - 1
          BY <1>1, <1>3, <2>2, <4>1
        <4>4. i - (n - c.highest) \in c.seen <=> n - i \in acc
          BY <2>2, <4>2, <4>3
        <4>5. i \in B <=> i - (n - c.highest) \in c.seen
          BY <3>2, <4>1
        <4>6. QED
          BY <4>1, <4>4, <4>5
      <3>3. QED
        BY <3>1, <3>2
    <2>4. B \subseteq 0 .. W - 1
      BY <1>1
    <2>5. B = {i \in 0 .. W - 1 : n - i \in acc \cup {n}}
      BY <2>3, <2>4
    <2>6. \A a \in acc \cup {n} : a <= n
      BY <1>1, <1>3, <2>2
    <2> HIDE DEF B
    <2>7. QED
      BY <2>1, <2>4, <2>5, <2>6 DEF Records, Counters
  <1>4. CASE c.any /\ ~ (n > c.highest)
    <2> DEFINE B == c.seen \cup {c.highest - n}
    <2>1. d = [c EXCEPT !.seen = B]
      BY <1>4 DEF dh_auth_counter_accept
    <2>2. d = [any |-> TRUE, highest |-> c.highest, seen |-> B]
      BY <1>4, <2>1 DEF Counters
    <2>3. c.highest \in acc /\ (\A a \in acc : a \in Nat /\ a <= c.highest)
          /\ c.seen = {i \in 0 .. W - 1 : c.highest - i \in acc}
      BY <1>4 DEF Records
    <2>4. c.highest - n \in 0 .. W - 1
      BY <1>1, <1>4 DEF dh_auth_counter_ok
    <2>5. ASSUME NEW i \in 0 .. W - 1
          PROVE  i \in B <=> c.highest - i \in acc \cup {n}
      BY <1>1, <2>3, <2>4
    <2>6. B \subseteq 0 .. W - 1
      BY <1>1, <2>4
    <2>7. B = {i \in 0 .. W - 1 : c.highest - i \in acc \cup {n}}
      BY <2>5, <2>6
    <2>8. \A a \in acc \cup {n} : a <= c.highest
      BY <1>1, <1>4, <2>3
    <2> HIDE DEF B
    <2>9. QED
      BY <1>1, <2>2, <2>3, <2>6, <2>7, <2>8 DEF Records, Counters
  <1>5. QED
    BY <1>1, <1>2, <1>3, <1>4
-----------------------------------------------------------------------------
(* dh_session_note_sent touches one stamp. *)
LEMMA NoteSentKeeps ==
  ASSUME NEW x \in Sessions, NEW t \in Ms
  PROVE  Keeps(x, dh_session_note_sent(x, t)) /\ KeepsOwed(x, dh_session_note_sent(x, t))
  BY DEF Keeps, KeepsOwed, Sessions, dh_session_note_sent

(* note_refused touches the listener window only. *)
LEMMA RefusedKeeps ==
  ASSUME NEW x \in Sessions, NEW t \in Ms, NEW b \in BOOLEAN
  PROVE  Keeps(x, note_refused(x, t, b)) /\ KeepsOwed(x, note_refused(x, t, b))
  <1> DEFINE w == IF x.window_started_ms # Unset THEN x
                  ELSE [x EXCEPT !.window_started_ms = t,
                                 !.refused_in_window = 0, !.refused_as_registered = FALSE]
             r == w.refused_as_registered \/ b
  <1>1. w \in Sessions /\ Keeps(x, w) /\ KeepsOwed(x, w)
    BY DEF Keeps, KeepsOwed, Sessions
  <1>2. note_refused(x, t, b) = [w EXCEPT !.frames_refused = @ + 1, !.refused_in_window = @ + 1,
                                          !.refused_as_registered = r]
    BY Zenon DEF note_refused
  <1> HIDE DEF w
  <1>3. r \in BOOLEAN
    BY Zenon
  <1> DEFINE y == note_refused(x, t, b)
  <1> HIDE DEF r
  <1>4. w.frames_refused + 1 \in Nat /\ w.refused_in_window + 1 \in Nat
    BY <1>1 DEF Sessions
  <1>5. y \in Sessions
    BY <1>1, <1>2, <1>3, <1>4 DEF Sessions
  <1>6. y.present = w.present /\ y.rx = w.rx /\ y.tx_counter = w.tx_counter
        /\ y.nonce_staged = w.nonce_staged /\ KeepsOwed(w, y)
    BY <1>1, <1>2 DEF Sessions, KeepsOwed
  <1> HIDE DEF y
  <1>7. Keeps(x, y) /\ KeepsOwed(x, y)
    BY <1>1, <1>5, <1>6 DEF Keeps, KeepsOwed
  <1>8. QED
    BY <1>7 DEF y

(* dh_session_drop takes the keys and the counters. *)
LEMMA DropClears ==
  ASSUME NEW x \in Sessions
  PROVE  /\ dh_session_drop(x) \in Sessions /\ ~ dh_session_drop(x).present
         /\ dh_session_drop(x).rx = dh_auth_counter_init
         /\ dh_session_drop(x).nonce_staged = x.nonce_staged
         /\ dh_session_drop(x).alert_pending = x.alert_pending
  BY Constants DEF Sessions, dh_session_drop

(* Tagging spends one counter. *)
LEMMA TaggedMoves ==
  ASSUME NEW x \in Sessions, x.tx_counter < MaxTag
  PROVE  /\ Tagged(x) \in Sessions /\ Tagged(x).tx_counter = x.tx_counter + 1
         /\ Tagged(x).present = x.present /\ Tagged(x).rx = x.rx
         /\ Tagged(x).nonce_staged = x.nonce_staged /\ KeepsOwed(x, Tagged(x))
  BY Constants DEF Sessions, Tagged, KeepsOwed

(* Keying puts an empty window and an unspent counter under the new key, owes
   the helper everything and spends the nonce. *)
LEMMA KeyedFresh ==
  ASSUME NEW x \in Sessions, NEW k \in Keys, NEW t \in Ms
  PROVE  /\ Keyed(x, k, t) \in Sessions /\ Keyed(x, k, t).present
         /\ Keyed(x, k, t).key = k /\ Keyed(x, k, t).rx = dh_auth_counter_init
         /\ Keyed(x, k, t).tx_counter = 0 /\ ~ Keyed(x, k, t).nonce_staged
         /\ Keyed(x, k, t).clip_policy_owed /\ Keyed(x, k, t).drops_owed
         /\ Keyed(x, k, t).alert_pending = x.alert_pending
  BY Constants DEF Sessions, Keyed

(* A change of the policy is owed to a helper that is there. *)
LEMMA SetPolicyOwes ==
  ASSUME NEW x \in Sessions, NEW p \in Policies
  PROVE  Keeps(x, dh_session_set_clip_policy(x, p)) /\ OwesMore(x, dh_session_set_clip_policy(x, p))
  <1> DEFINE o == x.clip_policy_owed \/ x.present
             y == dh_session_set_clip_policy(x, p)
  <1>1. CASE x.policy = p
    BY <1>1 DEF dh_session_set_clip_policy, Keeps, OwesMore
  <1>2. CASE x.policy # p
    <2>1. y = [x EXCEPT !.policy = p, !.clip_policy_owed = o]
      BY <1>2, Zenon DEF dh_session_set_clip_policy
    <2>2. o \in BOOLEAN /\ (x.present => o)
      BY Zenon
    <2> HIDE DEF o
    <2>3. y.clip_policy_owed = o
      BY <2>1 DEF Sessions
    <2>4. QED
      BY <2>1, <2>2, <2>3 DEF Keeps, OwesMore, Sessions
  <1>3. QED
    BY <1>1, <1>2

(* A change of the drop totals is owed to a helper that is there. *)
LEMMA SetDropsOwes ==
  ASSUME NEW x \in Sessions, NEW d \in Nat
  PROVE  Keeps(x, dh_session_set_drops(x, d)) /\ OwesMore(x, dh_session_set_drops(x, d))
  <1> DEFINE o == x.drops_owed \/ x.present
             y == dh_session_set_drops(x, d)
  <1>1. CASE x.drops = d
    BY <1>1 DEF dh_session_set_drops, Keeps, OwesMore
  <1>2. CASE x.drops # d
    <2>1. y = [x EXCEPT !.drops = d, !.drops_owed = o]
      BY <1>2, Zenon DEF dh_session_set_drops
    <2>2. o \in BOOLEAN /\ (x.present => o)
      BY Zenon
    <2> HIDE DEF o
    <2>3. y.drops_owed = o
      BY <2>1 DEF Sessions
    <2>4. QED
      BY <2>1, <2>2, <2>3 DEF Keeps, OwesMore, Sessions
  <1>3. QED
    BY <1>1, <1>2

(* Closing the listener window may raise the alert and clears nothing else. *)
LEMMA CloseKeeps ==
  ASSUME NEW x \in Sessions, NEW t \in Ms
  PROVE  Keeps(x, close_listener_window(x, t)) /\ OwesMore(x, close_listener_window(x, t))
  <1> DEFINE c == x.window_started_ms # Unset /\ Elapsed(t, x.window_started_ms) >= LISTENER_WINDOW_MS
             a == x.alert_pending \/ x.refused_in_window >= LISTENER_THRESHOLD
                                  \/ x.refused_as_registered
             y == close_listener_window(x, t)
  <1>1. CASE ~ c
    <2>1. y = x
      BY <1>1, Zenon DEF close_listener_window
    <2>2. QED
      BY <2>1 DEF Keeps, OwesMore
  <1>2. CASE c
    <2>1. y = [x EXCEPT !.alert_pending = a, !.window_started_ms = Unset, !.refused_in_window = 0,
                        !.refused_as_registered = FALSE]
      BY <1>2, Zenon DEF close_listener_window
    <2>2. a \in BOOLEAN /\ (x.alert_pending => a)
      BY Zenon
    <2> HIDE DEF a, c, y
    <2>3. y \in Sessions
      <3> DEFINE u == [x EXCEPT !.alert_pending = a]
                 v == [u EXCEPT !.window_started_ms = Unset]
                 w == [v EXCEPT !.refused_in_window = 0]
      <3>1. u \in Sessions
        BY <2>2 DEF Sessions
      <3> HIDE DEF u
      <3>2. v \in Sessions
        BY <3>1 DEF Sessions
      <3> HIDE DEF v
      <3>3. w \in Sessions
        BY <3>2 DEF Sessions
      <3> HIDE DEF w
      <3>4. [w EXCEPT !.refused_as_registered = FALSE] \in Sessions
        BY <3>3 DEF Sessions
      <3>5. y = [w EXCEPT !.refused_as_registered = FALSE]
        BY <2>1 DEF u, v, w
      <3>6. QED
        BY <3>4, <3>5
    <2>4. y.alert_pending = a /\ y.present = x.present /\ y.rx = x.rx /\ y.tx_counter = x.tx_counter
          /\ y.nonce_staged = x.nonce_staged /\ y.policy = x.policy /\ y.drops = x.drops
          /\ y.clip_policy_owed = x.clip_policy_owed /\ y.drops_owed = x.drops_owed
      BY <2>1 DEF Sessions
    <2> HIDE DEF y
    <2>5. Keeps(x, y) /\ OwesMore(x, y)
      BY <2>2, <2>3, <2>4 DEF Keeps, OwesMore
    <2>6. QED
      BY <2>5 DEF y
  <1>3. QED
    BY <1>1, <1>2

(* Taking the configuration and closing the window, together. *)
LEMMA UpdatedKeeps ==
  ASSUME TypeOK
  PROVE  Keeps(s, Updated) /\ OwesMore(s, Updated)
  <1> DEFINE x == dh_session_set_drops(s, drops)
             y == dh_session_set_clip_policy(x, policy)
  <1>1. s \in Sessions /\ drops \in Nat /\ policy \in Policies /\ now \in Ms
    BY DEF TypeOK
  <1>2. Keeps(s, x) /\ OwesMore(s, x)
    BY <1>1, SetDropsOwes
  <1>3. x \in Sessions
    BY <1>2 DEF Keeps
  <1> HIDE DEF x
  <1>4. Keeps(x, y) /\ OwesMore(x, y)
    BY <1>1, <1>3, SetPolicyOwes
  <1>5. y \in Sessions
    BY <1>4 DEF Keeps
  <1> HIDE DEF y
  <1>6. Keeps(y, close_listener_window(y, now)) /\ OwesMore(y, close_listener_window(y, now))
    BY <1>1, <1>5, CloseKeeps
  <1>7. Updated = close_listener_window(y, now)
    BY DEF Updated, x, y
  <1>8. Keeps(s, Updated)
    BY <1>2, <1>4, <1>6, <1>7 DEF Keeps
  <1>9. OwesMore(s, Updated)
    BY <1>2, <1>4, <1>6, <1>7, Zenon DEF OwesMore, Keeps
  <1>10. QED
    BY <1>8, <1>9
-----------------------------------------------------------------------------
(* A step that leaves the window, the tags and what was told alone. *)
LEMMA KeptPreserves ==
  ASSUME SessionInv, Keeps(s, s'), OwesMore(s, s'),
         accepted' = accepted, tagged' = tagged, keyed' = keyed, reused' = reused,
         nonces' = nonces, told' = told
  PROVE  Records(s.rx, accepted)' /\ TagsFresh' /\ ToldCurrent'
  <1>1. Records(s.rx, accepted)'
    BY DEF SessionInv, Records, Keeps
  <1>2. TagsFresh'
    BY DEF SessionInv, TagsFresh, Keeps
  <1>3. ToldCurrent'
    BY Zenon DEF SessionInv, ToldCurrent, Keeps, OwesMore
  <1>4. QED
    BY <1>1, <1>2, <1>3

(* A step that ends the session. *)
LEMMA EndPreserves ==
  ASSUME SessionInv, ~ s'.present, s'.rx = dh_auth_counter_init,
         s'.nonce_staged = s.nonce_staged,
         accepted' = {}, keyed' = keyed, reused' = FALSE, nonces' = nonces
  PROVE  Records(s.rx, accepted)' /\ TagsFresh' /\ ToldCurrent'
  <1>1. Records(s.rx, accepted)'
    BY EmptyRecord DEF Records
  <1>2. TagsFresh'
    BY DEF SessionInv, TagsFresh
  <1>3. ToldCurrent'
    BY DEF ToldCurrent
  <1>4. QED
    BY <1>1, <1>2, <1>3

(* Tagging under the live key is never a repetition. *)
LEMMA TagsOnce ==
  ASSUME SessionInv, NEW x \in Sessions, x.tx_counter = s.tx_counter, s.present, Tags(x)
  PROVE  /\ tagged' = tagged \cup {s.tx_counter} /\ keyed' = keyed /\ reused' = FALSE
         /\ tagged' \subseteq 0 .. MaxTag
  <1>1. s.tx_counter \in 0 .. MaxTag /\ tagged \subseteq 0 .. MaxTag
    BY DEF SessionInv, TypeOK, Sessions
  <1>2. s.tx_counter \notin tagged /\ ~ reused
    BY <1>1, Constants DEF SessionInv, TagsFresh
  <1>3. reused' = FALSE
    <2>1. ~ (reused \/ x.tx_counter \in tagged)
      BY <1>2
    <2>2. QED
      BY <2>1, Zenon DEF Tags
  <1>4. QED
    BY <1>1, <1>3 DEF Tags
-----------------------------------------------------------------------------
(* One lemma per action. *)

LEMMA TickPreserves == SessionInv /\ Tick => SessionInv'
  <1> SUFFICES ASSUME SessionInv, Tick PROVE SessionInv'
    OBVIOUS
  <1>1. (clock + 1) % CLOCK \in Ms
    BY Constants DEF SessionInv, TypeOK, Ms
  <1>2. TypeOK'
    <2>1. silence' \in Nat /\ quiet' \in Nat /\ beatless' \in Nat
      BY DEF SessionInv, TypeOK, Tick
    <2>2. clock' \in Ms /\ passed' = FALSE /\ UNCHANGED <<now, running, s, nonces, hellos, policy,
            drops, accepted, keyed, tagged, reused, early, crowded>>
      BY <1>1 DEF Tick, config, tags
    <2>3. QED
      BY <2>1, <2>2 DEF SessionInv, TypeOK
  <1>3. Keeps(s, s') /\ OwesMore(s, s')
    BY DEF SessionInv, TypeOK, Tick, Keeps, OwesMore
  <1>4. accepted' = accepted /\ tagged' = tagged /\ keyed' = keyed /\ reused' = reused
        /\ nonces' = nonces /\ told' = told
    BY DEF Tick, tags
  <1>5. QED
    BY <1>2, <1>3, <1>4, KeptPreserves DEF SessionInv

LEMMA ConfigPreserves == SessionInv /\ Config => SessionInv'
  <1> SUFFICES ASSUME SessionInv, Config PROVE SessionInv'
    OBVIOUS
  <1>1. TypeOK'
    BY DEF SessionInv, TypeOK, Config, tags, wire
  <1>2. Keeps(s, s') /\ OwesMore(s, s')
    BY DEF SessionInv, TypeOK, Config, Keeps, OwesMore
  <1>3. accepted' = accepted /\ tagged' = tagged /\ keyed' = keyed /\ reused' = reused
        /\ nonces' = nonces /\ told' = told
    BY DEF Config, tags
  <1>4. QED
    BY <1>1, <1>2, <1>3, KeptPreserves DEF SessionInv

LEMMA WriteHelloPreserves == SessionInv /\ WriteHello => SessionInv'
  <1> SUFFICES ASSUME SessionInv, WriteHello PROVE SessionInv'
    OBVIOUS
  <1>1. TypeOK'
    BY DEF SessionInv, TypeOK, WriteHello, config, tags, wire
  <1>2. Keeps(s, s') /\ OwesMore(s, s')
    BY DEF SessionInv, TypeOK, WriteHello, Keeps, OwesMore
  <1>3. accepted' = accepted /\ tagged' = tagged /\ keyed' = keyed /\ reused' = reused
        /\ nonces' = nonces /\ told' = told
    BY DEF WriteHello, tags
  <1>4. QED
    BY <1>1, <1>2, <1>3, KeptPreserves DEF SessionInv

LEMMA StagePreserves == SessionInv /\ dh_session_stage_nonce => SessionInv'
  <1> SUFFICES ASSUME SessionInv, dh_session_stage_nonce PROVE SessionInv'
    OBVIOUS
  <1>1. s \in Sessions /\ nonces \in Nat /\ keyed \subseteq Keys
    BY DEF SessionInv, TypeOK
  <1>2. s' \in Sessions /\ s'.nonce_staged /\ s'.present = s.present /\ s'.rx = s.rx
        /\ s'.tx_counter = s.tx_counter /\ KeepsOwed(s, s')
    BY <1>1 DEF dh_session_stage_nonce, Sessions, KeepsOwed
  <1>3. accepted' = accepted /\ tagged' = tagged /\ keyed' = keyed /\ reused' = reused
        /\ told' = told
    BY DEF dh_session_stage_nonce, tags
  <1>4. TypeOK'
    BY <1>2 DEF SessionInv, TypeOK, dh_session_stage_nonce, config, tags, wire
  <1>5. Records(s.rx, accepted)'
    BY <1>2, <1>3 DEF SessionInv, Records
  <1>6. TagsFresh'
    <2>1. CASE s.nonce_staged
      BY <1>2, <1>3, <2>1 DEF SessionInv, TagsFresh, dh_session_stage_nonce
    <2>2. CASE ~ s.nonce_staged
      <3>1. nonces' = nonces + 1
        BY <2>2 DEF dh_session_stage_nonce
      <3>2. \A k \in keyed : k.board \in Nat /\ k.board <= nonces
        BY <1>1 DEF SessionInv, TagsFresh, Keys
      <3>3. \A k \in keyed' : k.board <= nonces' /\ k.board < nonces'
        BY <1>1, <1>3, <3>1, <3>2
      <3>4. QED
        BY <1>2, <1>3, <3>3 DEF SessionInv, TagsFresh
    <2>3. QED
      BY <2>1, <2>2
  <1>7. ToldCurrent'
    BY <1>2, <1>3 DEF SessionInv, ToldCurrent, KeepsOwed
  <1>8. QED
    BY <1>4, <1>5, <1>6, <1>7 DEF SessionInv

LEMMA HelloPreserves ==
  ASSUME NEW n \in 1 .. hellos, SessionInv, answer_hello(n)
  PROVE  SessionInv'
  <1> DEFINE k == [helper |-> n, board |-> nonces]
             x == Keyed(s, k, now)
  <1>1. s \in Sessions /\ nonces \in Nat /\ hellos \in Nat /\ keyed \subseteq Keys /\ now \in Ms
    BY DEF SessionInv, TypeOK
  <1>2. k \in Keys
    BY <1>1 DEF Keys
  <1>3. x \in Sessions /\ x.present /\ x.key = k /\ x.rx = dh_auth_counter_init
        /\ x.tx_counter = 0 /\ ~ x.nonce_staged /\ x.clip_policy_owed /\ x.drops_owed
    BY <1>1, <1>2, KeyedFresh
  <1>4. /\ s' = dh_session_note_sent(Tagged(x), now)
        /\ keyed' = keyed \cup {k}
        /\ tagged' = {0} /\ reused' = (reused \/ k \in keyed)
        /\ accepted' = {} /\ told' = Nothing /\ nonces' = nonces
    BY <1>3 DEF answer_hello, Forget
  <1>5. s.nonce_staged
    BY DEF answer_hello
  <1>6. k \notin keyed
    BY <1>1, <1>5 DEF SessionInv, TagsFresh
  <1>7. reused' = FALSE
    BY <1>4, <1>6, Zenon DEF SessionInv, TagsFresh
  <1> HIDE DEF x
  <1>8. /\ Tagged(x) \in Sessions /\ Tagged(x).tx_counter = 1
        /\ Tagged(x).present /\ Tagged(x).rx = x.rx /\ ~ Tagged(x).nonce_staged
        /\ KeepsOwed(x, Tagged(x))
    BY <1>3, Constants, TaggedMoves
  <1>9. Keeps(Tagged(x), s') /\ KeepsOwed(Tagged(x), s')
    BY <1>1, <1>4, <1>8, NoteSentKeeps
  <1>10. s' \in Sessions /\ s'.tx_counter = 1 /\ s'.rx = dh_auth_counter_init
         /\ ~ s'.nonce_staged /\ s'.clip_policy_owed /\ s'.drops_owed
    BY <1>3, <1>8, <1>9 DEF Keeps, KeepsOwed
  <1>11. TypeOK'
    <2>1. keyed' \subseteq Keys /\ tagged' \subseteq 0 .. MaxTag
      BY <1>1, <1>2, <1>4, Constants
    <2>2. QED
      BY <1>7, <1>10, <2>1 DEF SessionInv, TypeOK, answer_hello, Forget, config
  <1>12. Records(s.rx, accepted)'
    BY <1>4, <1>10, EmptyRecord DEF Records
  <1>13. TagsFresh'
    <2>1. \A j \in keyed' : j.board <= nonces'
      BY <1>1, <1>4 DEF SessionInv, TagsFresh
    <2>2. QED
      BY <1>4, <1>7, <1>10, <2>1 DEF TagsFresh
  <1>14. ToldCurrent'
    BY <1>10 DEF ToldCurrent
  <1>15. QED
    BY <1>11, <1>12, <1>13, <1>14 DEF SessionInv

LEMMA HelloRefusedPreserves == SessionInv /\ HelloRefused => SessionInv'
  <1> SUFFICES ASSUME SessionInv, HelloRefused PROVE SessionInv'
    OBVIOUS
  <1>1. s \in Sessions /\ now \in Ms
    BY DEF SessionInv, TypeOK
  <1>2. Keeps(s, s') /\ KeepsOwed(s, s')
    BY <1>1, RefusedKeeps DEF HelloRefused
  <1>3. OwesMore(s, s')
    BY <1>2 DEF OwesMore, KeepsOwed
  <1>4. TypeOK'
    BY <1>2 DEF SessionInv, TypeOK, HelloRefused, Keeps, config, tags, wire
  <1>5. accepted' = accepted /\ tagged' = tagged /\ keyed' = keyed /\ reused' = reused
        /\ nonces' = nonces /\ told' = told
    BY DEF HelloRefused, tags
  <1>6. QED
    BY <1>2, <1>3, <1>4, <1>5, KeptPreserves DEF SessionInv

LEMMA FailsPreserves == SessionInv /\ AuthenticateFails => SessionInv'
  <1> SUFFICES ASSUME SessionInv, AuthenticateFails PROVE SessionInv'
    OBVIOUS
  <1>1. s \in Sessions /\ now \in Ms
    BY DEF SessionInv, TypeOK
  <1>2. Keeps(s, s') /\ KeepsOwed(s, s')
    BY <1>1, RefusedKeeps DEF AuthenticateFails
  <1>3. OwesMore(s, s')
    BY <1>2 DEF OwesMore, KeepsOwed
  <1>4. TypeOK'
    BY <1>2 DEF SessionInv, TypeOK, AuthenticateFails, Keeps, config, tags, wire
  <1>5. accepted' = accepted /\ tagged' = tagged /\ keyed' = keyed /\ reused' = reused
        /\ nonces' = nonces /\ told' = told
    BY DEF AuthenticateFails, tags
  <1>6. QED
    BY <1>2, <1>3, <1>4, <1>5, KeptPreserves DEF SessionInv

LEMMA RefusePreserves == SessionInv /\ refuse_hello => SessionInv'
  <1> SUFFICES ASSUME SessionInv, refuse_hello PROVE SessionInv'
    OBVIOUS
  <1>1. s \in Sessions /\ now \in Ms
    BY DEF SessionInv, TypeOK
  <1>2. Keeps(s, s') /\ KeepsOwed(s, s')
    BY <1>1, NoteSentKeeps DEF refuse_hello
  <1>3. OwesMore(s, s')
    BY <1>2 DEF OwesMore, KeepsOwed
  <1>4. TypeOK'
    BY <1>2 DEF SessionInv, TypeOK, refuse_hello, Keeps, config, tags
  <1>5. accepted' = accepted /\ tagged' = tagged /\ keyed' = keyed /\ reused' = reused
        /\ nonces' = nonces /\ told' = told
    BY DEF refuse_hello, tags
  <1>6. QED
    BY <1>2, <1>3, <1>4, <1>5, KeptPreserves DEF SessionInv

LEMMA AuthenticatePreserves ==
  ASSUME NEW n \in 0 .. MaxCounter, SessionInv, dh_session_authenticate(n)
  PROVE  SessionInv'
  <1>1. s \in Sessions /\ s.rx \in Counters /\ accepted \subseteq Nat /\ now \in Ms /\ n \in Nat
    BY Constants DEF SessionInv, TypeOK, Sessions
  <1> DEFINE c == dh_auth_counter_accept(s.rx, n)
  <1>2. c \in Counters /\ Records(c, accepted \cup {n})
    BY <1>1, WindowAdds DEF SessionInv, dh_session_authenticate
  <1> HIDE DEF c
  <1>3. s' = note_received([s EXCEPT !.rx = c], now)
    BY DEF dh_session_authenticate, c
  <1>4. s' \in Sessions /\ s'.present = s.present /\ s'.rx = c /\ s'.tx_counter = s.tx_counter
        /\ s'.nonce_staged = s.nonce_staged /\ KeepsOwed(s, s')
    BY <1>1, <1>2, <1>3 DEF Sessions, KeepsOwed, note_received
  <1>5. accepted' = accepted \cup {n} /\ tagged' = tagged /\ keyed' = keyed /\ reused' = reused
        /\ nonces' = nonces /\ told' = told
    BY DEF dh_session_authenticate, tags
  <1>6. TypeOK'
    BY <1>1, <1>4, <1>5 DEF SessionInv, TypeOK, dh_session_authenticate, config, tags, wire
  <1>7. Records(s.rx, accepted)'
    BY <1>2, <1>4, <1>5
  <1>8. TagsFresh'
    BY <1>4, <1>5 DEF SessionInv, TagsFresh
  <1>9. ToldCurrent'
    BY <1>4, <1>5 DEF SessionInv, ToldCurrent, KeepsOwed
  <1>10. QED
    BY <1>6, <1>7, <1>8, <1>9 DEF SessionInv

(* A dropped session, whether or not its last frame was queued. *)
LEMMA DropEnds ==
  ASSUME NEW x \in Sessions, NEW t \in Ms, NEW queued \in BOOLEAN,
         NEW y, y = IF queued THEN dh_session_note_sent(dh_session_drop(x), t) ELSE dh_session_drop(x)
  PROVE  /\ y \in Sessions /\ ~ y.present /\ y.rx = dh_auth_counter_init
         /\ y.nonce_staged = x.nonce_staged /\ y.alert_pending = x.alert_pending
  <1> DEFINE d == dh_session_drop(x)
  <1>1. /\ d \in Sessions /\ ~ d.present /\ d.rx = dh_auth_counter_init
        /\ d.nonce_staged = x.nonce_staged /\ d.alert_pending = x.alert_pending
    BY DropClears
  <1> HIDE DEF d
  <1>2. Keeps(d, dh_session_note_sent(d, t)) /\ KeepsOwed(d, dh_session_note_sent(d, t))
    BY <1>1, NoteSentKeeps
  <1>3. y = IF queued THEN dh_session_note_sent(d, t) ELSE d
    BY DEF d
  <1>4. CASE queued
    BY <1>1, <1>2, <1>3, <1>4 DEF Keeps, KeepsOwed
  <1>5. CASE ~ queued
    BY <1>1, <1>3, <1>5
  <1>6. QED
    BY <1>4, <1>5

LEMMA EndSessionPreserves ==
  ASSUME NEW queued \in BOOLEAN, SessionInv, end_session(queued)
  PROVE  SessionInv'
  <1>1. s \in Sessions /\ now \in Ms /\ s.present
    BY DEF SessionInv, TypeOK, end_session
  <1>2. s' \in Sessions /\ ~ s'.present /\ s'.rx = dh_auth_counter_init
        /\ s'.nonce_staged = s.nonce_staged
    BY <1>1, DropEnds DEF end_session
  <1>3. keyed' = keyed /\ reused' = FALSE /\ tagged' \subseteq 0 .. MaxTag
    BY <1>1, TagsOnce DEF end_session
  <1>4. accepted' = {} /\ nonces' = nonces
    BY DEF end_session, Forget
  <1>5. TypeOK'
    BY <1>2, <1>3 DEF SessionInv, TypeOK, end_session, Forget, config
  <1>6. QED
    BY <1>2, <1>3, <1>4, <1>5, EndPreserves DEF SessionInv

LEMMA LinkLostPreserves == SessionInv /\ channel_lifecycle_link_lost => SessionInv'
  <1> SUFFICES ASSUME SessionInv, channel_lifecycle_link_lost PROVE SessionInv'
    OBVIOUS
  <1>1. s \in Sessions
    BY DEF SessionInv, TypeOK
  <1>2. s' \in Sessions /\ ~ s'.present /\ s'.rx = dh_auth_counter_init
        /\ s'.nonce_staged = s.nonce_staged
    BY <1>1, DropClears DEF channel_lifecycle_link_lost
  <1>3. accepted' = {} /\ nonces' = nonces /\ keyed' = keyed /\ tagged' = tagged /\ reused' = FALSE
    BY DEF channel_lifecycle_link_lost, Forget, tags, SessionInv, TypeOK, TagsFresh
  <1>4. TypeOK'
    BY <1>2, <1>3 DEF SessionInv, TypeOK, channel_lifecycle_link_lost, Forget, config
  <1>5. QED
    BY <1>2, <1>3, <1>4, EndPreserves DEF SessionInv

(* The counter just spent is below the next one. *)
LEMMA SpentBelow ==
  ASSUME NEW T \in SUBSET Nat, NEW c \in Nat, \A m \in T : m < c
  PROVE  \A m \in T \cup {c} : m < c + 1
  <1> SUFFICES ASSUME NEW m \in T \cup {c} PROVE m < c + 1
    OBVIOUS
  <1>1. CASE m = c
    BY <1>1
  <1>2. CASE m \in T
    <2>1. m \in Nat /\ m < c
      BY <1>2
    <2>2. QED
      BY <2>1
  <1>3. QED
    BY <1>1, <1>2, Zenon

(* A step that spends a counter in a session that stays. *)
LEMMA SpentPreserves ==
  ASSUME SessionInv, s.present, s' \in Sessions, s'.present, s'.rx = s.rx,
         s'.tx_counter = s.tx_counter + 1, s'.nonce_staged = s.nonce_staged,
         tagged' = tagged \cup {s.tx_counter}, keyed' = keyed, reused' = FALSE,
         accepted' = accepted, nonces' = nonces
  PROVE  Records(s.rx, accepted)' /\ TagsFresh'
  <1>1. s.tx_counter \in Nat /\ tagged \subseteq Nat
    BY Constants DEF SessionInv, TypeOK, Sessions
  <1>2. \A m \in tagged : m < s.tx_counter
    BY Zenon DEF SessionInv, TagsFresh
  <1>3. \A m \in tagged' : m < s'.tx_counter
    <2>1. \A m \in tagged \cup {s.tx_counter} : m < s.tx_counter + 1
      BY <1>1, <1>2, SpentBelow, Zenon
    <2>2. QED
      BY <2>1, Zenon
  <1>4. TagsFresh'
    BY <1>3 DEF SessionInv, TagsFresh
  <1>5. Records(s.rx, accepted)'
    BY DEF SessionInv, Records
  <1>6. QED
    BY <1>4, <1>5

LEMMA EmitPreserves ==
  ASSUME NEW queued \in BOOLEAN, SessionInv, dh_session_emit_relayed(queued)
  PROVE  SessionInv'
  <1> DEFINE x == Tagged(s)
  <1>1. s \in Sessions /\ now \in Ms /\ s.present /\ s.tx_counter < MaxTag
    BY DEF SessionInv, TypeOK, dh_session_emit_relayed
  <1>2. /\ x \in Sessions /\ x.tx_counter = s.tx_counter + 1 /\ x.present = s.present
        /\ x.rx = s.rx /\ x.nonce_staged = s.nonce_staged /\ KeepsOwed(s, x)
    BY <1>1, TaggedMoves
  <1>3. s' = IF queued THEN dh_session_note_sent(x, now) ELSE x
    BY DEF dh_session_emit_relayed
  <1> HIDE DEF x
  <1>4. Keeps(x, dh_session_note_sent(x, now)) /\ KeepsOwed(x, dh_session_note_sent(x, now))
    BY <1>1, <1>2, NoteSentKeeps
  <1>5. /\ s' \in Sessions /\ s'.tx_counter = s.tx_counter + 1 /\ s'.present = s.present
        /\ s'.rx = s.rx /\ s'.nonce_staged = s.nonce_staged /\ KeepsOwed(s, s')
    <2>1. CASE queued
      BY <1>2, <1>3, <1>4, <2>1 DEF Keeps, KeepsOwed
    <2>2. CASE ~ queued
      BY <1>2, <1>3, <2>2
    <2>3. QED
      BY <2>1, <2>2
  <1>6. tagged' = tagged \cup {s.tx_counter} /\ keyed' = keyed /\ reused' = FALSE
        /\ tagged' \subseteq 0 .. MaxTag
    BY <1>1, TagsOnce DEF dh_session_emit_relayed
  <1>7. accepted' = accepted /\ nonces' = nonces /\ told' = told
    BY DEF dh_session_emit_relayed
  <1>8. TypeOK'
    <2>1. crowded' \in BOOLEAN
      BY Zenon DEF dh_session_emit_relayed, Offered
    <2>2. quiet' \in Nat /\ beatless' \in Nat
      BY DEF SessionInv, TypeOK, dh_session_emit_relayed, Offered
    <2>3. QED
      BY <1>5, <1>6, <1>7, <2>1, <2>2 DEF SessionInv, TypeOK, dh_session_emit_relayed, config
  <1>9. ToldCurrent'
    BY <1>5, <1>7 DEF SessionInv, ToldCurrent, KeepsOwed
  <1>10. QED
    BY <1>1, <1>5, <1>6, <1>7, <1>8, <1>9, SpentPreserves DEF SessionInv

LEMMA TickQuietPreserves == SessionInv /\ TickQuiet => SessionInv'
  <1> SUFFICES ASSUME SessionInv, TickQuiet PROVE SessionInv'
    OBVIOUS
  <1>1. Keeps(s, s') /\ OwesMore(s, s')
    BY UpdatedKeeps DEF SessionInv, TickQuiet
  <1>2. TypeOK'
    BY <1>1 DEF SessionInv, TypeOK, TickQuiet, Keeps, config, tags, wire
  <1>3. accepted' = accepted /\ tagged' = tagged /\ keyed' = keyed /\ reused' = reused
        /\ nonces' = nonces /\ told' = told
    BY DEF TickQuiet, tags
  <1>4. QED
    BY <1>1, <1>2, <1>3, KeptPreserves DEF SessionInv

LEMMA EvictPreserves ==
  ASSUME NEW queued \in BOOLEAN, SessionInv, dh_session_end(queued)
  PROVE  SessionInv'
  <1> DEFINE x == Updated
  <1>1. Keeps(s, x)
    BY UpdatedKeeps DEF SessionInv
  <1>2. x \in Sessions /\ now \in Ms /\ x.present = s.present /\ x.tx_counter = s.tx_counter
        /\ x.nonce_staged = s.nonce_staged
    BY <1>1 DEF Keeps, SessionInv, TypeOK
  <1> HIDE DEF x
  <1>3. s.present
    <2>1. Owes(x, now) = "end"
      BY DEF dh_session_end, x
    <2>2. QED
      BY <1>2, <2>1 DEF Owes
  <1>4. /\ s' = IF queued THEN dh_session_note_sent(dh_session_drop(x), now) ELSE dh_session_drop(x)
        /\ Tags(x)
    BY DEF dh_session_end, x
  <1>5. s' \in Sessions /\ ~ s'.present /\ s'.rx = dh_auth_counter_init
        /\ s'.nonce_staged = s.nonce_staged
    BY <1>2, <1>4, DropEnds
  <1>6. keyed' = keyed /\ reused' = FALSE /\ tagged' \subseteq 0 .. MaxTag
    BY <1>2, <1>3, <1>4, TagsOnce
  <1>7. accepted' = {} /\ nonces' = nonces
    BY DEF dh_session_end, Forget
  <1>8. TypeOK'
    <2>1. early' \in BOOLEAN
      BY Zenon DEF dh_session_end
    <2>2. QED
      BY <1>5, <1>6, <2>1 DEF SessionInv, TypeOK, dh_session_end, Forget, config
  <1>9. QED
    BY <1>5, <1>6, <1>7, <1>8, EndPreserves DEF SessionInv

(* The session a produced frame leaves: one counter spent, and what the queue
   took no longer owed. *)
Made(x, type) ==
    IF type = "drops" THEN [Tagged(x) EXCEPT !.drops_sent_ms = now]
                      ELSE dh_session_note_sent(Tagged(x), now)

LEMMA MadeKeeps ==
  ASSUME NEW x \in Sessions, x.tx_counter < MaxTag, now \in Ms, NEW type
  PROVE  /\ Made(x, type) \in Sessions /\ Made(x, type).tx_counter = x.tx_counter + 1
         /\ Made(x, type).present = x.present /\ Made(x, type).rx = x.rx
         /\ Made(x, type).nonce_staged = x.nonce_staged /\ KeepsOwed(x, Made(x, type))
  <1> DEFINE y == Tagged(x)
  <1>1. /\ y \in Sessions /\ y.tx_counter = x.tx_counter + 1 /\ y.present = x.present
        /\ y.rx = x.rx /\ y.nonce_staged = x.nonce_staged /\ KeepsOwed(x, y)
    BY TaggedMoves
  <1>2. Made(x, type) = IF type = "drops" THEN [y EXCEPT !.drops_sent_ms = now]
                                          ELSE dh_session_note_sent(y, now)
    BY DEF Made
  <1> HIDE DEF y
  <1>3. CASE type = "drops"
    BY <1>1, <1>2, <1>3 DEF Sessions, KeepsOwed
  <1>4. CASE type # "drops"
    <2>1. Keeps(y, dh_session_note_sent(y, now)) /\ KeepsOwed(y, dh_session_note_sent(y, now))
      BY <1>1, NoteSentKeeps
    <2>2. QED
      BY <1>1, <1>2, <1>4, <2>1 DEF Keeps, KeepsOwed
  <1>5. QED
    BY <1>3, <1>4

Released(x, t, type) ==
    [dh_session_note_sent(x, t)
       EXCEPT !.clip_policy_owed = @ /\ type # "policy",
              !.alert_pending = @ /\ type # "alert",
              !.drops_owed = @ /\ type # "drops"]

LEMMA ReleasedKeeps ==
  ASSUME NEW x \in Sessions, NEW t \in Ms, NEW type
  PROVE  /\ Keeps(x, Released(x, t, type))
         /\ Released(x, t, type).policy = x.policy /\ Released(x, t, type).drops = x.drops
         /\ Released(x, t, type).clip_policy_owed = (x.clip_policy_owed /\ type # "policy")
         /\ Released(x, t, type).alert_pending = (x.alert_pending /\ type # "alert")
         /\ Released(x, t, type).drops_owed = (x.drops_owed /\ type # "drops")
  <1> DEFINE y == Released(x, t, type)
             z == dh_session_note_sent(x, t)
             p == z.clip_policy_owed /\ type # "policy"
             a == z.alert_pending /\ type # "alert"
             d == z.drops_owed /\ type # "drops"
  <1>1. z \in Sessions /\ Keeps(x, z) /\ KeepsOwed(x, z)
    BY NoteSentKeeps DEF Keeps
  <1>2. y = [z EXCEPT !.clip_policy_owed = p, !.alert_pending = a, !.drops_owed = d]
    BY Zenon DEF Released
  <1> HIDE DEF y, z
  <1>3. p \in BOOLEAN /\ a \in BOOLEAN /\ d \in BOOLEAN
    BY Zenon
  <1>4. /\ p = (x.clip_policy_owed /\ type # "policy")
        /\ a = (x.alert_pending /\ type # "alert")
        /\ d = (x.drops_owed /\ type # "drops")
    BY <1>1, Zenon DEF KeepsOwed
  <1> HIDE DEF p, a, d
  <1>5. y \in Sessions /\ Keeps(x, y) /\ y.policy = x.policy /\ y.drops = x.drops
        /\ y.clip_policy_owed = p /\ y.alert_pending = a /\ y.drops_owed = d
    <2>1. y \in Sessions
      BY <1>1, <1>2, <1>3 DEF Sessions
    <2>2. y.clip_policy_owed = p /\ y.alert_pending = a /\ y.drops_owed = d
          /\ y.present = z.present /\ y.rx = z.rx /\ y.tx_counter = z.tx_counter
          /\ y.nonce_staged = z.nonce_staged /\ y.policy = z.policy /\ y.drops = z.drops
      BY <1>1, <1>2 DEF Sessions
    <2>3. QED
      BY <1>1, <2>1, <2>2 DEF Keeps, KeepsOwed
  <1>6. QED
    BY <1>4, <1>5, Zenon DEF y

LEMMA SessionTickPreserves ==
  ASSUME NEW queued \in BOOLEAN, SessionInv, dh_session_tick(queued)
  PROVE  SessionInv'
  <1> DEFINE x == Updated
             type == Owes(x, now)
             m == Made(x, type)
  <1>1. Keeps(s, x) /\ OwesMore(s, x)
    BY UpdatedKeeps DEF SessionInv
  <1>2. x \in Sessions /\ now \in Ms /\ x.present = s.present /\ x.tx_counter = s.tx_counter
        /\ x.nonce_staged = s.nonce_staged /\ x.rx = s.rx
    BY <1>1 DEF Keeps, SessionInv, TypeOK
  <1>3. /\ type \in {"policy", "alert", "drops", "beat"} /\ x.tx_counter < MaxTag
        /\ s' = IF queued
                  THEN [dh_session_note_sent(m, now)
                          EXCEPT !.clip_policy_owed = @ /\ type # "policy",
                                 !.alert_pending = @ /\ type # "alert",
                                 !.drops_owed = @ /\ type # "drops"]
                  ELSE m
        /\ Tags(x) /\ Offered(queued, type = "drops")
        /\ told' = IF ~ queued THEN told
                   ELSE [policy |-> IF type = "policy" THEN x.policy ELSE told.policy,
                         drops |-> IF type = "drops" THEN x.drops ELSE told.drops]
    BY Zenon DEF dh_session_tick, Made
  <1>4. ToldOf(x, told)
    <2>1. ToldOf(s, told)
      BY DEF SessionInv, ToldCurrent, ToldOf
    <2> HIDE DEF x
    <2>2. QED
      BY <1>1, <2>1 DEF ToldOf, Keeps, OwesMore
  <1> HIDE DEF x
  <1>5. s.present
    BY <1>2, <1>3, Zenon DEF Owes
  <1>6. /\ m \in Sessions /\ m.tx_counter = x.tx_counter + 1 /\ m.present = x.present
        /\ m.rx = x.rx /\ m.nonce_staged = x.nonce_staged /\ KeepsOwed(x, m)
    BY <1>2, <1>3, MadeKeeps
  <1> HIDE DEF m, type
  <1>7. queued => /\ Keeps(m, s') /\ s'.policy = m.policy /\ s'.drops = m.drops
                  /\ s'.clip_policy_owed = (m.clip_policy_owed /\ type # "policy")
                  /\ s'.drops_owed = (m.drops_owed /\ type # "drops")
    <2> SUFFICES ASSUME queued PROVE
          /\ Keeps(m, s') /\ s'.policy = m.policy /\ s'.drops = m.drops
          /\ s'.clip_policy_owed = (m.clip_policy_owed /\ type # "policy")
          /\ s'.drops_owed = (m.drops_owed /\ type # "drops")
      OBVIOUS
    <2>1. s' = Released(m, now, type)
      BY <1>3, Zenon DEF Released
    <2>2. m \in Sessions /\ now \in Ms
      BY <1>2, <1>6
    <2>3. QED
      BY <2>1, <2>2, ReleasedKeeps, Zenon
  <1>8. ~ queued => s' = m
    BY <1>3
  <1>9. /\ s' \in Sessions /\ s'.tx_counter = s.tx_counter + 1 /\ s'.present = s.present
        /\ s'.rx = s.rx /\ s'.nonce_staged = s.nonce_staged
    BY <1>2, <1>6, <1>7, <1>8 DEF Keeps
  <1>10. tagged' = tagged \cup {s.tx_counter} /\ keyed' = keyed /\ reused' = FALSE
         /\ tagged' \subseteq 0 .. MaxTag
    BY <1>2, <1>3, <1>5, TagsOnce
  <1>11. accepted' = accepted /\ nonces' = nonces
    BY DEF dh_session_tick
  <1>12. TypeOK'
    <2>1. crowded' \in BOOLEAN
      BY <1>3, Zenon DEF Offered
    <2>2. quiet' \in Nat /\ beatless' \in Nat
      BY <1>3 DEF SessionInv, TypeOK, Offered
    <2>3. /\ clock' = clock /\ passed' = passed /\ now' = now /\ nonces' = nonces /\ running' = FALSE
          /\ hellos' = hellos /\ policy' = policy /\ drops' = drops /\ accepted' = accepted
          /\ silence' = silence /\ early' = early
      BY DEF dh_session_tick, config
    <2>4. QED
      BY <1>9, <1>10, <2>1, <2>2, <2>3 DEF SessionInv, TypeOK
  <1>13. ToldCurrent'
    <2>1. CASE ~ queued
      BY <1>3, <1>4, <1>6, <1>8, <2>1 DEF ToldCurrent, ToldOf, KeepsOwed
    <2>2. CASE queued
      <3>1. told'.policy = (IF type = "policy" THEN x.policy ELSE told.policy)
            /\ told'.drops = (IF type = "drops" THEN x.drops ELSE told.drops)
        BY <1>3, <2>2
      <3>2. s'.present = x.present /\ s'.policy = x.policy /\ s'.drops = x.drops
            /\ (~ s'.clip_policy_owed => ~ x.clip_policy_owed \/ type = "policy")
            /\ (~ s'.drops_owed => ~ x.drops_owed \/ type = "drops")
        BY <1>6, <1>7, <2>2, Zenon DEF Keeps, KeepsOwed
      <3>3. QED
        BY <1>4, <3>1, <3>2 DEF ToldCurrent, ToldOf
    <2>3. QED
      BY <2>1, <2>2
  <1>14. QED
    BY <1>5, <1>9, <1>10, <1>11, <1>12, <1>13, SpentPreserves, <1>2 DEF SessionInv
-----------------------------------------------------------------------------
(* The invariant of a session holds at the start. *)
LEMMA InitEstablishes == Init => SessionInv
  <1> SUFFICES ASSUME Init PROVE SessionInv
    OBVIOUS
  <1>1. s \in Sessions /\ ~ s.present /\ s.rx = dh_auth_counter_init /\ ~ s.nonce_staged
    BY Constants DEF Init, dh_session_init, Sessions
  <1>2. TypeOK
    BY <1>1, Constants DEF Init, TypeOK
  <1>3. Records(s.rx, accepted)
    BY <1>1, EmptyRecord DEF Init
  <1>4. TagsFresh /\ ToldCurrent
    BY <1>1 DEF Init, TagsFresh, ToldCurrent
  <1>5. QED
    BY <1>2, <1>3, <1>4 DEF SessionInv

(* Every step of the session and its helper preserves the invariant. *)
LEMMA NextPreserves == SessionInv /\ [Next]_vars => SessionInv'
  <1> SUFFICES ASSUME SessionInv, [Next]_vars PROVE SessionInv'
    OBVIOUS
  <1>1. CASE UNCHANGED vars
    BY <1>1 DEF vars, SessionInv, TypeOK, Records, TagsFresh, ToldCurrent
  <1>2. CASE Next
    BY <1>2, TickPreserves, ConfigPreserves, StagePreserves, WriteHelloPreserves, HelloPreserves,
       HelloRefusedPreserves, RefusePreserves, AuthenticatePreserves, FailsPreserves,
       LinkLostPreserves, EmitPreserves, EndSessionPreserves, EvictPreserves,
       SessionTickPreserves, TickQuietPreserves, Zenon
    DEF Next
  <1>3. QED
    BY <1>1, <1>2

(* SessionInv is an invariant: the window is the record of what was accepted,
   tags are fresh and the helper is told what changed. *)
THEOREM SessionInvariant == Spec => []SessionInv
  BY InitEstablishes, NextPreserves, PTL DEF Spec

(* The session's state has its types in every reachable state
   (core/dh_session.c as channel_lifecycle.c drives it). *)
THEOREM SessionTypeOK == Spec => []TypeOK
  <1>1. SessionInv => TypeOK
    BY DEF SessionInv
  <1>2. QED
    BY <1>1, SessionInvariant, PTL

(* dh_auth_counter_ok passes exactly the counters not yet accepted under the
   session's key that are less than the window behind the newest, whatever
   order and how often frames arrive, and for every width of the window. *)
THEOREM SessionWindowExact == Spec => []WindowExact
  <1>1. SessionInv => WindowExact
    <2> SUFFICES ASSUME SessionInv, NEW n \in 0 .. MaxCounter
                 PROVE  dh_auth_counter_ok(s.rx, n) <=>
                          n \notin accepted /\ \A a \in accepted : a - n < AUTH_WINDOW
      BY DEF WindowExact
    <2>1. s.rx \in Counters /\ accepted \in SUBSET Nat /\ n \in Nat /\ Records(s.rx, accepted)
      BY Constants DEF SessionInv, TypeOK, Sessions
    <2>2. QED
      BY <2>1, WindowTells
  <1>2. QED
    BY <1>1, SessionInvariant, PTL

(* The board tags no two frames with one key and counter, however often
   sessions end, hellos repeat and offers are refused (answer_hello spends the
   nonce, dh_session_drop takes the keys). *)
THEOREM SessionNoTagReuse == Spec => []NoTagReuse
  <1>1. SessionInv => NoTagReuse
    BY DEF SessionInv, TagsFresh, NoTagReuse
  <1>2. QED
    BY <1>1, SessionInvariant, PTL

(* While nothing is owed, the helper was last told the session's own policy
   and drop totals (dh_session_note_owed_sent). *)
THEOREM SessionToldCurrent == Spec => []ToldCurrent
  <1>1. SessionInv => ToldCurrent
    BY DEF SessionInv
  <1>2. QED
    BY <1>1, SessionInvariant, PTL
-----------------------------------------------------------------------------
\* What a step may do to a pending alert.
AlertStep ==
    s.alert_pending /\ ~ s'.alert_pending =>
        s.present /\ s'.present /\ quiet' = 0 /\ s'.tx_counter = s.tx_counter + 1

(* dh_session_tick clears a pending alert only with the frame that carries it. *)
LEMMA SessionTickAlert ==
  ASSUME NEW queued \in BOOLEAN, SessionInv, dh_session_tick(queued)
  PROVE  AlertStep
  <1> DEFINE x == Updated
             type == Owes(x, now)
             m == Made(x, type)
  <1>1. Keeps(s, x) /\ OwesMore(s, x)
    BY UpdatedKeeps DEF SessionInv
  <1>2. x \in Sessions /\ now \in Ms /\ x.present = s.present /\ x.tx_counter = s.tx_counter
        /\ (s.alert_pending => x.alert_pending)
    BY <1>1 DEF Keeps, OwesMore, SessionInv, TypeOK
  <1>3. /\ type \in {"policy", "alert", "drops", "beat"} /\ x.tx_counter < MaxTag
        /\ s' = IF queued THEN Released(m, now, type) ELSE m
        /\ Offered(queued, type = "drops")
    BY Zenon DEF dh_session_tick, Made, Released
  <1> HIDE DEF x
  <1>4. s.present
    BY <1>2, <1>3, Zenon DEF Owes
  <1>5. /\ m \in Sessions /\ m.tx_counter = x.tx_counter + 1 /\ m.present = x.present
        /\ KeepsOwed(x, m)
    BY <1>2, <1>3, MadeKeeps
  <1> HIDE DEF m, type
  <1>6. CASE ~ queued
    BY <1>2, <1>3, <1>5, <1>6 DEF AlertStep, KeepsOwed
  <1>7. CASE queued
    <2>1. s' = Released(m, now, type) /\ quiet' = 0
      BY <1>3, <1>7 DEF Offered
    <2>2. Keeps(m, s')
      BY <1>2, <1>5, <2>1, ReleasedKeeps
    <2>3. QED
      BY <1>2, <1>4, <1>5, <2>1, <2>2 DEF AlertStep, Keeps
  <1>8. QED
    BY <1>6, <1>7

(* Every other step leaves a pending alert pending. *)
LEMMA NextAlert == SessionInv /\ [Next]_vars => AlertStep
  <1> SUFFICES ASSUME SessionInv, [Next]_vars PROVE AlertStep
    OBVIOUS
  <1>1. s \in Sessions /\ now \in Ms /\ nonces \in Nat /\ hellos \in Nat
    BY DEF SessionInv, TypeOK
  <1>2. CASE UNCHANGED vars \/ Tick \/ Config \/ WriteHello
    BY <1>2 DEF vars, Tick, Config, WriteHello, AlertStep
  <1>3. CASE dh_session_stage_nonce
    BY <1>1, <1>3 DEF dh_session_stage_nonce, Sessions, AlertStep
  <1>4. ASSUME NEW n \in 1 .. hellos, answer_hello(n) PROVE AlertStep
    <2> DEFINE k == [helper |-> n, board |-> nonces]
               x == Keyed(s, k, now)
    <2>1. k \in Keys
      BY <1>1 DEF Keys
    <2>2. x \in Sessions /\ x.tx_counter = 0 /\ x.alert_pending = s.alert_pending
      BY <1>1, <2>1, KeyedFresh
    <2>3. s' = dh_session_note_sent(Tagged(x), now)
      BY <1>4 DEF answer_hello
    <2> HIDE DEF x
    <2>4. Tagged(x) \in Sessions /\ KeepsOwed(x, Tagged(x))
      BY <2>2, Constants, TaggedMoves
    <2>5. KeepsOwed(Tagged(x), s')
      BY <1>1, <2>3, <2>4, NoteSentKeeps
    <2>6. QED
      BY <2>2, <2>4, <2>5 DEF KeepsOwed, AlertStep
  <1>5. CASE HelloRefused \/ AuthenticateFails
    BY <1>1, <1>5, RefusedKeeps DEF HelloRefused, AuthenticateFails, KeepsOwed, AlertStep
  <1>6. CASE refuse_hello
    BY <1>1, <1>6, NoteSentKeeps DEF refuse_hello, KeepsOwed, AlertStep
  <1>7. ASSUME NEW n \in 0 .. MaxCounter, dh_session_authenticate(n) PROVE AlertStep
    BY <1>1, <1>7 DEF dh_session_authenticate, note_received, Sessions, AlertStep
  <1>8. CASE channel_lifecycle_link_lost
    BY <1>1, <1>8, DropClears DEF channel_lifecycle_link_lost, AlertStep
  <1>9. ASSUME NEW queued \in BOOLEAN, dh_session_emit_relayed(queued) PROVE AlertStep
    <2> DEFINE x == Tagged(s)
    <2>1. x \in Sessions /\ KeepsOwed(s, x)
      BY <1>1, <1>9, TaggedMoves DEF dh_session_emit_relayed
    <2>2. s' = IF queued THEN dh_session_note_sent(x, now) ELSE x
      BY <1>9 DEF dh_session_emit_relayed
    <2> HIDE DEF x
    <2>3. KeepsOwed(x, dh_session_note_sent(x, now))
      BY <1>1, <2>1, NoteSentKeeps
    <2>4. QED
      BY <2>1, <2>2, <2>3 DEF KeepsOwed, AlertStep
  <1>10. ASSUME NEW queued \in BOOLEAN, end_session(queued) PROVE AlertStep
    <2>1. s'.alert_pending = s.alert_pending
      BY <1>1, <1>10, DropEnds DEF end_session
    <2>2. QED
      BY <2>1 DEF AlertStep
  <1>11. ASSUME NEW queued \in BOOLEAN, dh_session_end(queued) PROVE AlertStep
    <2> DEFINE x == Updated
    <2>1. x \in Sessions /\ (s.alert_pending => x.alert_pending)
      BY UpdatedKeeps DEF SessionInv, Keeps, OwesMore
    <2>2. s' = IF queued THEN dh_session_note_sent(dh_session_drop(x), now) ELSE dh_session_drop(x)
      BY <1>11 DEF dh_session_end
    <2> HIDE DEF x
    <2>3. s'.alert_pending = x.alert_pending
      BY <1>1, <2>1, <2>2, DropEnds
    <2>4. QED
      BY <2>1, <2>3 DEF AlertStep
  <1>12. CASE TickQuiet
    BY <1>12, UpdatedKeeps DEF SessionInv, OwesMore, TickQuiet, AlertStep
  <1>13. QED
    BY <1>2, <1>3, <1>4, <1>5, <1>6, <1>7, <1>8, <1>9, <1>10, <1>11, <1>12, SessionTickAlert, Zenon
    DEF Next

(* A pending listener alert is cleared only by the queued frame that carries it
   in a live session (close_listener_window, dh_session_note_owed_sent). *)
THEOREM SessionAlertSurvives == Spec => AlertSurvives
  <1>1. SessionInv /\ [Next]_vars =>
          [s.alert_pending /\ ~ s'.alert_pending =>
             s.present /\ s'.present /\ quiet' = 0 /\ s'.tx_counter = s.tx_counter + 1]_vars
    BY NextAlert DEF AlertStep
  <1>2. QED
    BY <1>1, SessionInvariant, PTL DEF Spec, AlertSurvives

-----------------------------------------------------------------------------
(* The timing of a session.  A pass works with the reading of the clock it
   began with, so the clock is at most one tick ahead of it. *)

Lag == IF passed THEN 0 ELSE 1

\* What the pass reads of the helper's silence is the silence, up to the lag,
\* and never past the deadline; between passes it is short of it.
Heard(seen, t, lag, inside, sil) ==
    /\ Elapsed(t, seen) <= ABSENT_MS
    /\ ~ inside => Elapsed(t, seen) < ABSENT_MS
    /\ Elapsed(t, seen) + lag <= sil + 1 /\ sil <= Elapsed(t, seen) + lag

\* What the pass reads of the idle timer bounds the time nothing was sent.
Idle(sent, t, lag, inside, q) ==
    /\ Elapsed(t, sent) <= HEARTBEAT_MS
    /\ ~ inside => Elapsed(t, sent) < HEARTBEAT_MS
    /\ q <= Elapsed(t, sent) + lag

TimeInv ==
    /\ ~ early
    /\ clock = (now + Lag) % CLOCK
    /\ s.present => Heard(s.last_seen_ms, now, Lag, running, silence)
    /\ s.present /\ ~ crowded => Idle(s.last_sent_ms, now, Lag, running, quiet)

(* The clock as the steps below use it. *)
LEMMA ClockFacts ==
  /\ CLOCK \in Nat \ {0} /\ ABSENT_MS \in Nat \ {0} /\ HEARTBEAT_MS \in Nat \ {0}
  /\ 2 * ABSENT_MS < CLOCK /\ HEARTBEAT_MS < CLOCK
  BY SessionAssumption, ClockAssumption

(* The age of a stamp, by whether the clock has wrapped since it. *)
LEMMA ElapsedCases ==
  ASSUME NEW a \in Ms, NEW b \in Ms
  PROVE  /\ a >= b => Elapsed(a, b) = a - b
         /\ a < b => Elapsed(a, b) = a - b + CLOCK
         /\ Elapsed(a, b) \in Nat /\ Elapsed(a, b) < CLOCK /\ Elapsed(a, a) = 0
  <1>1. CLOCK \in Nat \ {0} /\ a \in Int /\ b \in Int /\ 0 <= a /\ a < CLOCK /\ 0 <= b /\ b < CLOCK
    BY ClockFacts DEF Ms
  <1>2. \A x \in 0 .. CLOCK - 1 : x % CLOCK = x
    BY <1>1
  <1>3. \A x \in 1 - CLOCK .. -1 : x % CLOCK = x + CLOCK
    BY <1>1
  <1>4. a >= b => Elapsed(a, b) = a - b
    BY <1>1, <1>2 DEF Elapsed
  <1>5. a < b => Elapsed(a, b) = a - b + CLOCK
    BY <1>1, <1>3 DEF Elapsed
  <1>6. Elapsed(a, a) = 0
    BY <1>1, <1>2 DEF Elapsed
  <1>7. QED
    BY <1>1, <1>4, <1>5, <1>6

(* A tick makes a stamp one tick older, until it has gone round. *)
LEMMA ElapsedTick ==
  ASSUME NEW a \in Ms, NEW b \in Ms
  PROVE  /\ (a + 0) % CLOCK = a /\ (a + 1) % CLOCK \in Ms
         /\ Elapsed(a, b) + 1 < CLOCK => Elapsed((a + 1) % CLOCK, b) = Elapsed(a, b) + 1
  <1> DEFINE c == (a + 1) % CLOCK
  <1>1. CLOCK \in Nat \ {0} /\ a \in Int /\ b \in Int /\ 0 <= a /\ a < CLOCK /\ 0 <= b /\ b < CLOCK
    BY ClockFacts DEF Ms
  <1>2. \A x \in 0 .. CLOCK - 1 : x % CLOCK = x
    BY <1>1
  <1>3. c = IF a + 1 = CLOCK THEN 0 ELSE a + 1
    <2>1. CASE a + 1 = CLOCK
      BY <1>1, <2>1
    <2>2. CASE a + 1 # CLOCK
      BY <1>1, <1>2, <2>2
    <2>3. QED
      BY <2>1, <2>2
  <1>4. c \in Ms
    BY <1>1, <1>3 DEF Ms
  <1>5. (a + 0) % CLOCK = a
    BY <1>1, <1>2
  <1> HIDE DEF c
  <1>6. /\ a >= b => Elapsed(a, b) = a - b
        /\ a < b => Elapsed(a, b) = a - b + CLOCK
    BY ElapsedCases
  <1>7. /\ c >= b => Elapsed(c, b) = c - b
        /\ c < b => Elapsed(c, b) = c - b + CLOCK
    BY <1>4, ElapsedCases
  <1>8. Elapsed(a, b) + 1 < CLOCK => Elapsed(c, b) = Elapsed(a, b) + 1
    BY <1>1, <1>3, <1>6, <1>7
  <1>9. QED
    BY <1>4, <1>5, <1>8 DEF c

(* Within the deadline the signed age is the age. *)
LEMMA AbsentTells ==
  ASSUME NEW x \in Sessions, NEW t \in Ms, Elapsed(t, x.last_seen_ms) <= ABSENT_MS
  PROVE  Absent(x, t) <=> Elapsed(t, x.last_seen_ms) = ABSENT_MS
  <1> DEFINE r == Elapsed(t, x.last_seen_ms)
  <1>1. x.last_seen_ms \in Ms
    BY DEF Sessions
  <1>2. r \in Nat /\ r <= ABSENT_MS
    BY <1>1, ElapsedCases
  <1>3. Absent(x, t) <=> (IF 2 * r >= CLOCK THEN r - CLOCK ELSE r) >= ABSENT_MS
    BY DEF Absent, SignedElapsed
  <1> HIDE DEF r
  <1>4. Absent(x, t) <=> r = ABSENT_MS
    BY <1>2, <1>3, ClockFacts
  <1>5. QED
    BY <1>4 DEF r
-----------------------------------------------------------------------------
(* Which steps move the stamps of a session. *)

Stamps(x, y) ==
    y.present = x.present /\ y.last_seen_ms = x.last_seen_ms /\ y.last_sent_ms = x.last_sent_ms

LEMMA RefusedStamps ==
  ASSUME NEW x \in Sessions, NEW t \in Ms, NEW b \in BOOLEAN
  PROVE  Stamps(x, note_refused(x, t, b))
  <1> DEFINE w == IF x.window_started_ms # Unset THEN x
                  ELSE [x EXCEPT !.window_started_ms = t,
                                 !.refused_in_window = 0, !.refused_as_registered = FALSE]
             r == w.refused_as_registered \/ b
             y == note_refused(x, t, b)
  <1>1. w \in Sessions /\ Stamps(x, w)
    BY DEF Stamps, Sessions
  <1>2. y = [w EXCEPT !.frames_refused = @ + 1, !.refused_in_window = @ + 1,
                      !.refused_as_registered = r]
    BY Zenon DEF note_refused
  <1> HIDE DEF w, r, y
  <1>3. Stamps(w, y)
    BY <1>1, <1>2 DEF Sessions, Stamps
  <1>4. Stamps(x, y)
    BY <1>1, <1>3 DEF Stamps
  <1>5. QED
    BY <1>4 DEF y

LEMMA UpdatedStamps ==
  ASSUME TypeOK
  PROVE  Stamps(s, Updated)
  <1> DEFINE x == dh_session_set_drops(s, drops)
             y == dh_session_set_clip_policy(x, policy)
             z == close_listener_window(y, now)
  <1>1. s \in Sessions /\ drops \in Nat /\ policy \in Policies /\ now \in Ms
    BY DEF TypeOK
  <1>2. x \in Sessions
    BY <1>1, SetDropsOwes DEF Keeps
  <1>3. Stamps(s, x)
    <2> DEFINE o == s.drops_owed \/ s.present
    <2>1. x = IF s.drops = drops THEN s ELSE [s EXCEPT !.drops = drops, !.drops_owed = o]
      BY Zenon DEF dh_session_set_drops
    <2> HIDE DEF x, o
    <2>2. QED
      BY <1>1, <2>1 DEF Sessions, Stamps
  <1> HIDE DEF x
  <1>4. y \in Sessions
    BY <1>1, <1>2, SetPolicyOwes DEF Keeps
  <1>5. Stamps(x, y)
    <2> DEFINE o == x.clip_policy_owed \/ x.present
    <2>1. y = IF x.policy = policy THEN x ELSE [x EXCEPT !.policy = policy, !.clip_policy_owed = o]
      BY Zenon DEF dh_session_set_clip_policy
    <2> HIDE DEF y, o
    <2>2. QED
      BY <1>2, <2>1 DEF Sessions, Stamps
  <1> HIDE DEF y
  <1>6. Stamps(y, z)
    <2> DEFINE c == y.window_started_ms # Unset /\ Elapsed(now, y.window_started_ms) >= LISTENER_WINDOW_MS
               a == y.alert_pending \/ y.refused_in_window >= LISTENER_THRESHOLD
                                    \/ y.refused_as_registered
    <2>1. z = IF c THEN [y EXCEPT !.alert_pending = a, !.window_started_ms = Unset,
                                  !.refused_in_window = 0, !.refused_as_registered = FALSE]
              ELSE y
      BY Zenon DEF close_listener_window
    <2> HIDE DEF z, a, c
    <2>2. QED
      BY <1>4, <2>1 DEF Sessions, Stamps
  <1>7. Updated = z
    BY DEF Updated, x, y
  <1> HIDE DEF z
  <1>8. QED
    BY <1>3, <1>5, <1>6, <1>7 DEF Stamps

LEMMA SentStamps ==
  ASSUME NEW x \in Sessions, NEW t \in Ms
  PROVE  /\ dh_session_note_sent(x, t).present = x.present
         /\ dh_session_note_sent(x, t).last_seen_ms = x.last_seen_ms
         /\ dh_session_note_sent(x, t).last_sent_ms = t
         /\ Stamps(x, Tagged(x))
  BY DEF Sessions, dh_session_note_sent, Tagged, Stamps

LEMMA MadeStamps ==
  ASSUME NEW x \in Sessions, x.tx_counter < MaxTag, now \in Ms, NEW type
  PROVE  /\ Made(x, type).present = x.present /\ Made(x, type).last_seen_ms = x.last_seen_ms
         /\ Released(Made(x, type), now, type).present = x.present
         /\ Released(Made(x, type), now, type).last_seen_ms = x.last_seen_ms
         /\ Released(Made(x, type), now, type).last_sent_ms = now
  <1> DEFINE y == Tagged(x)
             m == Made(x, type)
             z == dh_session_note_sent(m, now)
             p == z.clip_policy_owed /\ type # "policy"
             a == z.alert_pending /\ type # "alert"
             d == z.drops_owed /\ type # "drops"
             v == Released(m, now, type)
  <1>1. y \in Sessions /\ Stamps(x, y)
    BY TaggedMoves, SentStamps
  <1>2. m \in Sessions
    BY MadeKeeps
  <1>3. m = IF type = "drops" THEN [y EXCEPT !.drops_sent_ms = now] ELSE dh_session_note_sent(y, now)
    BY DEF Made
  <1> HIDE DEF y, m
  <1>4. m.present = x.present /\ m.last_seen_ms = x.last_seen_ms
    BY <1>1, <1>3 DEF Sessions, Stamps, dh_session_note_sent
  <1>5. z \in Sessions /\ z.present = m.present /\ z.last_seen_ms = m.last_seen_ms /\ z.last_sent_ms = now
    BY <1>2, NoteSentKeeps, SentStamps DEF Keeps
  <1>6. v = [z EXCEPT !.clip_policy_owed = p, !.alert_pending = a, !.drops_owed = d]
    BY Zenon DEF Released
  <1> HIDE DEF z, v, p, a, d
  <1>7. v.present = z.present /\ v.last_seen_ms = z.last_seen_ms /\ v.last_sent_ms = z.last_sent_ms
    BY <1>5, <1>6 DEF Sessions
  <1>8. QED
    BY <1>4, <1>5, <1>7 DEF m, v

-----------------------------------------------------------------------------
(* A step that moves neither the clock nor the pass, the stamps nor what they
   stand for. *)
LEMMA StillKeepsTime ==
  ASSUME TimeInv, Stamps(s, s'),
         clock' = clock, passed' = passed, now' = now, running' = running, early' = early,
         silence' = silence, quiet' = quiet, crowded => crowded'
  PROVE  TimeInv'
  BY DEF TimeInv, Stamps, Lag, Heard, Idle

(* A step that leaves no session. *)
LEMMA EndedKeepsTime ==
  ASSUME TimeInv, ~ s'.present, clock' = clock, passed' = passed, now' = now, ~ early'
  PROVE  TimeInv'
  BY DEF TimeInv, Lag

(* The helper was heard in this pass. *)
LEMMA HeardNow ==
  ASSUME NEW t \in Ms, NEW lag \in {0, 1}, NEW inside \in BOOLEAN
  PROVE  Heard(t, t, lag, inside, 0)
  <1>1. Elapsed(t, t) = 0
    BY ElapsedCases
  <1>2. QED
    BY <1>1, ClockFacts DEF Heard

(* A frame was queued in this pass. *)
LEMMA SentNow ==
  ASSUME NEW t \in Ms, NEW lag \in {0, 1}, NEW inside \in BOOLEAN
  PROVE  Idle(t, t, lag, inside, 0)
  <1>1. Elapsed(t, t) = 0
    BY ElapsedCases
  <1>2. QED
    BY <1>1, ClockFacts DEF Idle

(* The clock moves: the pass falls one tick behind, and no session is so old
   that its silence would not be counted. *)
LEMMA TickTime == SessionInv /\ TimeInv /\ Tick => TimeInv'
  <1> SUFFICES ASSUME SessionInv, TimeInv, Tick PROVE TimeInv'
    OBVIOUS
  <1>1. passed /\ ~ passed' /\ Lag = 0 /\ Lag' = 1
    BY DEF Tick, Lag
  <1>2. now \in Ms /\ s \in Sessions /\ silence \in Nat /\ quiet \in Nat
    BY DEF SessionInv, TypeOK
  <1>3. clock = now
    BY <1>1, <1>2, ElapsedTick DEF TimeInv
  <1>4. now' = now /\ running' = running /\ s' = s /\ early' = early /\ crowded' = crowded
    BY DEF Tick
  <1>5. clock' = (now' + Lag') % CLOCK
    BY <1>1, <1>3, <1>4 DEF Tick
  <1>6. ASSUME s.present PROVE Heard(s.last_seen_ms, now, 1, running, silence')
    <2> DEFINE r == Elapsed(now, s.last_seen_ms)
    <2>1. r \in Nat
      BY <1>2, ElapsedCases DEF Sessions
    <2>2. r <= ABSENT_MS /\ (~ running => r < ABSENT_MS) /\ r <= silence + 1 /\ silence <= r
      BY <1>1, <1>6, <2>1 DEF TimeInv, Heard
    <2> HIDE DEF r
    <2>3. silence' = silence + 1
      BY <1>2, <1>6, <2>1, <2>2, ClockFacts DEF Tick
    <2>4. r + 1 <= silence' + 1 /\ silence' <= r + 1
      BY <1>2, <2>1, <2>2, <2>3
    <2>5. QED
      BY <2>2, <2>4 DEF Heard, r
  <1>7. ASSUME s.present, ~ crowded PROVE Idle(s.last_sent_ms, now, 1, running, quiet')
    <2> DEFINE e == Elapsed(now, s.last_sent_ms)
    <2>1. e \in Nat
      BY <1>2, ElapsedCases DEF Sessions
    <2>2. e <= HEARTBEAT_MS /\ (~ running => e < HEARTBEAT_MS) /\ quiet <= e
      BY <1>1, <1>7, <2>1 DEF TimeInv, Idle
    <2> HIDE DEF e
    <2>3. quiet' <= e + 1
      BY <1>2, <2>1, <2>2 DEF Tick
    <2>4. QED
      BY <2>2, <2>3 DEF Idle, e
  <1>8. QED
    BY <1>1, <1>4, <1>5, <1>6, <1>7 DEF TimeInv

(* A pass begins: it reads the clock, and every age it works with grows by
   what the clock was ahead. *)
LEMMA StageTime == SessionInv /\ TimeInv /\ dh_session_stage_nonce => TimeInv'
  <1> SUFFICES ASSUME SessionInv, TimeInv, dh_session_stage_nonce PROVE TimeInv'
    OBVIOUS
  <1>1. now \in Ms /\ clock \in Ms /\ s \in Sessions /\ silence \in Nat /\ quiet \in Nat
    BY DEF SessionInv, TypeOK
  <1>2. ~ running /\ running' /\ passed' /\ Lag' = 0 /\ now' = clock /\ clock' = clock
        /\ silence' = silence /\ quiet' = quiet /\ crowded' = crowded /\ early' = early
    BY DEF dh_session_stage_nonce, Lag, wire
  <1>3. Stamps(s, s')
    BY <1>1 DEF dh_session_stage_nonce, Sessions, Stamps
  <1>4. Lag \in {0, 1} /\ clock = (now + Lag) % CLOCK
    BY DEF Lag, TimeInv
  <1>5. ASSUME NEW b \in Ms, Elapsed(now, b) + 1 < CLOCK
        PROVE  Elapsed(clock, b) = Elapsed(now, b) + Lag
    <2>1. CASE Lag = 0
      BY <1>1, <1>4, <2>1, ElapsedTick, ElapsedCases
    <2>2. CASE Lag = 1
      BY <1>1, <1>4, <1>5, <2>2, ElapsedTick
    <2>3. QED
      BY <1>4, <2>1, <2>2
  <1>6. ASSUME s.present PROVE Heard(s.last_seen_ms, clock, 0, TRUE, silence)
    <2> DEFINE r == Elapsed(now, s.last_seen_ms)
    <2>1. r \in Nat /\ s.last_seen_ms \in Ms
      BY <1>1, ElapsedCases DEF Sessions
    <2>2. r < ABSENT_MS /\ r + Lag <= silence + 1 /\ silence <= r + Lag
      BY <1>2, <1>6, <2>1 DEF TimeInv, Heard
    <2>3. r + 1 < CLOCK
      BY <2>1, <2>2, ClockFacts
    <2>4. Elapsed(clock, s.last_seen_ms) = r + Lag
      BY <1>5, <2>1, <2>3
    <2> HIDE DEF r
    <2>5. r + Lag <= ABSENT_MS /\ (r + Lag) + 0 <= silence + 1 /\ silence <= (r + Lag) + 0
      BY <1>1, <1>4, <2>1, <2>2, ClockFacts
    <2>6. QED
      BY <2>4, <2>5 DEF Heard
  <1>7. ASSUME s.present, ~ crowded PROVE Idle(s.last_sent_ms, clock, 0, TRUE, quiet)
    <2> DEFINE e == Elapsed(now, s.last_sent_ms)
    <2>1. e \in Nat /\ s.last_sent_ms \in Ms
      BY <1>1, ElapsedCases DEF Sessions
    <2>2. e < HEARTBEAT_MS /\ quiet <= e + Lag
      BY <1>2, <1>7, <2>1 DEF TimeInv, Idle
    <2>3. e + 1 < CLOCK
      BY <2>1, <2>2, ClockFacts
    <2>4. Elapsed(clock, s.last_sent_ms) = e + Lag
      BY <1>5, <2>1, <2>3
    <2> HIDE DEF e
    <2>5. e + Lag <= HEARTBEAT_MS /\ quiet <= (e + Lag) + 0
      BY <1>1, <1>4, <2>1, <2>2, ClockFacts
    <2>6. QED
      BY <2>4, <2>5 DEF Idle
  <1>8. clock' = (now' + Lag') % CLOCK
    BY <1>1, <1>2, ElapsedTick
  <1>9. s'.present = s.present /\ s'.last_seen_ms = s.last_seen_ms /\ s'.last_sent_ms = s.last_sent_ms
    BY <1>3 DEF Stamps
  <1>10. s'.present => Heard(s'.last_seen_ms, now', Lag', running', silence')
    BY <1>2, <1>6, <1>9
  <1>11. s'.present /\ ~ crowded' => Idle(s'.last_sent_ms, now', Lag', running', quiet')
    BY <1>2, <1>7, <1>9
  <1>12. QED
    BY <1>2, <1>8, <1>10, <1>11 DEF TimeInv

(* A hello keys a session heard and told something in this pass. *)
LEMMA HelloTime ==
  ASSUME SessionInv, TimeInv, NEW n \in 1 .. hellos, answer_hello(n)
  PROVE  TimeInv'
  <1> DEFINE k == [helper |-> n, board |-> nonces]
             x == Keyed(s, k, now)
  <1>1. s \in Sessions /\ now \in Ms /\ k \in Keys /\ running \in BOOLEAN
    BY DEF SessionInv, TypeOK, Keys
  <1>2. x \in Sessions /\ x.tx_counter = 0
    BY <1>1, KeyedFresh
  <1>3. x.last_seen_ms = now
    BY <1>1 DEF Keyed, Sessions
  <1>4. s' = dh_session_note_sent(Tagged(x), now)
    BY DEF answer_hello
  <1> HIDE DEF x
  <1>5. Tagged(x) \in Sessions /\ Tagged(x).last_seen_ms = now
    BY <1>1, <1>2, <1>3, Constants, TaggedMoves, SentStamps DEF Stamps
  <1>6. s'.last_seen_ms = now /\ s'.last_sent_ms = now
    BY <1>1, <1>4, <1>5, SentStamps
  <1>7. clock' = clock /\ passed' = passed /\ now' = now /\ running' = running /\ early' = early
        /\ silence' = 0 /\ quiet' = 0
    BY DEF answer_hello, Forget
  <1>8. Lag \in {0, 1} /\ Lag' = Lag
    BY <1>7 DEF Lag
  <1>9. Heard(now, now, Lag, running, 0) /\ Idle(now, now, Lag, running, 0)
    BY <1>1, <1>8, HeardNow, SentNow
  <1>10. QED
    BY <1>6, <1>7, <1>8, <1>9 DEF TimeInv

(* An accepted frame is the helper heard in this pass. *)
LEMMA AuthenticateTime ==
  ASSUME SessionInv, TimeInv, NEW n \in 0 .. MaxCounter, dh_session_authenticate(n)
  PROVE  TimeInv'
  <1>1. s \in Sessions /\ now \in Ms /\ running \in BOOLEAN
    BY DEF SessionInv, TypeOK
  <1>2. s.present /\ s'.present = s.present /\ s'.last_seen_ms = now
        /\ s'.last_sent_ms = s.last_sent_ms
    BY <1>1 DEF dh_session_authenticate, note_received, Sessions
  <1>3. clock' = clock /\ passed' = passed /\ now' = now /\ running' = running /\ early' = early
        /\ silence' = 0 /\ quiet' = quiet /\ crowded' = crowded
    BY DEF dh_session_authenticate, wire
  <1>4. Lag \in {0, 1} /\ Lag' = Lag
    BY <1>3 DEF Lag
  <1>5. Heard(now, now, Lag, running, 0)
    BY <1>1, <1>4, HeardNow
  <1>6. QED
    BY <1>2, <1>3, <1>4, <1>5 DEF TimeInv

(* A refusal charges the idle timer in the beat's place. *)
LEMMA RefuseTime == SessionInv /\ TimeInv /\ refuse_hello => TimeInv'
  <1> SUFFICES ASSUME SessionInv, TimeInv, refuse_hello PROVE TimeInv'
    OBVIOUS
  <1>1. s \in Sessions /\ now \in Ms
    BY DEF SessionInv, TypeOK
  <1>2. s'.present = s.present /\ s'.last_seen_ms = s.last_seen_ms
    BY <1>1, SentStamps DEF refuse_hello
  <1>3. clock' = clock /\ passed' = passed /\ now' = now /\ running' = running /\ early' = early
        /\ silence' = silence /\ crowded'
    BY DEF refuse_hello
  <1>4. Lag' = Lag
    BY <1>3 DEF Lag
  <1>5. QED
    BY <1>2, <1>3, <1>4 DEF TimeInv

(* A relayed frame that is queued is a beat; one that is refused is excused. *)
LEMMA EmitTime ==
  ASSUME SessionInv, TimeInv, NEW queued \in BOOLEAN, dh_session_emit_relayed(queued)
  PROVE  TimeInv'
  <1> DEFINE x == Tagged(s)
  <1>1. s \in Sessions /\ now \in Ms /\ running \in BOOLEAN
    BY DEF SessionInv, TypeOK
  <1>2. x \in Sessions /\ Stamps(s, x)
    BY <1>1, TaggedMoves, SentStamps DEF dh_session_emit_relayed
  <1>3. s' = IF queued THEN dh_session_note_sent(x, now) ELSE x
    BY DEF dh_session_emit_relayed
  <1> HIDE DEF x
  <1>4. s'.present = s.present /\ s'.last_seen_ms = s.last_seen_ms
        /\ (queued => s'.last_sent_ms = now)
    BY <1>1, <1>2, <1>3, SentStamps DEF Stamps
  <1>5. clock' = clock /\ passed' = passed /\ now' = now /\ running' = running /\ early' = early
        /\ silence' = silence
    BY DEF dh_session_emit_relayed
  <1>6. (queued => quiet' = 0) /\ (~ queued => crowded')
    BY Zenon DEF dh_session_emit_relayed, Offered
  <1>7. Lag \in {0, 1} /\ Lag' = Lag
    BY <1>5 DEF Lag
  <1>8. Idle(now, now, Lag, running, 0)
    BY <1>1, <1>7, SentNow
  <1>9. QED
    BY <1>4, <1>5, <1>6, <1>7, <1>8 DEF TimeInv

(* A pass that ends with the session alive found the helper short of its
   deadline, and the idle timer too unless a frame was queued or refused. *)
LEMMA PassEnds ==
  ASSUME SessionInv, TimeInv, s.present, Owes(Updated, now) # "end"
  PROVE  /\ Heard(s.last_seen_ms, now, Lag, FALSE, silence)
         /\ ~ crowded /\ Owes(Updated, now) = "nothing" =>
              Idle(s.last_sent_ms, now, Lag, FALSE, quiet)
  <1> DEFINE x == Updated
  <1>1. x \in Sessions /\ Stamps(s, x) /\ now \in Ms /\ s \in Sessions
    BY UpdatedKeeps, UpdatedStamps DEF SessionInv, Keeps, TypeOK
  <1>2. x.present /\ x.last_seen_ms = s.last_seen_ms /\ x.last_sent_ms = s.last_sent_ms
    BY <1>1 DEF Stamps
  <1> HIDE DEF x
  <1>3. ~ Absent(x, now)
    BY <1>2, Zenon DEF Owes, x
  <1>4. Heard(s.last_seen_ms, now, Lag, running, silence)
    BY DEF TimeInv
  <1>5. Elapsed(now, x.last_seen_ms) <= ABSENT_MS
    BY <1>2, <1>4 DEF Heard
  <1>6. Elapsed(now, x.last_seen_ms) # ABSENT_MS
    BY <1>1, <1>3, <1>5, AbsentTells
  <1>7. Elapsed(now, s.last_seen_ms) \in Nat /\ Elapsed(now, s.last_sent_ms) \in Nat
    BY <1>1, ElapsedCases DEF Sessions
  <1>8. Elapsed(now, s.last_seen_ms) < ABSENT_MS
    BY <1>2, <1>5, <1>6, <1>7, ClockFacts
  <1>9. Heard(s.last_seen_ms, now, Lag, FALSE, silence)
    BY <1>4, <1>8 DEF Heard
  <1>10. ASSUME ~ crowded, Owes(x, now) = "nothing"
         PROVE  Idle(s.last_sent_ms, now, Lag, FALSE, quiet)
    <2>1. ~ BeatDue(x, now)
      BY <1>2, <1>3, <1>10 DEF Owes
    <2>2. Elapsed(now, s.last_sent_ms) < HEARTBEAT_MS
      BY <1>2, <1>7, <2>1, ClockFacts DEF BeatDue
    <2>3. QED
      BY <1>10, <2>2 DEF TimeInv, Idle
  <1>11. QED
    BY <1>9, <1>10 DEF x

LEMMA TickQuietTime == SessionInv /\ TimeInv /\ TickQuiet => TimeInv'
  <1> SUFFICES ASSUME SessionInv, TimeInv, TickQuiet PROVE TimeInv'
    OBVIOUS
  <1>1. Stamps(s, s')
    BY UpdatedStamps DEF SessionInv, TickQuiet
  <1>2. clock' = clock /\ passed' = passed /\ now' = now /\ running' = FALSE /\ early' = early
        /\ silence' = silence /\ quiet' = quiet /\ crowded' = crowded
    BY DEF TickQuiet, wire
  <1>3. Lag' = Lag
    BY <1>2 DEF Lag
  <1>4. s.present => /\ Heard(s.last_seen_ms, now, Lag, FALSE, silence)
                     /\ ~ crowded => Idle(s.last_sent_ms, now, Lag, FALSE, quiet)
    BY PassEnds DEF TickQuiet
  <1>5. s'.present = s.present /\ s'.last_seen_ms = s.last_seen_ms /\ s'.last_sent_ms = s.last_sent_ms
    BY <1>1 DEF Stamps
  <1>6. QED
    BY <1>2, <1>3, <1>4, <1>5 DEF TimeInv

(* The pass told the helper something: queued, it fills the silence; refused,
   it is tried again. *)
LEMMA SessionTickTime ==
  ASSUME SessionInv, TimeInv, NEW queued \in BOOLEAN, dh_session_tick(queued)
  PROVE  TimeInv'
  <1> DEFINE x == Updated
             type == Owes(x, now)
             m == Made(x, type)
  <1>1. x \in Sessions /\ Stamps(s, x) /\ now \in Ms /\ s \in Sessions
    BY UpdatedKeeps, UpdatedStamps DEF SessionInv, Keeps, TypeOK
  <1>2. /\ type \in {"policy", "alert", "drops", "beat"} /\ x.tx_counter < MaxTag
        /\ s' = IF queued THEN Released(m, now, type) ELSE m
        /\ Offered(queued, type = "drops")
    BY Zenon DEF dh_session_tick, Made, Released
  <1>3. s.present
    <2> HIDE DEF x
    <2>1. QED
      BY <1>1, <1>2, Zenon DEF Owes, Stamps
  <1>4. Heard(s.last_seen_ms, now, Lag, FALSE, silence)
    BY <1>2, <1>3, PassEnds
  <1> HIDE DEF x, type
  <1>5. s'.present = x.present /\ s'.last_seen_ms = x.last_seen_ms /\ (queued => s'.last_sent_ms = now)
    BY <1>1, <1>2, MadeStamps
  <1>6. s'.present = s.present /\ s'.last_seen_ms = s.last_seen_ms
    BY <1>1, <1>5 DEF Stamps
  <1>7. clock' = clock /\ passed' = passed /\ now' = now /\ running' = FALSE /\ early' = early
        /\ silence' = silence
    BY DEF dh_session_tick
  <1>8. (queued => quiet' = 0) /\ (~ queued => crowded')
    BY <1>2, Zenon DEF Offered
  <1>9. Lag \in {0, 1} /\ Lag' = Lag
    BY <1>7 DEF Lag
  <1>10. Idle(now, now, Lag, FALSE, 0)
    BY <1>1, <1>9, SentNow
  <1>11. QED
    BY <1>4, <1>5, <1>6, <1>7, <1>8, <1>9, <1>10 DEF TimeInv

(* A helper that is timed out was silent for its deadline. *)
LEMMA EvictTime ==
  ASSUME SessionInv, TimeInv, NEW queued \in BOOLEAN, dh_session_end(queued)
  PROVE  TimeInv'
  <1> DEFINE x == Updated
  <1>1. x \in Sessions /\ Stamps(s, x) /\ now \in Ms /\ s \in Sessions /\ silence \in Nat
    BY UpdatedKeeps, UpdatedStamps DEF SessionInv, Keeps, TypeOK
  <1>2. Owes(x, now) = "end"
    BY DEF dh_session_end
  <1>3. s' = IF queued THEN dh_session_note_sent(dh_session_drop(x), now) ELSE dh_session_drop(x)
    BY DEF dh_session_end
  <1> HIDE DEF x
  <1>4. ~ s'.present
    BY <1>1, <1>3, DropEnds
  <1>5. s.present /\ Absent(x, now)
    BY <1>1, <1>2 DEF Owes, Stamps
  <1>6. Heard(s.last_seen_ms, now, Lag, running, silence) /\ x.last_seen_ms = s.last_seen_ms
    BY <1>1, <1>5 DEF TimeInv, Stamps
  <1>7. Elapsed(now, s.last_seen_ms) = ABSENT_MS
    BY <1>1, <1>5, <1>6, AbsentTells DEF Heard
  <1>8. Lag \in {0, 1}
    BY DEF Lag
  <1>9. ABSENT_MS + Lag <= silence + 1
    BY <1>6, <1>7 DEF Heard
  <1>10. ~ (silence < ABSENT_MS - 1)
    BY <1>1, <1>8, <1>9, ClockFacts
  <1>11. ~ early'
    <2>1. early' = (early \/ silence < ABSENT_MS - 1)
      BY DEF dh_session_end
    <2>2. QED
      BY <1>10, <2>1, Zenon DEF TimeInv
  <1>12. clock' = clock /\ passed' = passed /\ now' = now
    BY DEF dh_session_end
  <1>13. QED
    BY <1>4, <1>11, <1>12, EndedKeepsTime
-----------------------------------------------------------------------------
LEMMA InitTime == Init => TimeInv
  <1> SUFFICES ASSUME Init PROVE TimeInv
    OBVIOUS
  <1>1. ~ s.present
    BY DEF Init, dh_session_init
  <1>2. clock = (now + Lag) % CLOCK
    BY ElapsedTick, Constants DEF Init, Lag
  <1>3. QED
    BY <1>1, <1>2 DEF Init, TimeInv

(* Every step of the session, the clock and the helper keeps the timing. *)
LEMMA NextTime == SessionInv /\ TimeInv /\ [Next]_vars => TimeInv'
  <1> SUFFICES ASSUME SessionInv, TimeInv, [Next]_vars PROVE TimeInv'
    OBVIOUS
  <1>1. s \in Sessions /\ now \in Ms
    BY DEF SessionInv, TypeOK
  <1>2. CASE UNCHANGED vars \/ Config \/ WriteHello
    BY <1>2, StillKeepsTime DEF vars, Config, WriteHello, wire, Stamps
  <1>3. CASE HelloRefused
    BY <1>1, <1>3, RefusedStamps, StillKeepsTime DEF HelloRefused, wire
  <1>4. CASE AuthenticateFails
    BY <1>1, <1>4, RefusedStamps, StillKeepsTime DEF AuthenticateFails, wire
  <1>5. CASE channel_lifecycle_link_lost
    BY <1>1, <1>5, DropClears, EndedKeepsTime DEF channel_lifecycle_link_lost, TimeInv
  <1>6. ASSUME NEW queued \in BOOLEAN, end_session(queued) PROVE TimeInv'
    BY <1>1, <1>6, DropEnds, EndedKeepsTime DEF end_session, TimeInv
  <1>7. QED
    BY <1>2, <1>3, <1>4, <1>5, <1>6, TickTime, StageTime, HelloTime, RefuseTime, AuthenticateTime,
       EmitTime, EvictTime, SessionTickTime, TickQuietTime, Zenon
    DEF Next

(* The timing holds along every behaviour, the wrap of the clock included. *)
THEOREM SessionTimeInvariant == Spec => []TimeInv
  BY InitTime, NextTime, SessionInvariant, PTL DEF Spec

(* A helper is timed out only after its deadline and at most one pass after
   it, for every deadline below half the clock's range and across its wrap
   (dh_session_tick's signed comparison of the stamp of the last frame). *)
THEOREM SessionEvictsOnTime == Spec => []EvictsOnTime
  <1>1. SessionInv /\ TimeInv => EvictsOnTime
    <2> SUFFICES ASSUME SessionInv, TimeInv, s.present PROVE silence <= ABSENT_MS + 1
      BY DEF TimeInv, EvictsOnTime
    <2>1. Elapsed(now, s.last_seen_ms) \in Nat /\ silence \in Nat
      BY ElapsedCases DEF SessionInv, TypeOK, Sessions
    <2>2. Lag \in {0, 1} /\ Elapsed(now, s.last_seen_ms) <= ABSENT_MS
          /\ silence <= Elapsed(now, s.last_seen_ms) + Lag
      BY DEF TimeInv, Heard, Lag
    <2>3. QED
      BY <2>1, <2>2, ClockFacts
  <1>2. QED
    BY <1>1, SessionInvariant, SessionTimeInvariant, PTL

(* While no frame was refused and no untagged refusal took its place, the
   board's side of a live session is never silent for more than a beat and the
   pass it takes (dh_session_tick's last branch and the stamps that charge
   its timer). *)
THEOREM SessionBeatFillsSilence == Spec => []BeatFillsSilence
  <1>1. SessionInv /\ TimeInv => BeatFillsSilence
    <2> SUFFICES ASSUME SessionInv, TimeInv, s.present, ~ crowded PROVE quiet <= HEARTBEAT_MS + 1
      BY DEF BeatFillsSilence
    <2>1. Elapsed(now, s.last_sent_ms) \in Nat /\ quiet \in Nat
      BY ElapsedCases DEF SessionInv, TypeOK, Sessions
    <2>2. Lag \in {0, 1} /\ Elapsed(now, s.last_sent_ms) <= HEARTBEAT_MS
          /\ quiet <= Elapsed(now, s.last_sent_ms) + Lag
      BY DEF TimeInv, Idle, Lag
    <2>3. QED
      BY <2>1, <2>2, ClockFacts
  <1>2. QED
    BY <1>1, SessionInvariant, SessionTimeInvariant, PTL
=============================================================================
