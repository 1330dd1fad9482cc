------------------------------ MODULE Crossing ------------------------------
(***************************************************************************)
(* A cursor crossing and what it asks of a helper: mouse_logic.c's         *)
(* transaction on core 1 of the board the mouse is plugged into, and the   *)
(* channel lifecycle of the board whose computer runs the helper, where    *)
(* core 1 leaves placements, cursor queries and arrivals owed and core 0   *)
(* pumps them, in critical sections with the lock released in between.     *)
(*                                                                         *)
(* Output "H" is that computer, output "O" the other one, which runs no    *)
(* helper.  The mouse is on H's own board, or on the other one (`remote'), *)
(* and then everything crosses the lossy inter-board link.  Coordinates    *)
(* are abstracted to what is decided from them, a placement to its number. *)
(***************************************************************************)
EXTENDS Integers, Sequences

CONSTANTS ID_MOD,         \* query ids are counted modulo this, skipping 0
          PRIORITY_SLOTS, \* frames the priority lane to the helper holds
          MaxMoves,       \* bound: pushes against an edge, and hotkeys
          MaxFaults       \* bound: losses, refusals, stale waits, sessions ended

ASSUME CrossingAssumption ==
  /\ ID_MOD \in Nat \ {0, 1} /\ PRIORITY_SLOTS \in Nat \ {0, 1}
  /\ MaxMoves \in Nat /\ MaxFaults \in Nat

VARIABLES
  remote,    \* the mouse is on the board of output O
  active,    \* active_output on the mouse's board
  h_active,  \* active_output on the helper's board; `active' unless remote
  crossing,  \* cursor_crossing_t: phase, kind, query id, query_sent
  next_id,   \* next_cursor_query_id, at first about to come round
  out, back, \* packets to the helper's board, and from it
  ch,        \* the helper's board's channel_lifecycle
  core0,     \* what core 0 has looked at and not yet acted on
  lane,      \* frames queued to the helper
  cursor,    \* the placement the helper's cursor follows; 0 at first
  answers,   \* POS_RESPONSEs on their way to the board
  moves, faults,
  aims       \* history: the placement each correlated query id belongs to

chan == <<ch, core0, lane, cursor, answers>>
link == <<out, back>>
mouse == <<active, crossing, next_id>>
vars == <<remote, h_active, mouse, link, chan, moves, faults, aims>>

Outputs == {"H", "O"}
Ids == 0 .. ID_MOD - 1
Bodies == 0 .. MaxMoves
Kinds == {"SOURCE_REANCHOR", "CHAIN_REANCHOR", "MACOS_PLACEMENT"}
Idle == [phase |-> "IDLE", kind |-> "SOURCE_REANCHOR", id |-> 0, sent |-> FALSE]
Resting == [at |-> "idle", owed |-> 0, body |-> 0, id |-> 0, origin |-> "NONE"]
Packet(t, o, body, id) == [type |-> t, output |-> o, body |-> body, id |-> id]
Frame(t, body, id) == [type |-> t, body |-> body, id |-> id]

TypeOK ==
  /\ remote \in BOOLEAN /\ active \in Outputs /\ h_active \in Outputs
  /\ crossing \in [phase : {"IDLE", "WAITING", "REANCHORED", "FALLBACK", "CANCELLED"},
                   kind : Kinds, id : Ids, sent : BOOLEAN]
  /\ crossing.phase # "IDLE" => crossing.id # 0
  /\ next_id \in Ids
  /\ out \in Seq([type : {"SELECT", "QUERY", "PLACE"}, output : Outputs,
                  body : Bodies, id : Ids])
  /\ back \in Seq([type : {"POSITION", "UNAVAILABLE"}, output : {"H"},
                   body : Bodies, id : Ids])
  /\ ch \in [present : BOOLEAN, origin : {"NONE", "LOCAL", "PEER"}, query : Ids,
             owed : Bodies, sent : Bodies, body : Bodies, place_query : Ids,
             arrival : BOOLEAN, dropped : BOOLEAN, untold : BOOLEAN, raced : BOOLEAN]
  /\ core0 \in [at : {"idle", "place", "query", "owed", "clear"}, owed : Bodies,
                body : Bodies, id : Ids, origin : {"NONE", "LOCAL", "PEER"}]
  /\ lane \in Seq([type : {"PLACE", "POS_QUERY", "ARRIVAL"}, body : Bodies, id : Ids])
  /\ Len(lane) <= PRIORITY_SLOTS
  /\ cursor \in Bodies
  /\ answers \in Seq([id : Ids, body : Bodies])
  /\ moves \in 0 .. MaxMoves /\ faults \in 0 .. MaxFaults
  /\ aims \in [Ids -> Bodies]

Init ==
  /\ remote \in BOOLEAN /\ active \in Outputs /\ h_active = active
  /\ crossing = Idle /\ next_id = ID_MOD - 2
  /\ out = <<>> /\ back = <<>>
  /\ ch = [present |-> TRUE, origin |-> "NONE", query |-> 0, owed |-> 0, sent |-> 0,
           body |-> 0, place_query |-> 0, arrival |-> FALSE,
           dropped |-> FALSE, untold |-> FALSE, raced |-> FALSE]
  /\ core0 = Resting /\ lane = <<>> /\ cursor = 0 /\ answers = <<>>
  /\ moves = 0 /\ faults = 0 /\ aims = [i \in Ids |-> 0]

Fault == faults < MaxFaults /\ faults' = faults + 1

-----------------------------------------------------------------------------
(***************************************************************************)
(* What core 1 leaves with the channel, one critical section each.  The    *)
(* last three fields of ch are history: `dropped', the placement owed last *)
(* was given up; `untold', an arrival no ARRIVAL was queued for; `raced',  *)
(* one noted between pump_owed's frame and its clearing of the flag.       *)
(***************************************************************************)

channel_lifecycle_owe_place(c, body, id) ==
  IF c.present
    THEN [c EXCEPT !.body = body, !.place_query = id, !.owed = @ + 1, !.dropped = FALSE]
    ELSE c

channel_lifecycle_arrive(c, o) ==
  LET here == o = "H" /\ c.present IN
  [c EXCEPT !.arrival = here, !.untold = here,
            !.raced = here /\ core0.at = "clear"]

take_query(c, origin, id) == [c EXCEPT !.origin = origin, !.query = id]

\* Mutant: 0, which stands for no query, is not skipped.
next_cursor_query_id_zero == (next_id + 1) % ID_MOD

next_cursor_query_id == IF next_id + 1 = ID_MOD THEN 1 ELSE next_id + 1

\* channel_query_cursor, with its three results.
channel_query_cursor(id, result) ==
  \/ /\ remote /\ result = "SENT"
     /\ out' = Append(out, Packet("QUERY", "H", 0, id))
     /\ UNCHANGED <<ch, faults>>
  \/ /\ remote /\ result = "RETRY" /\ Fault
     /\ UNCHANGED <<out, ch>>
  \/ /\ ~remote
     /\ result = (CASE ~ch.present -> "UNAVAILABLE"
                    [] ch.present /\ ch.origin = "NONE" -> "SENT"
                    [] ch.present /\ ch.origin # "NONE" -> "RETRY")
     /\ ch' = IF result = "SENT" THEN take_query(ch, "LOCAL", id) ELSE ch
     /\ UNCHANGED <<out, faults>>

\* set_active_output and, for a mapped crossing, channel_place_cursor.
set_active_output(o, places) ==
  LET placed(c) == IF places THEN channel_lifecycle_owe_place(c, moves', 0) ELSE c IN
  /\ active' = o
  /\ IF remote
       THEN /\ out' = out \o <<Packet("SELECT", o, 0, 0)>>
                          \o (IF places THEN <<Packet("PLACE", "H", moves', 0)>> ELSE <<>>)
            /\ UNCHANGED <<h_active, ch>>
       ELSE /\ h_active' = o
            /\ ch' = placed(channel_lifecycle_arrive(ch, o))
            /\ UNCHANGED out

-----------------------------------------------------------------------------
(***************************************************************************)
(* Core 1 of the mouse's board.                                            *)
(***************************************************************************)

\* A push over the edge between the computers, or the output hotkey.  Nothing
\* is asked of O's computer; H's is placed if the crossing is mapped and a
\* helper is believed there, a belief that heartbeats keep with some delay.
SwitchesOutput ==
  /\ moves < MaxMoves /\ moves' = moves + 1
  /\ \E places \in BOOLEAN :
       /\ places => active = "O" /\ crossing.phase = "IDLE"
       /\ set_active_output(IF active = "H" THEN "O" ELSE "H", places)
  /\ UNCHANGED <<remote, crossing, next_id, back, core0, lane, cursor, answers,
                 faults, aims>>

\* cross_screen from a relative screen: query_source_cursor first.
query_source_cursor(kind) ==
  LET id == next_cursor_query_id IN
  /\ kind \in {"SOURCE_REANCHOR", "CHAIN_REANCHOR"}
  /\ moves < MaxMoves /\ moves' = moves + 1
  /\ active = "H" /\ crossing.phase = "IDLE"
  /\ next_id' = id
  /\ \/ \E result \in {"SENT", "RETRY"} :
          /\ channel_query_cursor(id, result)
          /\ crossing' = [phase |-> "WAITING", kind |-> kind, id |-> id,
                          sent |-> result = "SENT"]
          /\ UNCHANGED <<active, h_active>>
     \/ /\ ~remote /\ ~ch.present
        /\ \/ kind = "SOURCE_REANCHOR" /\ set_active_output("O", FALSE)
           \/ UNCHANGED <<active, h_active, ch, out>>
        /\ UNCHANGED <<crossing, faults>>
  /\ UNCHANGED <<remote, back, core0, lane, cursor, answers, aims>>

\* cross_screen along a macOS chain: a placement that is read back, or, when
\* it cannot be had, a walk.
PlacesCorrelated ==
  LET id == next_cursor_query_id
      waits == [phase |-> "WAITING", kind |-> "MACOS_PLACEMENT", id |-> id,
                sent |-> FALSE]
  IN  /\ moves < MaxMoves /\ moves' = moves + 1
      /\ active = "H" /\ crossing.phase = "IDLE"
      /\ next_id' = id
      /\ aims' = [aims EXCEPT ![id] = moves']
      /\ \/ /\ remote
            /\ out' = Append(out, Packet("PLACE", "H", moves', id))
            /\ crossing' = waits
            /\ UNCHANGED <<ch, faults>>
         \/ /\ remote /\ Fault
            /\ UNCHANGED <<out, ch, crossing>>
         \/ /\ ~remote
            /\ ch' = channel_lifecycle_owe_place(ch, moves', id)
            /\ crossing' = IF ch.present THEN waits ELSE crossing
            /\ UNCHANGED <<out, faults>>
      /\ UNCHANGED <<remote, active, h_active, back, core0, lane, cursor, answers>>

\* mouse_crossing_task, from the top: a crossing is dropped when the output has
\* changed, when the answer says the cursor is elsewhere, and under the switch
\* lock, gaming mode or a held button (`locked'), which may come any time.
CrossingDropped(locked) ==
  /\ crossing.phase # "IDLE"
  /\ locked \/ active # "H" \/ crossing.phase = "CANCELLED"
  /\ crossing' = Idle
  /\ UNCHANGED <<remote, active, h_active, next_id, link, chan, moves, faults, aims>>

\* The query that found no room is asked again; its clock starts over when it
\* is sent.  A helper that has gone in the meantime is walked without.
CrossingRetries ==
  /\ active = "H"
  /\ crossing.phase = "WAITING" /\ crossing.kind # "MACOS_PLACEMENT" /\ ~crossing.sent
  /\ \/ /\ channel_query_cursor(crossing.id, "SENT")
        /\ crossing' = [crossing EXCEPT !.sent = TRUE]
     \/ /\ channel_query_cursor(crossing.id, "UNAVAILABLE")
        /\ crossing' = [crossing EXCEPT !.phase = "FALLBACK"]
  /\ UNCHANGED <<remote, active, h_active, next_id, back, core0, lane, cursor,
                 answers, moves, aims>>

\* Mutant: only queries time out, a placement is waited for.
TimesOut_queries == crossing.phase = "WAITING" /\ crossing.kind # "MACOS_PLACEMENT"

\* Thirty milliseconds, which a busy helper or a lost packet outlasts.
TimesOut == crossing.phase = "WAITING"

\* The rest of it: what the answer, its refusal or the timeout decided.  The
\* crossing is retired before its effects; a chain crossing nobody confirmed
\* and a placement that was confirmed have none, the others walk the cursor,
\* off the output unless its seam has no opening here.
CrossingCompletes ==
  /\ active = "H"
  /\ TimesOut \/ crossing.phase \in {"REANCHORED", "FALLBACK"}
  /\ crossing' = Idle
  /\ \/ crossing.kind = "SOURCE_REANCHOR" /\ set_active_output("O", FALSE)
     \/ UNCHANGED <<active, h_active, out, ch>>
  /\ UNCHANGED <<remote, next_id, back, core0, lane, cursor, answers, moves,
                 faults, aims>>

\* apply_helper_cursor_position: only the answer to the pending query counts,
\* and what it says of the cursor decides.  A readback that does not confirm
\* the placement leaves it pending, and so does an answer for
\* a screen that is not configured or an output that is no longer active.
Applied(id) ==
  IF crossing.phase # "WAITING" \/ id = 0 \/ id # crossing.id \/ active # "H"
    THEN {crossing}
    ELSE {crossing} \cup
         {[crossing EXCEPT !.phase = p] :
            p \in {"REANCHORED"} \cup {c \in {"CANCELLED"} : crossing.kind # "MACOS_PLACEMENT"}}

\* handle_cursor_position_msg and handle_cursor_query_unavailable_msg.
MouseBoardReceives ==
  LET p == Head(back) IN
  /\ remote /\ back # <<>>
  /\ back' = Tail(back)
  /\ crossing' \in
       IF p.type = "POSITION" THEN Applied(p.id)
       ELSE {[crossing EXCEPT !.phase =
                IF @ = "WAITING" /\ crossing.id = p.id THEN "FALLBACK" ELSE @]}
  /\ UNCHANGED <<remote, active, h_active, next_id, out, chan, moves, faults, aims>>

-----------------------------------------------------------------------------
(***************************************************************************)
(* Core 1 of the helper's board, when the mouse is on the other one.       *)
(***************************************************************************)

Reply(id) == back' = Append(back, Packet("UNAVAILABLE", "H", 0, id))

handle_output_select_msg ==
  /\ remote /\ out # <<>> /\ Head(out).type = "SELECT"
  /\ out' = Tail(out)
  /\ h_active' = Head(out).output
  /\ ch' = channel_lifecycle_arrive(ch, Head(out).output)
  /\ UNCHANGED <<remote, mouse, back, core0, lane, cursor, answers, moves, faults, aims>>

handle_cursor_query_msg ==
  /\ remote /\ out # <<>> /\ Head(out).type = "QUERY"
  /\ out' = Tail(out)
  /\ IF ch.present /\ ch.origin = "NONE"
       THEN ch' = take_query(ch, "PEER", Head(out).id) /\ UNCHANGED back
       ELSE Reply(Head(out).id) /\ UNCHANGED ch
  /\ UNCHANGED <<remote, h_active, mouse, core0, lane, cursor, answers, moves,
                 faults, aims>>

handle_cursor_place_msg ==
  /\ remote /\ out # <<>> /\ Head(out).type = "PLACE"
  /\ out' = Tail(out)
  /\ ch' = channel_lifecycle_owe_place(ch, Head(out).body, Head(out).id)
  /\ IF ~ch.present /\ Head(out).id # 0 THEN Reply(Head(out).id) ELSE UNCHANGED back
  /\ UNCHANGED <<remote, h_active, mouse, core0, lane, cursor, answers, moves,
                 faults, aims>>

-----------------------------------------------------------------------------
(***************************************************************************)
(* Core 0 of the helper's board: every pump looks with the lock held, lets *)
(* go of it to build its frame, and takes it again.                        *)
(***************************************************************************)

pair_busy == lane # <<>>
priority_full == Len(lane) >= PRIORITY_SLOTS

\* pump_place up to the first unlock.
PlaceLooks ==
  /\ core0.at = "idle" /\ ch.owed # ch.sent /\ ~pair_busy
  /\ core0' = [Resting EXCEPT !.at = "place", !.owed = ch.owed, !.body = ch.body,
                              !.id = ch.place_query]
  /\ UNCHANGED <<remote, h_active, mouse, link, ch, lane, cursor, answers, moves,
                 faults, aims>>

\* A placement that waited out the crossing's timeout is given up.
PlaceStale ==
  /\ core0.at = "idle" /\ ch.owed # ch.sent /\ Fault
  /\ ch' = [ch EXCEPT !.sent = ch.owed, !.dropped = TRUE]
  /\ UNCHANGED <<remote, h_active, mouse, link, core0, lane, cursor, answers, moves, aims>>

\* Mutant: whatever is owed by now is marked sent.
SentMark_live == ch.owed

SentMark == core0.owed

\* Mutant: the query id is read when the frame is built.
PlaceQuery_live == ch.place_query

PlaceQuery == core0.id

PlaceActs ==
  /\ core0.at = "place"
  /\ core0' = Resting
  /\ lane' = IF ch.present
               THEN lane \o <<Frame("PLACE", core0.body, 0), Frame("POS_QUERY", 0, PlaceQuery)>>
               ELSE lane
  /\ ch' = [ch EXCEPT !.sent = SentMark,
                      !.dropped = @ \/ (~ch.present /\ ch.owed = core0.owed)]
  /\ UNCHANGED <<remote, h_active, mouse, link, cursor, answers, moves, faults, aims>>

\* pump_query up to its unlock, and after it.
QueryLooks ==
  /\ core0.at = "idle" /\ ch.origin # "NONE"
  /\ core0' = [Resting EXCEPT !.at = "query", !.origin = ch.origin, !.id = ch.query]
  /\ UNCHANGED <<remote, h_active, mouse, link, ch, lane, cursor, answers, moves,
                 faults, aims>>

Cleared == IF ch.origin = core0.origin /\ ch.query = core0.id
             THEN [ch EXCEPT !.origin = "NONE"] ELSE ch

\* Without a session the peer board is told, or, refused, told later; the query
\* of this board's own mouse is over, and its crossing times out.
QueryActs ==
  /\ core0.at = "query"
  /\ core0' = Resting
  /\ \/ /\ ch.present /\ ~priority_full
        /\ lane' = Append(lane, Frame("POS_QUERY", 0, core0.id))
        /\ ch' = Cleared
        /\ UNCHANGED <<back, faults>>
     \/ /\ ch.present /\ priority_full
        /\ UNCHANGED <<lane, ch, back, faults>>
     \/ /\ ~ch.present
        /\ IF core0.origin = "PEER" THEN Reply(core0.id) ELSE UNCHANGED back
        /\ ch' = Cleared
        /\ UNCHANGED <<lane, faults>>
     \/ /\ ~ch.present /\ core0.origin = "PEER" /\ Fault
        /\ UNCHANGED <<lane, ch, back>>
  /\ UNCHANGED <<remote, h_active, mouse, out, cursor, answers, moves, aims>>

\* Mutant: a full lane drops the news instead of waiting.
OwedLooks_drops ==
  /\ core0.at = "idle" /\ ch.arrival
  /\ core0' = IF priority_full THEN core0 ELSE [Resting EXCEPT !.at = "owed"]
  /\ ch' = [ch EXCEPT !.arrival = ~priority_full]
  /\ UNCHANGED <<remote, h_active, mouse, link, lane, cursor, answers, moves,
                 faults, aims>>

\* pump_owed up to its first unlock, its frame, and its last critical section.
OwedLooks ==
  /\ core0.at = "idle" /\ ch.arrival /\ ~priority_full
  /\ core0' = [Resting EXCEPT !.at = "owed"]
  /\ UNCHANGED <<remote, h_active, mouse, link, ch, lane, cursor, answers, moves,
                 faults, aims>>

OwedActs ==
  /\ core0.at = "owed"
  /\ core0' = [Resting EXCEPT !.at = "clear"]
  /\ lane' = IF ch.present THEN Append(lane, Frame("ARRIVAL", 0, 0)) ELSE lane
  /\ ch' = [ch EXCEPT !.untold = FALSE, !.raced = FALSE]
  /\ UNCHANGED <<remote, h_active, mouse, link, cursor, answers, moves, faults, aims>>

OwedClears ==
  /\ core0.at = "clear"
  /\ core0' = Resting
  /\ ch' = [ch EXCEPT !.arrival = FALSE]
  /\ UNCHANGED <<remote, h_active, mouse, link, lane, cursor, answers, moves,
                 faults, aims>>

\* channel_lifecycle_position, out of drain_reports: dropped once the user has
\* left, applied to this board's crossing, and passed on to the other board,
\* which may be the one that asked.
channel_lifecycle_position ==
  LET a == Head(answers) IN
  /\ core0.at = "idle" /\ answers # <<>>
  /\ answers' = Tail(answers)
  /\ IF remote
       THEN /\ back' = IF h_active = "H"
                         THEN Append(back, Packet("POSITION", "H", a.body, a.id)) ELSE back
            /\ UNCHANGED crossing
       ELSE /\ crossing' \in IF h_active = "H" THEN Applied(a.id) ELSE {crossing}
            /\ UNCHANGED back
  /\ UNCHANGED <<remote, active, h_active, next_id, out, ch, core0, lane, cursor,
                 moves, faults, aims>>

\* The session is over (dh_session_end), or the link with it
\* (channel_lifecycle_link_lost), or a helper says hello.  An arrival was news
\* for the helper of its time, and an answer's tag is for the keys of its time.
SessionChanges(present, resets) ==
  /\ core0.at = "idle"
  /\ ch' = [ch EXCEPT !.present = present,
              !.origin = IF resets /\ ~present THEN "NONE" ELSE @,
              !.query = IF resets /\ ~present THEN 0 ELSE @,
              !.sent = IF resets THEN ch.owed ELSE @,
              !.dropped = TRUE, !.untold = FALSE]
  /\ lane' = (IF resets THEN <<>> ELSE lane) /\ answers' = <<>>
  /\ UNCHANGED <<remote, h_active, mouse, link, core0, cursor, moves, aims>>

SessionEnds == ch.present /\ Fault /\ SessionChanges(FALSE, FALSE)
LinkLost == ch.present /\ Fault /\ SessionChanges(FALSE, TRUE)
HelloAck == /\ IF ch.present THEN Fault ELSE UNCHANGED faults
            /\ SessionChanges(TRUE, TRUE)

-----------------------------------------------------------------------------
\* The helper takes its frames in order, places the cursor and reads it when it
\* is asked; the operating system takes every placement (place's early returns
\* and the placement it puts off are left out).  The board refuses an answer to
\* a session that has ended.
HelperTakes ==
  LET f == Head(lane) IN
  /\ lane # <<>>
  /\ lane' = Tail(lane)
  /\ cursor' = IF f.type = "PLACE" THEN f.body ELSE cursor
  /\ answers' = IF f.type = "POS_QUERY" /\ ch.present
                  THEN Append(answers, [id |-> f.id, body |-> cursor]) ELSE answers
  /\ UNCHANGED <<remote, h_active, mouse, link, ch, core0, moves, faults, aims>>

\* The inter-board link loses a packet.
Lose ==
  /\ Fault
  /\ \/ out # <<>> /\ out' = Tail(out) /\ UNCHANGED back
     \/ back # <<>> /\ back' = Tail(back) /\ UNCHANGED out
  /\ UNCHANGED <<remote, h_active, mouse, chan, moves, aims>>

Rests == moves = MaxMoves /\ UNCHANGED vars

Next ==
  \/ SwitchesOutput
  \/ \E kind \in Kinds : query_source_cursor(kind)
  \/ PlacesCorrelated
  \/ \E locked \in BOOLEAN : CrossingDropped(locked)
  \/ CrossingRetries \/ CrossingCompletes
  \/ MouseBoardReceives
  \/ handle_output_select_msg \/ handle_cursor_query_msg \/ handle_cursor_place_msg
  \/ PlaceLooks \/ PlaceStale \/ PlaceActs
  \/ QueryLooks \/ QueryActs
  \/ OwedLooks \/ OwedActs \/ OwedClears
  \/ channel_lifecycle_position
  \/ SessionEnds \/ LinkLost \/ HelloAck
  \/ HelperTakes
  \/ Lose
  \/ Rests

Spec == Init /\ [][Next]_vars

\* Both cores' loops run every task, and a pass of core 0 tries every pump; a
\* helper that is there reads what it is sent.
Fairness ==
  /\ WF_vars(CrossingDropped(FALSE)) /\ WF_vars(CrossingCompletes)
  /\ WF_vars(PlaceActs) /\ WF_vars(OwedActs) /\ WF_vars(OwedClears)
  /\ SF_vars(QueryLooks) /\ WF_vars(QueryActs)
  /\ WF_vars(HelperTakes)

FairSpec == Spec /\ Fairness

-----------------------------------------------------------------------------
(***************************************************************************)
(* Properties.                                                             *)
(***************************************************************************)

\* channel_lifecycle.c:311-359.  The placement owed last is where the helper's
\* cursor ends up, although core 1 may owe another one while core 0 builds the
\* frame of the one before; unless it went stale or its session ended.
PlacedLast ==
  /\ ch.present /\ core0.at = "idle" /\ ch.owed = ch.sent /\ ~ch.dropped
  /\ \A i \in 1 .. Len(lane) : lane[i].type # "PLACE"
  => cursor = ch.body

\* channel_lifecycle.c:311-313, "the helper reads the cursor only after placing
\* it".  The answer that carries a placement's query id was read with the
\* cursor where that very placement put it, not a newer or an older one.
ReadsItsOwn ==
  \A i \in 1 .. Len(answers) :
    aims[answers[i].id] # 0 => answers[i].body = aims[answers[i].id]

\* channel_lifecycle.c:361-393.  A helper that was there when the user arrived
\* is told, whatever the lane refuses and whenever the arrival is noted, but
\* for one gap: an arrival between the ARRIVAL queued for the one before and
\* the clearing of the flag both share.
ArrivalTold ==
  ch.untold /\ ch.present => ch.arrival \/ ch.raced

\* mouse_logic.c:930-1022, channel_lifecycle.c:478-503.  A pending crossing
\* holds the mouse still, and a pending query keeps every later one out: both
\* are let go, whatever is lost and whoever leaves.
LetsGo ==
  /\ (crossing.phase # "IDLE") ~> (crossing.phase = "IDLE")
  /\ (ch.origin # "NONE") ~> (ch.origin = "NONE")
=============================================================================
