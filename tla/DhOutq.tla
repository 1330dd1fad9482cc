------------------------------- MODULE DhOutq -------------------------------
(***************************************************************************)
(* The device's outbound frame queue, core/dh_outq.c, as operators on a    *)
(* queue value.  Both seams that drain it, the helper's report stream      *)
(* (module HelperSeam) and the inter-board relay (module Relay), share it. *)
(*                                                                         *)
(* Lengths are counted in units of the transport that drains the queue     *)
(* (one 63-byte report, one 8-byte packet), since the transport never      *)
(* credits part of one.  The two staging rings are sequences: the code     *)
(* only ever appends at first+used and removes at first.                   *)
(***************************************************************************)
EXTENDS Naturals, Sequences

CONSTANTS
    PRIORITY_MAX,    \* DH_OUTQ_PRIORITY_MAX: longest priority frame, in units
    STAGE_MAX,       \* DH_OUTQ_STAGE_MAX: longest bulk frame that may wait
    PRIORITY_DEPTH,  \* DH_OUTQ_PRIORITY_DEPTH: priority frames behind the first
    DEPTH,           \* DH_OUTQ_DEPTH: bulk frames behind the first
    UINT32_MAX       \* where every counter saturates

ASSUME OutqAssumption ==
    /\ PRIORITY_MAX \in Nat \ {0} /\ STAGE_MAX \in Nat \ {0}
    /\ PRIORITY_DEPTH \in Nat \ {0} /\ DEPTH \in Nat \ {0}
    /\ UINT32_MAX \in Nat \ {0}
-----------------------------------------------------------------------------
BandIds == {"priority", "bulk"}
Causes == {"priority", "bulk", "bad_header"}

(***************************************************************************)
(* A frame is what its header says of it: its band (one comparison on the  *)
(* type byte), its length and whether the header parses.  id tells frames  *)
(* apart; tail is how many bytes its last unit carries.  The empty buffer  *)
(* has len 0, exactly as the code tests it.                                *)
(***************************************************************************)
Frames == [id : Nat, band : BandIds, len : Nat \ {0}, tail : Nat, parses : BOOLEAN]

NoFrame == [id |-> 0, band |-> "priority", len |-> 0, tail |-> 0, parses |-> FALSE]

\* dh_outq_band, with the frame its buffer holds.
Bands == [buf : Frames \cup {NoFrame}, sent : Nat, preamble_done : BOOLEAN]

Queues == [band : [BandIds -> Bands], stage : [BandIds -> Seq(Frames)],
           refused : Nat, cause : [Causes -> Nat]]

\* How many frames may wait behind the one in flight.
Depth(b) == IF b = "priority" THEN PRIORITY_DEPTH ELSE DEPTH

Load(frame) == [buf |-> frame, sent |-> 0, preamble_done |-> FALSE]

band_clear == Load(NoFrame)

dh_outq_init == [band |-> [b \in BandIds |-> band_clear],
                 stage |-> [b \in BandIds |-> <<>>],
                 refused |-> 0, cause |-> [c \in Causes |-> 0]]

\* Everything queued goes, the since-boot totals stay.
dh_outq_reset(q) == [q EXCEPT !.band = dh_outq_init.band, !.stage = dh_outq_init.stage]
-----------------------------------------------------------------------------
Holds(q, b) == q.band[b].buf.len > 0

band_in_flight(b) == b.buf.len > 0 /\ (b.sent > 0 \/ b.preamble_done)

\* Mutant: bulk that is merely queued goes first.
owed_band_bulk_first(q) ==
    IF Holds(q, "bulk") THEN "bulk"
    ELSE IF Holds(q, "priority") THEN "priority" ELSE "none"

\* Bulk already in flight finishes first; otherwise priority goes ahead of
\* bulk that is merely queued.
owed_band(q) ==
    IF ~ band_in_flight(q.band["bulk"]) /\ Holds(q, "priority") THEN "priority"
    ELSE IF Holds(q, "bulk") THEN "bulk" ELSE "none"

\* Mutant: the finished frame is cleared and nothing follows it.
promote_clears(q, b) == [q EXCEPT !.band[b] = band_clear]

\* promote and promote_priority: the next staged frame becomes the one in flight.
promote(q, b) ==
    IF q.stage[b] = <<>> THEN [q EXCEPT !.band[b] = band_clear]
    ELSE [q EXCEPT !.band[b] = Load(Head(q.stage[b])), !.stage[b] = Tail(@)]

Saturating(n) == IF n < UINT32_MAX THEN n + 1 ELSE n

\* Every refusal counts twice: in the total and against its cause.
refuse(q, c) == [q EXCEPT !.refused = Saturating(@), !.cause[c] = Saturating(@)]
-----------------------------------------------------------------------------
dh_outq_busy(q) == \E b \in BandIds : Holds(q, b)

\* Mutant: one frame more than the ring has slots.
dh_outq_priority_full_off_by_one(q) ==
    Holds(q, "priority") /\ Len(q.stage["priority"]) > PRIORITY_DEPTH

dh_outq_priority_full(q) ==
    Holds(q, "priority") /\ Len(q.stage["priority"]) >= PRIORITY_DEPTH

dh_outq_pair_busy(q) ==
    \/ Holds(q, "priority")
    \/ Len(q.stage["priority"]) > 0
    \/ band_in_flight(q.band["bulk"])

\* The in-flight bulk buffer takes any frame; a staged slot holds STAGE_MAX.
NoRoom(q, f) ==
    IF f.band = "priority"
      THEN f.len > PRIORITY_MAX \/ dh_outq_priority_full(q)
      ELSE Holds(q, "bulk") /\ (f.len > STAGE_MAX \/ Len(q.stage["bulk"]) >= DEPTH)

Admits(q, f) == f.parses /\ ~ NoRoom(q, f)

dh_outq_offer(q, f) ==
    IF ~ f.parses THEN refuse(q, "bad_header")
    ELSE IF NoRoom(q, f) THEN refuse(q, f.band)
    ELSE IF Holds(q, f.band) THEN [q EXCEPT !.stage[f.band] = Append(@, f)]
    ELSE [q EXCEPT !.band[f.band] = Load(f)]

(***************************************************************************)
(* dh_outq_offer_pair: two priority frames in order, or neither.           *)
(***************************************************************************)
PairHasNoRoom(q, f, g) ==
    \/ "bulk" \in {f.band, g.band}
    \/ f.len > PRIORITY_MAX \/ g.len > PRIORITY_MAX
    \/ dh_outq_pair_busy(q)

AdmitsPair(q, f, g) == f.parses /\ g.parses /\ ~ PairHasNoRoom(q, f, g)

dh_outq_offer_pair(q, f, g) ==
    IF ~ (f.parses /\ g.parses) THEN refuse(q, "bad_header")
    ELSE IF PairHasNoRoom(q, f, g) THEN refuse(q, "priority")
    ELSE [q EXCEPT !.band["priority"] = Load(f), !.stage["priority"] = <<g>>]
-----------------------------------------------------------------------------
(***************************************************************************)
(* What the transport owes next, while owed_band(q) # "none".  frame and   *)
(* at stand for the bytes the view points at: unit at+1 of frame.          *)
(***************************************************************************)
dh_outq_peek(q) ==
    LET b == owed_band(q)
    IN [frame |-> q.band[b].buf, at |-> q.band[b].sent, band |-> b,
        preamble_owed |-> ~ q.band[b].preamble_done]

\* Mutant: the credit goes to whatever is owed now.
dh_outq_advance_owed(q, view) ==
    LET b == owed_band(q)
    IN IF b = "none" THEN q
       ELSE IF q.band[b].sent + 1 < q.band[b].buf.len
              THEN [q EXCEPT !.band[b].sent = @ + 1]
              ELSE promote(q, b)

(***************************************************************************)
(* One unit of the peeked frame reached the transport.  The band credited  *)
(* is the one the view names, never the one owed now.                      *)
(***************************************************************************)
dh_outq_advance(q, view) ==
    LET b == view.band
    IN IF ~ Holds(q, b) THEN q
       ELSE IF q.band[b].sent + 1 < q.band[b].buf.len
              THEN [q EXCEPT !.band[b].sent = @ + 1]
              ELSE promote(q, b)

dh_outq_note_preamble(q, view) ==
    IF ~ Holds(q, view.band) THEN q
    ELSE [q EXCEPT !.band[view.band].preamble_done = TRUE]
=============================================================================
