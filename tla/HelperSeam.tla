----------------------------- MODULE HelperSeam -----------------------------
(***************************************************************************)
(* The seam between a board and its helper: the outbound queue             *)
(* (core/dh_outq.c), the pump that drains it one report at a time          *)
(* (channel_pump_out in channel.c) and the reader that recovers frames     *)
(* from the reports at the far end (dh_frame_reader_report in              *)
(* core/dh_frame.c), over a carrier that may lose reports.                 *)
(*                                                                         *)
(* channel_pump_out peeks under the lock, writes to USB without it and     *)
(* advances under it again, so the other core may queue frames in the two  *)
(* gaps; only core 0 resets the queue, and never inside its own pump.      *)
(***************************************************************************)
EXTENDS DhOutq

CONSTANTS
    FrameKinds,   \* what may be offered: records [band, len, tail, parses]
    REPORT,       \* bytes of stream in a full report (DH_REPORT_STREAM_SIZE)
    MaxFrames,    \* bound: frames ever offered
    MaxLost       \* bound: reports the carrier loses

ASSUME SeamAssumption ==
    /\ FrameKinds \subseteq [band : BandIds, len : Nat \ {0}, tail : 1 .. REPORT,
                             parses : BOOLEAN]
    /\ REPORT \in Nat \ {0} /\ MaxFrames \in Nat /\ MaxLost \in Nat

VARIABLES
    q,          \* the board's dh_outq for this channel
    pump,       \* where channel_pump_out is: "idle", "peeked" or "written"
    view,       \* the dh_outq_view it holds across the unlock
    reader,     \* the helper's dh_frame_reader
    next,       \* id of the next frame offered
    lost,       \* reports lost so far
    (* History, read by no action: *)
    judged,     \* the last frame the reader handed on, and how it came about
    startLost,  \* a frame-start report was lost since the last one received
    delivered,  \* the frames handed on intact, in order
    discarded,  \* ids a reset dropped while they were queued
    refused,    \* ids of the frames whose offer was refused
    seconds,    \* ids admitted as the second of a pair
    onWire,     \* the frame whose start was last written
    overtaken   \* bulk frames started while the priority frame waits

vars == <<q, pump, view, reader, next, lost, judged, startLost, delivered,
          discarded, refused, seconds, onWire, overtaken>>

history == <<judged, startLost, delivered, discarded, refused, seconds, onWire, overtaken>>
-----------------------------------------------------------------------------
NoView == [frame |-> NoFrame, at |-> 0, band |-> "priority", preamble_owed |-> FALSE]

NoJudgement == [id |-> 0, intact |-> TRUE, startLost |-> FALSE]

dh_frame_reader_init == [frame |-> NoFrame, have |-> 0, broken |-> FALSE, resyncs |-> 0]

Init ==
    /\ q = dh_outq_init
    /\ pump = "idle" /\ view = NoView
    /\ reader = dh_frame_reader_init
    /\ next = 1 /\ lost = 0
    /\ judged = NoJudgement /\ startLost = FALSE
    /\ delivered = <<>> /\ discarded = {} /\ refused = {} /\ seconds = {}
    /\ onWire = NoFrame /\ overtaken = 0

FrameOf(k, n) == [id |-> n, band |-> k.band, len |-> k.len, tail |-> k.tail,
                  parses |-> k.parses]

Queued == {q.band[b].buf.id : b \in {c \in BandIds : Holds(q, c)}}
          \cup UNION {{q.stage[b][i].id : i \in DOMAIN q.stage[b]} : b \in BandIds}
-----------------------------------------------------------------------------
\* channel_lifecycle_queue on the unstriped channel, from either core.
Offer(k) ==
    LET f == FrameOf(k, next) IN
    /\ next <= MaxFrames
    /\ q' = dh_outq_offer(q, f)
    /\ next' = next + 1
    /\ refused' = IF Admits(q, f) THEN refused ELSE refused \cup {f.id}
    /\ overtaken' = IF Holds(q, "priority") THEN overtaken ELSE 0
    /\ UNCHANGED <<pump, view, reader, lost, judged, startLost, delivered,
                   discarded, seconds, onWire>>

\* pump_place's PLACE and POS_QUERY, admitted together or not at all.
OfferPair(k, l) ==
    LET f == FrameOf(k, next)
        g == FrameOf(l, next + 1)
    IN
    /\ next + 1 <= MaxFrames
    /\ q' = dh_outq_offer_pair(q, f, g)
    /\ next' = next + 2
    /\ refused' = IF AdmitsPair(q, f, g) THEN refused ELSE refused \cup {f.id, g.id}
    /\ seconds' = IF AdmitsPair(q, f, g) THEN seconds \cup {g.id} ELSE seconds
    /\ overtaken' = IF Holds(q, "priority") THEN overtaken ELSE 0
    /\ UNCHANGED <<pump, view, reader, lost, judged, startLost, delivered,
                   discarded, onWire>>

-----------------------------------------------------------------------------
(* channel_pump_out, in the three pieces the lock cuts it into. *)

PumpPeek ==
    /\ pump = "idle"
    /\ owed_band(q) # "none"
    /\ view' = dh_outq_peek(q)
    /\ pump' = "peeked"
    /\ UNCHANGED <<q, reader, next, lost, history>>

\* tud_hid_n_report refused: the bytes stay owed.
PumpRefused ==
    /\ pump = "peeked"
    /\ pump' = "idle" /\ view' = NoView
    /\ UNCHANGED <<q, reader, next, lost, history>>

Starts(r) == r.at = 0

\* The stream bytes of a report that are not padding.
Bytes(r) == IF r.at + 1 = r.frame.len THEN r.frame.tail ELSE REPORT

(***************************************************************************)
(* dh_frame_reader_report.  The reader counts reports against the length   *)
(* in the header it holds; broken records whether every one of them was    *)
(* the next report of that frame, which the reader cannot see.             *)
(***************************************************************************)
Resynced(rd) == [rd EXCEPT !.resyncs = Saturating(@)]

Discard(rd) == [rd EXCEPT !.frame = NoFrame, !.have = 0, !.broken = FALSE]

\* Mutant: a start in mid-frame is appended like any other report.
Base_appends(rd, r) ==
    IF Starts(r) /\ rd.have = 0 THEN [rd EXCEPT !.frame = r.frame] ELSE rd

\* Where the report is appended: to a frame it starts, or to the one in progress.
Base(rd, r) ==
    IF Starts(r)
      THEN [IF rd.have > 0 THEN Resynced(rd) ELSE rd
              EXCEPT !.frame = r.frame, !.have = 0, !.broken = FALSE]
      ELSE rd

Filled(rd, r) ==
    LET base == Base(rd, r)
    IN [frame |-> base.frame, have |-> base.have + 1,
        broken |-> base.broken \/ r.frame.id # base.frame.id \/ r.at # base.have,
        resyncs |-> base.resyncs]

Orphan(rd, r) == ~ Starts(r) /\ rd.have = 0

Completes(rd, r) == ~ Orphan(rd, r) /\ Filled(rd, r).have = Filled(rd, r).frame.len

\* A completed frame followed by anything but padding was borrowed from another.
Borrowed(rd, r) == Bytes(r) > Filled(rd, r).frame.tail

Judges(rd, r) == Completes(rd, r) /\ ~ Borrowed(rd, r)

dh_frame_reader_report(rd, r) ==
    IF Orphan(rd, r) THEN Resynced(rd)
    ELSE IF ~ Completes(rd, r) THEN Filled(rd, r)
    ELSE IF Borrowed(rd, r) THEN Discard(Resynced(Filled(rd, r)))
    ELSE Discard(Filled(rd, r))

\* The report reached USB.  The carrier hands it to the helper, or loses it.
WriteHistory ==
    /\ onWire' = IF Starts(view) THEN view.frame ELSE onWire
    /\ overtaken' = IF Starts(view) /\ view.band = "bulk" /\ Holds(q, "priority")
                      THEN overtaken + 1 ELSE overtaken

PumpWrite ==
    /\ pump = "peeked"
    /\ pump' = "written"
    /\ reader' = dh_frame_reader_report(reader, view)
    /\ LET f == Filled(reader, view) IN
       IF Judges(reader, view)
         THEN /\ judged' = [id |-> f.frame.id, intact |-> ~ f.broken,
                            startLost |-> startLost /\ ~ Starts(view)]
              /\ delivered' = IF f.broken THEN delivered ELSE Append(delivered, f.frame)
         ELSE UNCHANGED <<judged, delivered>>
    /\ startLost' = (startLost /\ ~ Starts(view))
    /\ WriteHistory
    /\ UNCHANGED <<q, view, next, lost, discarded, refused, seconds>>

PumpWriteLost ==
    /\ pump = "peeked"
    /\ lost < MaxLost
    /\ pump' = "written"
    /\ lost' = lost + 1
    /\ startLost' = (startLost \/ Starts(view))
    /\ WriteHistory
    /\ UNCHANGED <<q, view, reader, next, judged, delivered, discarded, refused, seconds>>

PumpAdvance ==
    /\ pump = "written"
    /\ q' = dh_outq_advance(q, view)
    /\ overtaken' = IF Holds(q', "priority") /\ q'.band["priority"].buf = q.band["priority"].buf
                      THEN overtaken ELSE 0
    /\ pump' = "idle" /\ view' = NoView
    /\ UNCHANGED <<reader, next, lost, judged, startLost, delivered, discarded,
                   refused, seconds, onWire>>
-----------------------------------------------------------------------------
(***************************************************************************)
(* reset_output, on a hello's ack and when the link is lost.  A helper     *)
(* that reopened the channel starts with an empty reader; one that only    *)
(* said hello again keeps the frame it was half through.                   *)
(***************************************************************************)
reset_output(reopened) ==
    /\ pump = "idle"
    /\ dh_outq_busy(q) \/ reader.have > 0
    /\ q' = dh_outq_reset(q)
    /\ discarded' = discarded \cup Queued
    /\ reader' = IF reopened THEN dh_frame_reader_init ELSE reader
    /\ startLost' = IF reopened THEN FALSE ELSE startLost
    /\ overtaken' = 0
    /\ UNCHANGED <<pump, view, next, lost, judged, delivered, refused, seconds, onWire>>

Pump == PumpPeek \/ PumpRefused \/ PumpWrite \/ PumpWriteLost \/ PumpAdvance

Next ==
    \/ \E k \in FrameKinds : Offer(k)
    \/ \E k, l \in FrameKinds : OfferPair(k, l)
    \/ Pump
    \/ \E reopened \in BOOLEAN : reset_output(reopened)

Spec == Init /\ [][Next]_vars

(***************************************************************************)
(* channel_task runs every pass of core 0's loop, so each piece of the     *)
(* pump is taken if it stays possible; the host keeps polling the endpoint *)
(* so TinyUSB does not refuse every report for ever.                       *)
(***************************************************************************)
Fairness == WF_vars(PumpPeek) /\ SF_vars(PumpWrite) /\ WF_vars(PumpAdvance)

FairSpec == Spec /\ Fairness
-----------------------------------------------------------------------------
\* The types of the seam's state, and the staging rings within their slots.
TypeOK ==
    /\ q \in Queues /\ \A b \in BandIds : Len(q.stage[b]) <= Depth(b)
    /\ pump \in {"idle", "peeked", "written"}
    /\ view \in [frame : Frames \cup {NoFrame}, at : Nat, band : BandIds,
                 preamble_owed : BOOLEAN]
    /\ reader \in [frame : Frames \cup {NoFrame}, have : Nat, broken : BOOLEAN, resyncs : Nat]
    /\ next \in Nat /\ lost \in Nat /\ overtaken \in Nat
    /\ judged \in [id : Nat, intact : BOOLEAN, startLost : BOOLEAN]
    /\ startLost \in BOOLEAN

(***************************************************************************)
(* A frame the reader hands to the tag layer is whole, byte for byte the   *)
(* frame that was queued, unless the report that starts a later frame was  *)
(* itself lost.  Frames never interleave on the wire, whichever core       *)
(* queues what between the pump's peek and its advance, and a reset in     *)
(* the middle of a frame cannot splice two (core/dh_outq.h, core/dh_frame.c). *)
(***************************************************************************)
IntactUnlessStartLost == judged.intact \/ judged.startLost

(***************************************************************************)
(* Within a band frames reach the helper in the order they were queued,    *)
(* each at most once (dh_outq_advance, promote); and nothing vanishes      *)
(* silently: while the carrier loses nothing, every frame ever offered was *)
(* refused and counted, was dropped by a reset, is still queued or has     *)
(* been handed on whole (dh_outq_offer: "a frame the queue cannot carry is *)
(* never silently lost").                                                  *)
(***************************************************************************)
ExactlyOnce ==
    /\ \A i, j \in DOMAIN delivered :
          i < j /\ delivered[i].band = delivered[j].band => delivered[i].id < delivered[j].id
    /\ lost = 0 => 1 .. (next - 1) \subseteq
                     {delivered[i].id : i \in DOMAIN delivered}
                       \cup Queued \cup discarded \cup refused

(***************************************************************************)
(* A correlated pair is never torn: when the second frame (POS_QUERY)      *)
(* starts, the frame that started before it is its first (PLACE), so the   *)
(* helper reads the cursor only after placing it (dh_outq_offer_pair).     *)
(***************************************************************************)
PairAdjacent ==
    [][onWire'.id \in seconds => onWire'.id = onWire.id \/ onWire.id = onWire'.id - 1]_vars

(***************************************************************************)
(* A session reply waits out at most one clipboard frame: once a priority  *)
(* frame is the next of its band, at most the one bulk frame the pump had  *)
(* already peeked may still start ahead of it (owed_band).                 *)
(***************************************************************************)
PriorityOvertakes == overtaken <= 1

(***************************************************************************)
(* Every frame that is queued is eventually sent or dropped by a reset, as *)
(* long as the host keeps taking reports (channel_pump_out): once frames   *)
(* stop being offered, the queue empties.                                  *)
(***************************************************************************)
Drains == (Queued # {}) ~> (Queued = {})
=============================================================================
