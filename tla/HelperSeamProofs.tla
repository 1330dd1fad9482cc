-------------------------- MODULE HelperSeamProofs --------------------------
(***************************************************************************)
(* Proofs about the helper seam: for every depth, frame size and loss      *)
(* bound, frames never interleave on the wire, the reader never hands on a *)
(* spliced frame unless a frame-start report was lost, frames arrive in    *)
(* order and none vanishes, priority waits out one frame and a pair stays  *)
(* together.                                                               *)
(***************************************************************************)
EXTENDS HelperSeam, TLAPS

(***************************************************************************)
(* What every queue the seam can hold satisfies: a held frame has units    *)
(* left to send, an empty band has nothing staged.  The byte-stream        *)
(* transport never notes a preamble.                                       *)
(***************************************************************************)
QueueOK(qq) ==
    /\ qq \in Queues
    /\ \A b \in BandIds :
         /\ ~ qq.band[b].preamble_done /\ Len(qq.stage[b]) <= Depth(b)
         /\ Holds(qq, b) => qq.band[b].sent < qq.band[b].buf.len
         /\ ~ Holds(qq, b) => qq.stage[b] = <<>> /\ qq.band[b].sent = 0

\* The bands a call may have filled but not otherwise touched.
OnlyFills(qq, rr) ==
    \A b \in BandIds :
        /\ Holds(qq, b) => rr.band[b] = qq.band[b]
        /\ ~ Holds(qq, b) => rr.band[b].sent = 0

\* The view the pump holds over the unlock still describes its band.
ViewFresh ==
    pump # "idle" =>
        /\ Holds(q, view.band)
        /\ view.frame = q.band[view.band].buf
        /\ view.at = q.band[view.band].sent
        /\ \A b \in BandIds : b # view.band => q.band[b].sent = 0

\* Units of band b's frame the transport has taken.
Written(b) == IF pump = "written" /\ b = view.band THEN q.band[b].sent + 1 ELSE q.band[b].sent

\* While every start arrived, the frame the reader is assembling is the one
\* in flight, and it has fewer reports than were written once one went missing.
ReaderTracks ==
    ~ startLost /\ reader.have > 0 =>
        \A b \in BandIds : Written(b) > 0 =>
            /\ reader.frame = q.band[b].buf
            /\ reader.have <= Written(b)
            /\ reader.broken => reader.have < Written(b)

\* owed_band: at most one frame is mid-drain, across both bands and with the
\* pump's peeked view held over the unlock.
OneInFlight ==
    ~ (band_in_flight(q.band["priority"]) /\ band_in_flight(q.band["bulk"]))

\* promote: an empty in-flight buffer means an empty band, which is what lets
\* dh_outq_offer test that one field alone.
EmptyBandIsEmpty == \A b \in BandIds : ~ Holds(q, b) => q.stage[b] = <<>>

SeamInv ==
    /\ TypeOK /\ QueueOK(q) /\ OneInFlight /\ ViewFresh /\ ReaderTracks
    /\ IntactUnlessStartLost
-----------------------------------------------------------------------------
(* A well-formed empty band is not in Frames, so its len alone decides. *)
LEMMA NoFrameEmpty == NoFrame.len = 0 /\ band_clear \in Bands /\ ~ (NoFrame \in Frames)
  BY DEF NoFrame, Frames, band_clear, Load, Bands, BandIds

(* Every ring has at least one slot. *)
LEMMA DepthPositive == \A b \in BandIds : Depth(b) \in Nat /\ Depth(b) >= 1
  BY OutqAssumption DEF Depth

(* The fields of a band. *)
LEMMA BandTypes ==
  ASSUME NEW b \in Bands
  PROVE  /\ b.sent \in Nat /\ b.preamble_done \in BOOLEAN
         /\ b.buf \in Frames \cup {NoFrame} /\ b.buf.len \in Nat
  <1>1. b.sent \in Nat /\ b.preamble_done \in BOOLEAN /\ b.buf \in Frames \cup {NoFrame}
    BY DEF Bands
  <1>2. \A f \in Frames : f.len \in Nat
    BY DEF Frames
  <1>3. QED
    BY <1>1, <1>2, NoFrameEmpty

(* Starting and resetting give a well-formed queue. *)
LEMMA InitQueueOK == QueueOK(dh_outq_init)
  BY DepthPositive DEF QueueOK, dh_outq_init, Queues, Bands, Holds, band_clear, Load, NoFrame, BandIds, Causes

(* A reset empties both bands and keeps the counters. *)
LEMMA ResetQueueOK ==
  ASSUME NEW qq, QueueOK(qq)
  PROVE  /\ QueueOK(dh_outq_reset(qq))
         /\ \A b \in BandIds : dh_outq_reset(qq).band[b] = band_clear
  <1>1. qq.refused \in Nat /\ qq.cause \in [Causes -> Nat]
    BY DEF QueueOK, Queues
  <1>2. /\ dh_outq_reset(qq).band = [b \in BandIds |-> band_clear]
        /\ dh_outq_reset(qq).stage = [b \in BandIds |-> <<>>]
    BY DEF dh_outq_reset, dh_outq_init, QueueOK, Queues
  <1>3. dh_outq_reset(qq) \in Queues
    <2>1. /\ dh_outq_init.band \in [BandIds -> Bands]
          /\ dh_outq_init.stage \in [BandIds -> Seq(Frames)]
      BY NoFrameEmpty DEF dh_outq_init
    <2>2. QED
      BY <2>1 DEF dh_outq_reset, QueueOK, Queues
  <1>4. QED
    BY <1>2, <1>3, DepthPositive DEF QueueOK, Holds, band_clear, Load, NoFrame

(* A refusal moves only counters. *)
LEMMA RefuseQueueOK ==
  ASSUME NEW qq, QueueOK(qq), NEW c \in Causes
  PROVE  QueueOK(refuse(qq, c)) /\ OnlyFills(qq, refuse(qq, c))
  <1>0. /\ qq.refused \in Nat /\ qq.cause \in [Causes -> Nat]
        /\ qq.band \in [BandIds -> Bands] /\ qq.stage \in [BandIds -> Seq(Frames)]
    BY DEF QueueOK, Queues
  <1>1. Saturating(qq.refused) \in Nat /\ Saturating(qq.cause[c]) \in Nat
    BY <1>0 DEF Saturating
  <1>2. refuse(qq, c).band = qq.band /\ refuse(qq, c).stage = qq.stage
    BY DEF refuse, QueueOK, Queues
  <1>3. [qq.cause EXCEPT ![c] = Saturating(@)] \in [Causes -> Nat]
    BY <1>0, <1>1
  <1>4. refuse(qq, c) \in Queues
    BY <1>0, <1>1, <1>3 DEF Queues, refuse, QueueOK
  <1>5. QED
    BY <1>2, <1>4 DEF QueueOK, OnlyFills, Holds

(* Offering a frame fills an empty band or a staging slot and leaves every
   frame in flight as it is, whichever band is being drained. *)
LEMMA OfferQueueOK ==
  ASSUME NEW qq, QueueOK(qq), NEW f \in Frames
  PROVE  QueueOK(dh_outq_offer(qq, f)) /\ OnlyFills(qq, dh_outq_offer(qq, f))
  <1>0. f.band \in Causes /\ "bad_header" \in Causes /\ f.band \in BandIds /\ f.len > 0
    BY DEF Frames, BandIds, Causes
  <1>1. CASE ~ f.parses \/ NoRoom(qq, f)
    BY <1>0, <1>1, RefuseQueueOK DEF dh_outq_offer
  <1>2. CASE f.parses /\ ~ NoRoom(qq, f) /\ Holds(qq, f.band)
    <2> DEFINE rr == [qq EXCEPT !.stage[f.band] = Append(@, f)]
    <2>1. dh_outq_offer(qq, f) = rr
      BY <1>2 DEF dh_outq_offer
    <2>2. rr.band = qq.band /\ rr \in Queues
      <3>1. [qq.stage EXCEPT ![f.band] = Append(@, f)] \in [BandIds -> Seq(Frames)]
        BY <1>0 DEF QueueOK, Queues
      <3>2. rr = [qq EXCEPT !.stage = [qq.stage EXCEPT ![f.band] = Append(@, f)]]
        BY <1>0 DEF QueueOK, Queues
      <3>3. QED
        BY <3>1, <3>2 DEF QueueOK, Queues
    <2>3. \A b \in BandIds : b # f.band => rr.stage[b] = qq.stage[b]
      BY <1>0 DEF QueueOK, Queues
    <2>4. Len(rr.stage[f.band]) <= Depth(f.band)
      <3>1. rr.stage[f.band] = Append(qq.stage[f.band], f) /\ qq.stage[f.band] \in Seq(Frames)
        BY <1>0 DEF QueueOK, Queues
      <3>2. Len(qq.stage[f.band]) < Depth(f.band)
        BY <1>0, <1>2, <3>1, OutqAssumption
        DEF NoRoom, dh_outq_priority_full, Depth, BandIds
      <3>3. QED
        BY <1>0, <3>1, <3>2, DepthPositive
    <2>5. QED
      BY <1>2, <2>1, <2>2, <2>3, <2>4 DEF QueueOK, OnlyFills, Holds, Queues, Bands
  <1>3. CASE f.parses /\ ~ NoRoom(qq, f) /\ ~ Holds(qq, f.band)
    <2> DEFINE rr == [qq EXCEPT !.band[f.band] = Load(f)]
    <2>1. dh_outq_offer(qq, f) = rr
      BY <1>3 DEF dh_outq_offer
    <2>2. rr.stage = qq.stage /\ rr \in Queues /\ rr.band[f.band] = Load(f)
      BY <1>0 DEF QueueOK, Queues, Bands, Load
    <2>3. \A b \in BandIds : b # f.band => rr.band[b] = qq.band[b]
      BY <1>0 DEF QueueOK, Queues
    <2>4. QED
      BY <1>0, <1>3, <2>1, <2>2, <2>3 DEF QueueOK, OnlyFills, Holds, Load
  <1>4. QED
    BY <1>1, <1>2, <1>3

(* The same for a pair, which also needs the priority band empty. *)
LEMMA PairQueueOK ==
  ASSUME NEW qq, QueueOK(qq), NEW f \in Frames, NEW g \in Frames
  PROVE  QueueOK(dh_outq_offer_pair(qq, f, g)) /\ OnlyFills(qq, dh_outq_offer_pair(qq, f, g))
  <1>1. CASE ~ AdmitsPair(qq, f, g)
    BY <1>1, RefuseQueueOK DEF AdmitsPair, dh_outq_offer_pair, Causes
  <1>2. CASE AdmitsPair(qq, f, g)
    <2> DEFINE bb == [qq.band EXCEPT !["priority"] = Load(f)]
               ss == [qq.stage EXCEPT !["priority"] = <<g>>]
               rr == dh_outq_offer_pair(qq, f, g)
    <2>0. ~ Holds(qq, "priority") /\ "priority" \in BandIds /\ f.len > 0
      BY <1>2 DEF AdmitsPair, PairHasNoRoom, dh_outq_pair_busy, BandIds, Frames
    <2>1. bb \in [BandIds -> Bands] /\ ss \in [BandIds -> Seq(Frames)]
      <3>1. Load(f) \in Bands /\ <<g>> \in Seq(Frames)
        BY DEF Load, Bands
      <3>2. qq.band \in [BandIds -> Bands] /\ qq.stage \in [BandIds -> Seq(Frames)]
        BY DEF QueueOK, Queues
      <3>3. QED
        BY <3>1, <3>2
    <2>2. rr = [qq EXCEPT !.band = bb, !.stage = ss]
      BY <1>2 DEF AdmitsPair, dh_outq_offer_pair, QueueOK, Queues
    <2>3. rr \in Queues /\ rr.band = bb /\ rr.stage = ss
      BY <2>1, <2>2 DEF QueueOK, Queues
    <2>4. /\ bb["priority"] = Load(f) /\ Len(ss["priority"]) <= Depth("priority")
          /\ \A b \in BandIds : b # "priority" => bb[b] = qq.band[b] /\ ss[b] = qq.stage[b]
      BY <2>0, DepthPositive DEF QueueOK, Queues
    <2>5. QED
      BY <2>0, <2>3, <2>4 DEF QueueOK, OnlyFills, Holds, Load
  <1>3. QED
    BY <1>1, <1>2

(* Crediting one unit to the band the view names leaves the other band
   alone and either moves that frame on or puts a fresh one in its place. *)
LEMMA AdvanceQueueOK ==
  ASSUME NEW qq, QueueOK(qq), NEW v, v.band \in BandIds, Holds(qq, v.band)
  PROVE  LET rr == dh_outq_advance(qq, v) IN
         /\ QueueOK(rr)
         /\ \A b \in BandIds : b # v.band => rr.band[b] = qq.band[b]
         /\ \/ /\ rr.band[v.band].sent = qq.band[v.band].sent + 1
               /\ rr.band[v.band].buf = qq.band[v.band].buf
            \/ rr.band[v.band].sent = 0
  <1> DEFINE w == v.band
             rr == dh_outq_advance(qq, v)
  <1> w \in BandIds
    OBVIOUS
  <1>0. /\ qq.band \in [BandIds -> Bands] /\ qq.stage \in [BandIds -> Seq(Frames)]
        /\ qq.band[w].sent \in Nat /\ qq.band[w].buf.len \in Nat
    <2>1. qq.band \in [BandIds -> Bands] /\ qq.stage \in [BandIds -> Seq(Frames)]
      BY DEF QueueOK, Queues
    <2>2. qq.band[w] \in Bands
      BY <2>1
    <2>3. QED
      BY <2>1, <2>2, BandTypes
  <1>1. CASE qq.band[w].sent + 1 < qq.band[w].buf.len
    <2> DEFINE bb == [qq.band EXCEPT ![w].sent = @ + 1]
    <2>1. bb \in [BandIds -> Bands] /\ bb[w] = [qq.band[w] EXCEPT !.sent = @ + 1]
      BY <1>0 DEF Bands
    <2>2. rr = [qq EXCEPT !.band = bb]
      BY <1>1 DEF dh_outq_advance, QueueOK, Queues
    <2>3. rr \in Queues /\ rr.band = bb /\ rr.stage = qq.stage
      BY <2>1, <2>2 DEF QueueOK, Queues
    <2>4. /\ bb[w].sent = qq.band[w].sent + 1 /\ bb[w].buf = qq.band[w].buf
          /\ bb[w].preamble_done = qq.band[w].preamble_done
          /\ \A b \in BandIds : b # w => bb[b] = qq.band[b]
      BY <1>0, <2>1 DEF Bands
    <2>5. QED
      BY <1>1, <2>3, <2>4 DEF QueueOK, Holds
  <1>2. CASE ~ (qq.band[w].sent + 1 < qq.band[w].buf.len) /\ qq.stage[w] = <<>>
    <2> DEFINE bb == [qq.band EXCEPT ![w] = band_clear]
    <2>1. bb \in [BandIds -> Bands] /\ bb[w] = band_clear
      BY <1>0, NoFrameEmpty
    <2>2. rr = [qq EXCEPT !.band = bb]
      BY <1>2 DEF dh_outq_advance, promote, QueueOK, Queues
    <2>3. rr \in Queues /\ rr.band = bb /\ rr.stage = qq.stage
      BY <2>1, <2>2 DEF QueueOK, Queues
    <2>4. \A b \in BandIds : b # w => bb[b] = qq.band[b]
      BY <1>0
    <2>5. QED
      BY <1>2, <2>1, <2>3, <2>4 DEF QueueOK, Holds, band_clear, Load, NoFrame
  <1>3. CASE ~ (qq.band[w].sent + 1 < qq.band[w].buf.len) /\ qq.stage[w] # <<>>
    <2> DEFINE bb == [qq.band EXCEPT ![w] = Load(Head(qq.stage[w]))]
               ss == [qq.stage EXCEPT ![w] = Tail(@)]
    <2>0. Head(qq.stage[w]) \in Frames /\ Tail(qq.stage[w]) \in Seq(Frames)
      BY <1>0, <1>3
    <2>1. /\ bb \in [BandIds -> Bands] /\ bb[w] = Load(Head(qq.stage[w]))
          /\ ss \in [BandIds -> Seq(Frames)]
      BY <1>0, <2>0 DEF Load, Bands
    <2>2. rr = [qq EXCEPT !.band = bb, !.stage = ss]
      BY <1>3 DEF dh_outq_advance, promote, QueueOK, Queues
    <2>3. rr \in Queues /\ rr.band = bb /\ rr.stage = ss
      BY <2>1, <2>2 DEF QueueOK, Queues
    <2>4. \A b \in BandIds : b # w => bb[b] = qq.band[b] /\ ss[b] = qq.stage[b]
      BY <1>0
    <2>5. bb[w].sent = 0 /\ ~ bb[w].preamble_done /\ bb[w].buf.len > 0
      BY <2>0, <2>1 DEF Load, Frames
    <2>6. Len(ss[w]) <= Depth(w)
      <3>1. ss[w] = Tail(qq.stage[w]) /\ Len(qq.stage[w]) <= Depth(w)
        BY <1>0 DEF QueueOK
      <3>2. QED
        BY <1>0, <1>3, <3>1, DepthPositive
    <2>7. QED
      BY <2>3, <2>4, <2>5, <2>6 DEF QueueOK, Holds
  <1>4. QED
    BY <1>1, <1>2, <1>3
-----------------------------------------------------------------------------
(* Without preambles a band is in flight exactly when part of it was sent. *)
LEMMA InFlightIsSent ==
  ASSUME NEW qq, QueueOK(qq), NEW b \in BandIds
  PROVE  /\ qq.band[b].sent \in Nat
         /\ band_in_flight(qq.band[b]) <=> qq.band[b].sent > 0
  <1>1. qq.band[b] \in Bands
    BY DEF QueueOK, Queues
  <1>2. QED
    BY <1>1, BandTypes DEF QueueOK, band_in_flight, Holds

(* A frame that is offered is well formed. *)
LEMMA FrameOfType ==
  ASSUME NEW k \in FrameKinds, NEW n \in Nat
  PROVE  FrameOf(k, n) \in Frames
  <1>1. k \in [band : BandIds, len : Nat \ {0}, tail : 1 .. REPORT, parses : BOOLEAN]
    BY SeamAssumption
  <1>2. /\ k.band \in BandIds /\ k.len \in Nat \ {0} /\ k.tail \in Nat /\ k.parses \in BOOLEAN
    BY <1>1, SeamAssumption
  <1>3. QED
    BY <1>2 DEF FrameOf, Frames

(* Frames arriving from either core while the pump is anywhere. *)
LEMMA FillStep ==
  ASSUME SeamInv, QueueOK(q'), OnlyFills(q, q'), TypeOK',
         UNCHANGED <<pump, view, reader, startLost, judged>>
  PROVE  SeamInv'
  <1>1. /\ \A b \in BandIds : q'.band[b].sent = q.band[b].sent
        /\ \A b \in BandIds : q.band[b].sent > 0 \/ Holds(q, b) => q'.band[b] = q.band[b]
        /\ \A b \in BandIds : Holds(q, b) => Holds(q', b)
    BY InFlightIsSent DEF SeamInv, QueueOK, OnlyFills, Holds
  <1>2. OneInFlight'
    BY <1>1, InFlightIsSent DEF SeamInv, OneInFlight, BandIds
  <1>3. ViewFresh'
    BY <1>1 DEF SeamInv, ViewFresh, TypeOK
  <1>4. ReaderTracks'
    <2>1. \A b \in BandIds : Written(b)' = Written(b)
      BY <1>1 DEF Written
    <2>2. \A b \in BandIds : Written(b) > 0 => q'.band[b] = q.band[b]
      BY <1>1, InFlightIsSent DEF Written, SeamInv, ViewFresh
    <2>3. QED
      BY <2>1, <2>2 DEF SeamInv, ReaderTracks
  <1>5. QED
    BY <1>2, <1>3, <1>4 DEF SeamInv, IntactUnlessStartLost

(* channel_lifecycle_queue in either gap of the pump. *)
LEMMA OfferStep ==
  ASSUME SeamInv, NEW k \in FrameKinds, Offer(k)
  PROVE  SeamInv'
  <1>1. FrameOf(k, next) \in Frames
    BY FrameOfType DEF SeamInv, TypeOK
  <1>2. QueueOK(q') /\ OnlyFills(q, q')
    BY <1>1, OfferQueueOK DEF SeamInv, Offer
  <1>3. TypeOK'
    BY <1>2 DEF SeamInv, TypeOK, QueueOK, Offer
  <1>4. QED
    BY <1>2, <1>3, FillStep DEF Offer

(* A correlated pair queued in either gap of the pump. *)
LEMMA OfferPairStep ==
  ASSUME SeamInv, NEW k \in FrameKinds, NEW l \in FrameKinds, OfferPair(k, l)
  PROVE  SeamInv'
  <1>1. FrameOf(k, next) \in Frames /\ FrameOf(l, next + 1) \in Frames
    BY FrameOfType DEF SeamInv, TypeOK
  <1>2. QueueOK(q') /\ OnlyFills(q, q')
    BY <1>1, PairQueueOK DEF SeamInv, OfferPair
  <1>3. TypeOK'
    BY <1>2 DEF SeamInv, TypeOK, QueueOK, OfferPair
  <1>4. QED
    BY <1>2, <1>3, FillStep DEF OfferPair

(* The view is what the band holds, and nothing else is part-sent. *)
LEMMA PeekStep ==
  ASSUME SeamInv, PumpPeek
  PROVE  SeamInv'
  <1> DEFINE w == owed_band(q)
  <1>1. w \in BandIds /\ Holds(q, w)
    BY DEF PumpPeek, owed_band, BandIds
  <1>2. /\ view' = [frame |-> q.band[w].buf, at |-> q.band[w].sent, band |-> w,
                    preamble_owed |-> ~ q.band[w].preamble_done]
        /\ pump' = "peeked" /\ UNCHANGED <<q, reader, next, lost, judged, startLost, overtaken>>
    BY DEF PumpPeek, dh_outq_peek, history
  <1>3. TypeOK'
    <2>1. q.band[w] \in Bands
      BY <1>1 DEF SeamInv, QueueOK, Queues
    <2>2. QED
      BY <1>1, <1>2, <2>1, BandTypes DEF SeamInv, TypeOK
  <1>4. \A b \in BandIds : b # w => q.band[b].sent = 0
    <2>1. w = "priority" => ~ band_in_flight(q.band["bulk"])
      BY DEF owed_band
    <2>2. w = "bulk" => q.band["bulk"].sent > 0 \/ ~ Holds(q, "priority")
      BY InFlightIsSent DEF owed_band, SeamInv, BandIds
    <2>3. \A b \in BandIds : q.band[b].sent \in Nat
      BY InFlightIsSent DEF SeamInv
    <2>4. CASE w = "priority"
      BY <2>1, <2>3, <2>4, InFlightIsSent DEF SeamInv, BandIds
    <2>5. CASE w = "bulk"
      BY <2>2, <2>3, <2>5, InFlightIsSent DEF SeamInv, BandIds, OneInFlight, QueueOK
    <2>6. QED
      BY <1>1, <2>4, <2>5 DEF BandIds
  <1>5. ViewFresh'
    BY <1>1, <1>2, <1>4 DEF ViewFresh
  <1>6. ReaderTracks'
    <2>1. \A b \in BandIds : Written(b)' = q.band[b].sent
      BY <1>2 DEF Written
    <2>2. \A b \in BandIds : Written(b) = q.band[b].sent
      BY DEF Written, PumpPeek
    <2>3. QED
      BY <1>2, <2>1, <2>2 DEF SeamInv, ReaderTracks
  <1>7. QED
    BY <1>2, <1>3, <1>5, <1>6 DEF SeamInv, IntactUnlessStartLost, OneInFlight

(* A report USB refused leaves everything owed. *)
LEMMA RefusedStep ==
  ASSUME SeamInv, PumpRefused
  PROVE  SeamInv'
  <1>1. /\ pump = "peeked" /\ pump' = "idle" /\ view' = NoView
        /\ UNCHANGED <<q, reader, next, lost, judged, startLost, overtaken>>
    BY DEF PumpRefused, history
  <1>2. TypeOK'
    BY <1>1 DEF SeamInv, TypeOK, NoView, BandIds
  <1>3. \A b \in BandIds : Written(b)' = Written(b)
    BY <1>1 DEF Written
  <1>4. QED
    BY <1>1, <1>2, <1>3
    DEF SeamInv, IntactUnlessStartLost, OneInFlight, ViewFresh, ReaderTracks

(* What the peeked report is, whether it is then lost or received. *)
LEMMA PeekedReport ==
  ASSUME SeamInv, pump = "peeked"
  PROVE  /\ view.band \in BandIds /\ view.frame \in Frames /\ view.at \in Nat
         /\ view.at < view.frame.len
         /\ view.frame = q.band[view.band].buf /\ view.at = q.band[view.band].sent
         /\ \A b \in BandIds : b # view.band => Written(b) = 0
         /\ Written(view.band) = view.at
  <1>1. q.band[view.band] \in Bands /\ view.band \in BandIds
    BY DEF SeamInv, TypeOK, QueueOK, Queues
  <1>2. view.frame \in Frames
    BY <1>1, BandTypes, NoFrameEmpty DEF SeamInv, ViewFresh, Holds
  <1>3. QED
    BY <1>1, <1>2, BandTypes DEF SeamInv, ViewFresh, Holds, QueueOK, Written

(* A report the carrier loses: the reader falls behind the frame in flight. *)
LEMMA WriteLostStep ==
  ASSUME SeamInv, PumpWriteLost
  PROVE  SeamInv'
  <1>0. /\ pump = "peeked" /\ pump' = "written" /\ lost' = lost + 1
        /\ startLost' = (startLost \/ Starts(view))
        /\ UNCHANGED <<q, view, reader, next, judged>>
        /\ overtaken' \in {overtaken, overtaken + 1}
    BY DEF PumpWriteLost, WriteHistory
  <1>1. TypeOK'
    BY <1>0 DEF SeamInv, TypeOK, Starts
  <1>2. ViewFresh' /\ OneInFlight' /\ QueueOK(q')
    BY <1>0 DEF SeamInv, ViewFresh, OneInFlight
  <1>3. ReaderTracks'
    <2>1. /\ \A b \in BandIds : b # view.band => Written(b)' = 0
          /\ Written(view.band)' = view.at + 1 /\ Written(view.band) = view.at
          /\ view.band \in BandIds /\ view.at \in Nat
      BY <1>0, PeekedReport DEF Written, SeamInv, ViewFresh
    <2>2. CASE view.at = 0
      BY <1>0, <2>2 DEF ReaderTracks, Starts
    <2>3. CASE view.at > 0
      BY <1>0, <2>1, <2>3 DEF SeamInv, ReaderTracks, TypeOK
    <2>4. QED
      BY <2>1, <2>2, <2>3
  <1>4. QED
    BY <1>0, <1>1, <1>2, <1>3 DEF SeamInv, IntactUnlessStartLost

(* The reader's state is well typed after any report. *)
LEMMA ReaderTypes ==
  ASSUME NEW rd \in [frame : Frames \cup {NoFrame}, have : Nat, broken : BOOLEAN, resyncs : Nat],
         NEW r, r.frame \in Frames, r.at \in Nat
  PROVE  /\ dh_frame_reader_report(rd, r)
              \in [frame : Frames \cup {NoFrame}, have : Nat, broken : BOOLEAN, resyncs : Nat]
         /\ Filled(rd, r)
              \in [frame : Frames \cup {NoFrame}, have : Nat, broken : BOOLEAN, resyncs : Nat]
         /\ Starts(r) => /\ Filled(rd, r).frame = r.frame /\ Filled(rd, r).have = 1
                         /\ Filled(rd, r).broken = FALSE
         /\ ~ Starts(r) => /\ Filled(rd, r).frame = rd.frame /\ Filled(rd, r).have = rd.have + 1
                           /\ Filled(rd, r).broken = (rd.broken \/ r.frame.id # rd.frame.id
                                                       \/ r.at # rd.have)
         /\ \/ dh_frame_reader_report(rd, r).have = 0
            \/ /\ ~ Orphan(rd, r) /\ ~ Completes(rd, r)
               /\ dh_frame_reader_report(rd, r) = Filled(rd, r)
  <1> DEFINE R == [frame : Frames \cup {NoFrame}, have : Nat, broken : BOOLEAN, resyncs : Nat]
  <1>1. ASSUME NEW x \in R
        PROVE  /\ Resynced(x) \in R /\ Resynced(x).frame = x.frame /\ Resynced(x).have = x.have
               /\ Resynced(x).broken = x.broken
    BY OutqAssumption DEF Resynced, Saturating
  <1>2. ASSUME NEW x \in R
        PROVE  Discard(x) \in R /\ Discard(x).have = 0
    BY DEF Discard
  <1>3. Base(rd, r) \in R
    BY <1>1 DEF Base
  <1>4. /\ Starts(r) => Base(rd, r).frame = r.frame /\ Base(rd, r).have = 0
                        /\ Base(rd, r).broken = FALSE
        /\ ~ Starts(r) => Base(rd, r) = rd
    BY <1>1 DEF Base
  <1>5. /\ Filled(rd, r) \in R /\ Filled(rd, r).frame = Base(rd, r).frame
        /\ Filled(rd, r).have = Base(rd, r).have + 1
        /\ Filled(rd, r).broken = (Base(rd, r).broken \/ r.frame.id # Base(rd, r).frame.id
                                     \/ r.at # Base(rd, r).have)
    BY <1>3 DEF Filled
  <1>6. dh_frame_reader_report(rd, r) \in R
    BY <1>1, <1>2, <1>5 DEF dh_frame_reader_report
  <1>7. \/ dh_frame_reader_report(rd, r).have = 0
        \/ /\ ~ Orphan(rd, r) /\ ~ Completes(rd, r)
           /\ dh_frame_reader_report(rd, r) = Filled(rd, r)
    <2>1. CASE Orphan(rd, r)
      BY <1>1, <2>1 DEF dh_frame_reader_report, Orphan
    <2>2. CASE ~ Orphan(rd, r) /\ Completes(rd, r)
      BY <1>1, <1>2, <1>5, <2>2 DEF dh_frame_reader_report
    <2>3. CASE ~ Orphan(rd, r) /\ ~ Completes(rd, r)
      BY <2>3 DEF dh_frame_reader_report
    <2>4. QED
      BY <2>1, <2>2, <2>3
  <1>8. QED
    BY <1>4, <1>5, <1>6, <1>7 DEF Starts

(* The fields of a judgement. *)
LEMMA Judgement ==
  ASSUME NEW i \in Nat, NEW a \in BOOLEAN, NEW c \in BOOLEAN
  PROVE  LET j == [id |-> i, intact |-> a, startLost |-> c] IN
         j \in [id : Nat, intact : BOOLEAN, startLost : BOOLEAN] /\ j.intact = a /\ j.startLost = c
  OBVIOUS

(* A report that arrives.  A start begins a frame afresh; while no start was
   lost, any other report belongs to the frame being assembled, and a frame
   that missed one is still short of its length when its last report comes. *)
LEMMA WriteStep ==
  ASSUME SeamInv, PumpWrite
  PROVE  SeamInv'
  <1> DEFINE f == Filled(reader, view)
             R == [frame : Frames \cup {NoFrame}, have : Nat, broken : BOOLEAN, resyncs : Nat]
  <1>0. /\ pump = "peeked" /\ pump' = "written"
        /\ reader' = dh_frame_reader_report(reader, view)
        /\ startLost' = (startLost /\ ~ Starts(view))
        /\ UNCHANGED <<q, view, next, lost>>
        /\ overtaken' \in {overtaken, overtaken + 1}
        /\ \/ UNCHANGED judged
           \/ /\ Judges(reader, view)
              /\ judged' = [id |-> f.frame.id, intact |-> ~ f.broken,
                            startLost |-> startLost /\ ~ Starts(view)]
    BY DEF PumpWrite, WriteHistory
  <1>1. /\ view.band \in BandIds /\ view.frame \in Frames /\ view.at \in Nat
        /\ view.at < view.frame.len /\ view.frame = q.band[view.band].buf
        /\ view.frame.len \in Nat
        /\ Written(view.band) = view.at /\ Written(view.band)' = view.at + 1
        /\ \A b \in BandIds : b # view.band => Written(b)' = 0
    <2>1. \A b \in BandIds : b # view.band => q.band[b].sent = 0
      BY <1>0 DEF SeamInv, ViewFresh
    <2>2. QED
      BY <1>0, <2>1, PeekedReport DEF Written, Frames
  <1>2. /\ reader \in R /\ f \in R /\ reader' \in R /\ startLost \in BOOLEAN
        /\ reader'.have = 0
           \/ (~ Orphan(reader, view) /\ ~ Completes(reader, view) /\ reader' = f)
    BY <1>0, <1>1, ReaderTypes DEF SeamInv, TypeOK
  <1>3. f.frame.id \in Nat
    BY <1>2 DEF Frames, NoFrame
  <1>j. /\ judged' \in [id : Nat, intact : BOOLEAN, startLost : BOOLEAN]
        /\ \/ judged' = judged
           \/ /\ Judges(reader, view)
              /\ judged'.intact = (~ f.broken) /\ judged'.startLost = (startLost /\ ~ Starts(view))
    <2>1. (~ f.broken) \in BOOLEAN /\ (startLost /\ ~ Starts(view)) \in BOOLEAN
      BY Zenon
    <2>2. judged \in [id : Nat, intact : BOOLEAN, startLost : BOOLEAN]
      BY DEF SeamInv, TypeOK
    <2>3. CASE judged' = judged
      BY <2>2, <2>3
    <2>4. CASE /\ Judges(reader, view)
               /\ judged' = [id |-> f.frame.id, intact |-> ~ f.broken,
                             startLost |-> startLost /\ ~ Starts(view)]
      <3> HIDE DEF f
      <3>1. QED
        BY <1>3, <2>1, <2>4, Judgement, Zenon
    <2>5. QED
      BY <1>0, <2>3, <2>4
  <1>4. TypeOK'
    BY <1>0, <1>2, <1>j DEF SeamInv, TypeOK, Starts
  <1>5. ViewFresh' /\ OneInFlight' /\ QueueOK(q')
    BY <1>0 DEF SeamInv, ViewFresh, OneInFlight
  <1>6. CASE Starts(view)
    <2>1. f.frame = view.frame /\ f.have = 1 /\ f.broken = FALSE /\ view.at = 0
      BY <1>1, <1>2, <1>6, ReaderTypes DEF Starts
    <2>2. IntactUnlessStartLost'
      BY <1>j, <2>1 DEF SeamInv, IntactUnlessStartLost
    <2>3. ReaderTracks'
      BY <1>0, <1>1, <1>2, <2>1 DEF ReaderTracks
    <2>4. QED
      BY <1>4, <1>5, <2>2, <2>3 DEF SeamInv
  <1>7. CASE ~ Starts(view) /\ startLost
    <2>1. startLost' = TRUE
      BY <1>0, <1>7
    <2>2. IntactUnlessStartLost'
      BY <1>j, <1>7 DEF SeamInv, IntactUnlessStartLost
    <2>3. ReaderTracks'
      BY <2>1 DEF ReaderTracks
    <2>4. QED
      BY <1>4, <1>5, <2>2, <2>3 DEF SeamInv
  <1>8. CASE ~ Starts(view) /\ ~ startLost
    <2>1. /\ f.frame = reader.frame /\ f.have = reader.have + 1
          /\ f.broken = (reader.broken \/ view.frame.id # reader.frame.id \/ view.at # reader.have)
          /\ view.at > 0
      <3>1. view.at > 0
        BY <1>1, <1>8 DEF Starts
      <3>2. QED
        BY <1>1, <1>2, <1>8, <3>1, ReaderTypes
    <2>2. reader.have > 0 => /\ reader.frame = view.frame /\ reader.have <= view.at
                             /\ reader.broken => reader.have < view.at
      BY <1>1, <1>8, <2>1 DEF SeamInv, ReaderTracks
    <2>3. reader.have > 0 => /\ f.frame = view.frame /\ f.have <= view.at + 1
                             /\ f.broken => f.have < view.at + 1
      BY <1>1, <1>2, <2>1, <2>2
    <2>4. Judges(reader, view) => ~ f.broken
      <3>1. Judges(reader, view) => reader.have > 0 /\ f.have = f.frame.len
        BY <1>2, <1>8 DEF Judges, Completes, Orphan
      <3>2. QED
        BY <1>1, <1>2, <2>3, <3>1
    <2>5. IntactUnlessStartLost'
      BY <1>j, <2>4 DEF SeamInv, IntactUnlessStartLost
    <2>6. ReaderTracks'
      <3>1. reader'.have > 0 => reader' = f /\ reader.have > 0
        BY <1>2, <1>8 DEF Orphan
      <3>2. QED
        BY <1>0, <1>1, <2>3, <3>1 DEF ReaderTracks
    <2>7. QED
      BY <1>4, <1>5, <2>5, <2>6 DEF SeamInv
  <1>9. QED
    BY <1>2, <1>6, <1>7, <1>8

(* The credit lands on the band that was peeked: what the transport has
   taken of each frame does not change, unless the frame is finished. *)
LEMMA AdvanceStep ==
  ASSUME SeamInv, PumpAdvance
  PROVE  SeamInv'
  <1>0. /\ pump = "written" /\ pump' = "idle" /\ view' = NoView
        /\ q' = dh_outq_advance(q, view)
        /\ UNCHANGED <<reader, next, lost, judged, startLost>>
        /\ overtaken' \in {overtaken, 0}
    BY DEF PumpAdvance
  <1>1. view.band \in BandIds /\ Holds(q, view.band)
    BY <1>0 DEF SeamInv, ViewFresh, TypeOK
  <1>2. /\ QueueOK(q')
        /\ \A b \in BandIds : b # view.band => q'.band[b] = q.band[b] /\ q.band[b].sent = 0
        /\ \/ /\ q'.band[view.band].sent = q.band[view.band].sent + 1
              /\ q'.band[view.band].buf = q.band[view.band].buf
           \/ q'.band[view.band].sent = 0
    BY <1>0, <1>1, AdvanceQueueOK DEF SeamInv, ViewFresh
  <1>3. TypeOK'
    BY <1>0, <1>2 DEF SeamInv, TypeOK, QueueOK, NoView, BandIds
  <1>4. OneInFlight'
    <2>1. \A b \in BandIds : b # view.band => ~ (q'.band[b].sent > 0)
      BY <1>2
    <2>2. QED
      BY <1>1, <1>2, <2>1, InFlightIsSent DEF OneInFlight, BandIds
  <1>5. ViewFresh'
    BY <1>0 DEF ViewFresh
  <1>6. ReaderTracks'
    <2>1. \A b \in BandIds : Written(b)' = q'.band[b].sent
      BY <1>0 DEF Written
    <2>2. Written(view.band) = q.band[view.band].sent + 1
      BY <1>0 DEF Written
    <2>3. \A b \in BandIds : Written(b)' > 0 =>
             Written(b)' = Written(b) /\ q'.band[b].buf = q.band[b].buf
      BY <1>2, <2>1, <2>2
    <2>4. QED
      BY <1>0, <2>3 DEF SeamInv, ReaderTracks
  <1>7. QED
    BY <1>0, <1>2, <1>3, <1>4, <1>5, <1>6 DEF SeamInv, IntactUnlessStartLost

(* A reset leaves nothing part-written, so whatever the reader still holds
   can only be replaced by the next start. *)
LEMMA ResetStep ==
  ASSUME SeamInv, NEW reopened \in BOOLEAN, reset_output(reopened)
  PROVE  SeamInv'
  <1>0. /\ pump = "idle" /\ q' = dh_outq_reset(q)
        /\ reader' \in {reader, dh_frame_reader_init} /\ startLost' \in {startLost, FALSE}
        /\ UNCHANGED <<pump, view, next, lost, judged>> /\ overtaken' = 0
    BY DEF reset_output
  <1>1. QueueOK(q') /\ \A b \in BandIds : q'.band[b].sent = 0
    BY <1>0, ResetQueueOK DEF SeamInv, band_clear, Load
  <1>2. TypeOK'
    <2>1. dh_frame_reader_init
            \in [frame : Frames \cup {NoFrame}, have : Nat, broken : BOOLEAN, resyncs : Nat]
      BY DEF dh_frame_reader_init
    <2>2. QED
      BY <1>0, <1>1, <2>1 DEF SeamInv, TypeOK, QueueOK
  <1>3. OneInFlight'
    BY <1>1, InFlightIsSent DEF OneInFlight, BandIds
  <1>4. ReaderTracks' /\ ViewFresh'
    BY <1>0, <1>1 DEF ReaderTracks, ViewFresh, Written
  <1>5. QED
    BY <1>0, <1>1, <1>2, <1>3, <1>4 DEF SeamInv, IntactUnlessStartLost
-----------------------------------------------------------------------------
(* The invariant of the whole seam, for every depth, frame kind and bound:
   channel_pump_out, dh_outq and dh_frame_reader_report together. *)
THEOREM SeamInvariant == Spec => []SeamInv
  <1>1. Init => SeamInv
    <2> SUFFICES ASSUME Init PROVE SeamInv
      OBVIOUS
    <2>1. QueueOK(q) /\ \A b \in BandIds : q.band[b] = band_clear
      BY InitQueueOK DEF Init, dh_outq_init
    <2>2. TypeOK
      BY <2>1 DEF Init, TypeOK, QueueOK, NoView, NoJudgement, dh_frame_reader_init, BandIds
    <2>3. OneInFlight
      BY <2>1 DEF OneInFlight, band_in_flight, band_clear, Load, NoFrame, BandIds
    <2>4. ViewFresh /\ ReaderTracks /\ IntactUnlessStartLost
      BY DEF Init, ViewFresh, ReaderTracks, dh_frame_reader_init, IntactUnlessStartLost, NoJudgement
    <2>5. QED
      BY <2>1, <2>2, <2>3, <2>4 DEF SeamInv
  <1>2. SeamInv /\ [Next]_vars => SeamInv'
    <2> SUFFICES ASSUME SeamInv, [Next]_vars PROVE SeamInv'
      OBVIOUS
    <2>1. ASSUME NEW k \in FrameKinds, Offer(k) PROVE SeamInv'
      BY <2>1, OfferStep
    <2>2. ASSUME NEW k \in FrameKinds, NEW l \in FrameKinds, OfferPair(k, l) PROVE SeamInv'
      BY <2>2, OfferPairStep
    <2>3. CASE PumpPeek
      BY <2>3, PeekStep
    <2>4. CASE PumpRefused
      BY <2>4, RefusedStep
    <2>5. CASE PumpWrite
      BY <2>5, WriteStep
    <2>6. CASE PumpWriteLost
      BY <2>6, WriteLostStep
    <2>7. CASE PumpAdvance
      BY <2>7, AdvanceStep
    <2>8. ASSUME NEW reopened \in BOOLEAN, reset_output(reopened) PROVE SeamInv'
      BY <2>8, ResetStep
    <2>9. CASE UNCHANGED vars
      BY <2>9 DEF vars, SeamInv, TypeOK, OneInFlight, ViewFresh, ReaderTracks, Written,
                  IntactUnlessStartLost
    <2>10. QED
      BY <2>1, <2>2, <2>3, <2>4, <2>5, <2>6, <2>7, <2>8, <2>9 DEF Next, Pump
  <1>3. QED
    BY <1>1, <1>2, PTL DEF Spec

(* The state of the seam keeps its types. *)
THEOREM SeamTypeOK == Spec => []TypeOK
  <1>1. SeamInv => TypeOK
    BY DEF SeamInv
  <1>2. QED
    BY <1>1, SeamInvariant, PTL

(* dh_frame_reader_report hands on no spliced frame unless a frame-start
   report was lost, however the two cores and the resets interleave. *)
THEOREM SeamIntact == Spec => []IntactUnlessStartLost
  <1>1. SeamInv => IntactUnlessStartLost
    BY DEF SeamInv
  <1>2. QED
    BY <1>1, SeamInvariant, PTL

(* owed_band never lets two frames be part-sent at once, although frames are
   queued while the pump is between its peek and its advance. *)
THEOREM SeamOneInFlight == Spec => []OneInFlight
  <1>1. SeamInv => OneInFlight
    BY DEF SeamInv
  <1>2. QED
    BY <1>1, SeamInvariant, PTL

(* promote never leaves a frame staged behind an empty buffer, so testing the
   buffer is enough for dh_outq_offer and dh_outq_pair_busy. *)
THEOREM SeamEmptyBand == Spec => []EmptyBandIsEmpty
  <1>1. SeamInv => EmptyBandIsEmpty
    BY DEF SeamInv, QueueOK, EmptyBandIsEmpty
  <1>2. QED
    BY <1>1, SeamInvariant, PTL

-----------------------------------------------------------------------------
(* The order of the frames, and that none of them vanishes. *)

\* Frame n is in band b of the queue.
InLine(qq, n, b) ==
    \/ Holds(qq, b) /\ n = qq.band[b].buf.id
    \/ \E i \in DOMAIN qq.stage[b] : n = qq.stage[b][i].id

\* A band holds its own frames, in the order they were offered.
LineOK ==
    /\ next > 0
    /\ \A b \in BandIds :
         /\ Holds(q, b) => q.band[b].buf.band = b /\ 0 < q.band[b].buf.id /\ q.band[b].buf.id < next
         /\ \A i \in DOMAIN q.stage[b] : /\ q.stage[b][i].band = b
                                         /\ q.band[b].buf.id < q.stage[b][i].id
                                         /\ q.stage[b][i].id < next
         /\ \A i, j \in DOMAIN q.stage[b] : i < j => q.stage[b][i].id < q.stage[b][j].id
    /\ \A n \in 1 .. next - 1 : ~ (InLine(q, n, "priority") /\ InLine(q, n, "bulk"))

\* The frame the reader is assembling was started once and will not be again.
ReaderOK ==
    reader.have > 0 =>
        /\ reader.frame \in Frames /\ reader.frame.id < next
        /\ \A b \in BandIds :
             /\ Holds(q, b) /\ q.band[b].buf.id = reader.frame.id => q.band[b].buf = reader.frame
             /\ \A i \in DOMAIN q.stage[b] : q.stage[b][i].id # reader.frame.id

\* What was handed on came before what its band still holds; the one overlap is
\* the frame whose last report was written and not yet credited.
DeliverOK ==
    /\ delivered \in Seq(Frames)
    /\ \A i, j \in DOMAIN delivered :
         i < j /\ delivered[i].band = delivered[j].band => delivered[i].id < delivered[j].id
    /\ \A i \in DOMAIN delivered :
         /\ delivered[i].id < next
         /\ \A b \in BandIds : Holds(q, b) /\ delivered[i].band = b =>
              \/ delivered[i].id < q.band[b].buf.id
              \/ /\ delivered[i].id = q.band[b].buf.id
                 /\ Written(b) = q.band[b].buf.len

Handed == {delivered[i].id : i \in DOMAIN delivered}

\* While nothing was lost, the reader is where the writer is.
SyncOK ==
    lost = 0 => \A b \in BandIds : Written(b) > 0 =>
        \/ /\ Written(b) < q.band[b].buf.len
           /\ reader.frame = q.band[b].buf /\ reader.have = Written(b) /\ ~ reader.broken
        \/ Written(b) = q.band[b].buf.len /\ q.band[b].buf.id \in Handed

Accounted == lost = 0 => 1 .. (next - 1) \subseteq Handed \cup Queued \cup discarded \cup refused

OrderInv == LineOK /\ ReaderOK /\ DeliverOK
CountInv == SyncOK /\ Accounted

\* A bulk frame that started ahead of a waiting priority frame is the only one.
OvertakeInv ==
    /\ overtaken \in {0, 1}
    /\ overtaken = 1 => /\ Holds(q, "priority")
                        /\ pump = "peeked" /\ view.band = "bulk" => view.at > 0

\* The second of a pair waits directly behind its first, or is the next frame
\* to start after it.
PairInv ==
    /\ \A n \in seconds : n \in Nat /\ 0 < n /\ n < next /\ ~ InLine(q, n, "bulk")
    /\ \A b \in BandIds : Written(b) > 0 => onWire = q.band[b].buf
    /\ \A i \in DOMAIN q.stage["priority"] :
         q.stage["priority"][i].id \in seconds =>
           i = 1 /\ q.band["priority"].buf.id = q.stage["priority"][i].id - 1
    /\ Holds(q, "priority") /\ q.band["priority"].buf.id \in seconds =>
         /\ pump # "idle" => view.band = "priority"
         /\ q.band["bulk"].sent = 0
         /\ Written("priority") = 0 => onWire.id = q.band["priority"].buf.id - 1

-----------------------------------------------------------------------------
(* What the calls do to the bands and the rings. *)

LEMMA OfferEffect ==
  ASSUME NEW qq, QueueOK(qq), NEW f \in Frames
  PROVE  LET rr == dh_outq_offer(qq, f) IN
         /\ ~ Admits(qq, f) => rr.band = qq.band /\ rr.stage = qq.stage
         /\ Admits(qq, f) /\ Holds(qq, f.band) =>
              rr.band = qq.band /\ rr.stage = [qq.stage EXCEPT ![f.band] = Append(@, f)]
         /\ Admits(qq, f) /\ ~ Holds(qq, f.band) =>
              rr.band = [qq.band EXCEPT ![f.band] = Load(f)] /\ rr.stage = qq.stage
  BY DEF dh_outq_offer, Admits, refuse, QueueOK, Queues

LEMMA PairEffect ==
  ASSUME NEW qq, QueueOK(qq), NEW f \in Frames, NEW g \in Frames
  PROVE  LET rr == dh_outq_offer_pair(qq, f, g) IN
         /\ ~ AdmitsPair(qq, f, g) => rr.band = qq.band /\ rr.stage = qq.stage
         /\ AdmitsPair(qq, f, g) =>
              /\ rr.band = [qq.band EXCEPT !["priority"] = Load(f)]
              /\ rr.stage = [qq.stage EXCEPT !["priority"] = <<g>>]
              /\ f.band = "priority" /\ g.band = "priority" /\ ~ Holds(qq, "priority")
              /\ qq.stage["priority"] = <<>> /\ qq.band["bulk"].sent = 0
  <1>1. f.band \in BandIds /\ g.band \in BandIds
    BY DEF Frames
  <1>2. ~ AdmitsPair(qq, f, g) =>
          /\ dh_outq_offer_pair(qq, f, g).band = qq.band
          /\ dh_outq_offer_pair(qq, f, g).stage = qq.stage
    BY DEF dh_outq_offer_pair, AdmitsPair, refuse, QueueOK, Queues
  <1>3. AdmitsPair(qq, f, g) =>
          /\ dh_outq_offer_pair(qq, f, g).band = [qq.band EXCEPT !["priority"] = Load(f)]
          /\ dh_outq_offer_pair(qq, f, g).stage = [qq.stage EXCEPT !["priority"] = <<g>>]
    BY DEF dh_outq_offer_pair, AdmitsPair, QueueOK, Queues
  <1>4. AdmitsPair(qq, f, g) => /\ f.band = "priority" /\ g.band = "priority"
                                /\ ~ Holds(qq, "priority") /\ ~ band_in_flight(qq.band["bulk"])
    BY <1>1 DEF AdmitsPair, PairHasNoRoom, dh_outq_pair_busy, BandIds
  <1>5. ~ band_in_flight(qq.band["bulk"]) => qq.band["bulk"].sent = 0
    BY InFlightIsSent DEF BandIds
  <1>6. ~ Holds(qq, "priority") => qq.stage["priority"] = <<>>
    BY DEF QueueOK, BandIds
  <1>7. QED
    BY <1>2, <1>3, <1>4, <1>5, <1>6

\* Whether crediting one more unit finishes the frame in band b.
Ends(qq, b) == qq.band[b].sent + 1 = qq.band[b].buf.len

LEMMA AdvanceEffect ==
  ASSUME NEW qq, QueueOK(qq), NEW v, v.band \in BandIds, Holds(qq, v.band)
  PROVE  LET rr == dh_outq_advance(qq, v) IN
         /\ ~ Ends(qq, v.band) =>
              rr.band = [qq.band EXCEPT ![v.band].sent = @ + 1] /\ rr.stage = qq.stage
         /\ Ends(qq, v.band) /\ qq.stage[v.band] = <<>> =>
              rr.band = [qq.band EXCEPT ![v.band] = band_clear] /\ rr.stage = qq.stage
         /\ Ends(qq, v.band) /\ qq.stage[v.band] # <<>> =>
              /\ rr.band = [qq.band EXCEPT ![v.band] = Load(Head(qq.stage[v.band]))]
              /\ rr.stage = [qq.stage EXCEPT ![v.band] = Tail(@)]
  <1>1. qq.band[v.band] \in Bands
    BY DEF QueueOK, Queues
  <1>2. qq.band[v.band].sent \in Nat /\ qq.band[v.band].buf.len \in Nat
        /\ qq.band[v.band].sent < qq.band[v.band].buf.len
    BY <1>1, BandTypes DEF QueueOK
  <1>3. Ends(qq, v.band) <=> ~ (qq.band[v.band].sent + 1 < qq.band[v.band].buf.len)
    BY <1>2 DEF Ends
  <1>4. CASE ~ Ends(qq, v.band)
    BY <1>3, <1>4 DEF dh_outq_advance, QueueOK, Queues
  <1>5. CASE Ends(qq, v.band)
    BY <1>3, <1>5 DEF dh_outq_advance, promote, QueueOK, Queues
  <1>6. QED
    BY <1>4, <1>5

\* A frame of band c with an id handed out in this step.
Fresh(f, c, n, m) == f \in Frames /\ f.band = c /\ n <= f.id /\ f.id < m

\* Only band c grew, at its end, by frames just offered.
Grows(qq, rr, c, n, m) ==
    /\ \A b \in BandIds : b # c => rr.band[b] = qq.band[b] /\ rr.stage[b] = qq.stage[b]
    /\ \/ rr.band[c] = qq.band[c]
       \/ ~ Holds(qq, c) /\ rr.band[c].sent = 0 /\ Fresh(rr.band[c].buf, c, n, m)
    /\ \/ rr.stage[c] = qq.stage[c]
       \/ \E g \in Frames : /\ Fresh(g, c, n, m) /\ rr.stage[c] = Append(qq.stage[c], g)
                            /\ Holds(rr, c) /\ rr.band[c].buf.id < g.id

LEMMA OfferGrows ==
  ASSUME SeamInv, LineOK, NEW k \in FrameKinds, Offer(k)
  PROVE  \E c \in BandIds : Grows(q, q', c, next, next')
  <1> DEFINE f == FrameOf(k, next)
  <1>1. next \in Nat /\ next' = next + 1 /\ q' = dh_outq_offer(q, f) /\ QueueOK(q)
    BY DEF SeamInv, TypeOK, Offer
  <1>2. f \in Frames
    BY <1>1, FrameOfType
  <1>3. f.id = next
    BY DEF FrameOf
  <1>4. f.band \in BandIds
    BY <1>2 DEF Frames
  <1>5. Fresh(f, f.band, next, next')
    BY <1>1, <1>2, <1>3 DEF Fresh
  <1> HIDE DEF f
  <1>6. q.band \in [BandIds -> Bands] /\ q.stage \in [BandIds -> Seq(Frames)]
    BY <1>1 DEF QueueOK, Queues
  <1>7. CASE ~ Admits(q, f)
    <2>1. q'.band = q.band /\ q'.stage = q.stage
      BY <1>1, <1>2, <1>7, OfferEffect
    <2>2. QED
      BY <1>4, <2>1 DEF Grows
  <1>8. CASE Admits(q, f) /\ Holds(q, f.band)
    <2>1. q'.band = q.band /\ q'.stage = [q.stage EXCEPT ![f.band] = Append(@, f)]
      BY <1>1, <1>2, <1>8, OfferEffect
    <2>2. q.band[f.band].buf.id < f.id
      BY <1>3, <1>4, <1>8 DEF LineOK
    <2>3. q'.stage[f.band] = Append(q.stage[f.band], f) /\ Holds(q', f.band)
          /\ \A b \in BandIds : b # f.band => q'.stage[b] = q.stage[b]
      BY <1>4, <1>6, <1>8, <2>1 DEF Holds
    <2>4. Grows(q, q', f.band, next, next')
      BY <1>2, <1>4, <1>5, <2>1, <2>2, <2>3 DEF Grows
    <2>5. QED
      BY <1>4, <2>4
  <1>9. CASE Admits(q, f) /\ ~ Holds(q, f.band)
    <2>1. q'.band = [q.band EXCEPT ![f.band] = Load(f)] /\ q'.stage = q.stage
      BY <1>1, <1>2, <1>9, OfferEffect
    <2>2. q'.band[f.band] = Load(f) /\ \A b \in BandIds : b # f.band => q'.band[b] = q.band[b]
      BY <1>4, <1>6, <2>1
    <2>3. q'.band[f.band].sent = 0 /\ q'.band[f.band].buf = f
      BY <2>2 DEF Load
    <2>4. Grows(q, q', f.band, next, next')
      BY <1>4, <1>5, <1>9, <2>1, <2>2, <2>3 DEF Grows
    <2>5. QED
      BY <1>4, <2>4
  <1>10. QED
    BY <1>7, <1>8, <1>9

LEMMA PairGrows ==
  ASSUME SeamInv, NEW k \in FrameKinds, NEW l \in FrameKinds, OfferPair(k, l)
  PROVE  Grows(q, q', "priority", next, next')
  <1> DEFINE f == FrameOf(k, next)
             g == FrameOf(l, next + 1)
  <1>1. next \in Nat /\ next' = next + 2 /\ q' = dh_outq_offer_pair(q, f, g) /\ QueueOK(q)
    BY DEF SeamInv, TypeOK, OfferPair
  <1>2. f \in Frames /\ g \in Frames
    BY <1>1, FrameOfType
  <1>3. f.id = next /\ g.id = next + 1
    BY DEF FrameOf
  <1> HIDE DEF f, g
  <1>4. q.band \in [BandIds -> Bands] /\ q.stage \in [BandIds -> Seq(Frames)]
    BY <1>1 DEF QueueOK, Queues
  <1>5. CASE ~ AdmitsPair(q, f, g)
    BY <1>1, <1>2, <1>5, PairEffect DEF Grows
  <1>6. CASE AdmitsPair(q, f, g)
    <2>1. /\ q'.band = [q.band EXCEPT !["priority"] = Load(f)]
          /\ q'.stage = [q.stage EXCEPT !["priority"] = <<g>>]
          /\ f.band = "priority" /\ g.band = "priority" /\ ~ Holds(q, "priority")
          /\ q.stage["priority"] = <<>>
      BY <1>1, <1>2, <1>6, PairEffect
    <2>2. Fresh(f, "priority", next, next') /\ Fresh(g, "priority", next, next')
      BY <1>1, <1>2, <1>3, <2>1 DEF Fresh
    <2>3. /\ q'.band["priority"] = Load(f) /\ q'.stage["priority"] = <<g>>
          /\ \A b \in BandIds : b # "priority" => q'.band[b] = q.band[b] /\ q'.stage[b] = q.stage[b]
      BY <1>4, <2>1 DEF BandIds
    <2>4. q'.band["priority"].sent = 0 /\ q'.band["priority"].buf = f
      BY <2>3 DEF Load
    <2>5. Append(q.stage["priority"], g) = <<g>>
      BY <2>1
    <2>6. Holds(q', "priority")
      BY <1>2, <2>4 DEF Holds, Frames
    <2>7. q'.band["priority"].buf.id < g.id
      BY <1>1, <1>3, <2>4
    <2>8. QED
      BY <1>2, <2>1, <2>2, <2>3, <2>4, <2>5, <2>6, <2>7 DEF Grows
  <1>7. QED
    BY <1>5, <1>6

(* The fields of a band and its ring. *)
LEMMA QueueTypes ==
  ASSUME NEW qq, QueueOK(qq), NEW b \in BandIds
  PROVE  /\ qq.band[b].buf.id \in Nat /\ qq.band[b].buf.len \in Nat /\ qq.band[b].sent \in Nat
         /\ Holds(qq, b) => qq.band[b].buf \in Frames
         /\ ~ Holds(qq, b) => qq.stage[b] = <<>> /\ qq.band[b].sent = 0
         /\ qq.stage[b] \in Seq(Frames)
         /\ \A i \in DOMAIN qq.stage[b] : qq.stage[b][i] \in Frames /\ qq.stage[b][i].id \in Nat
  <1>1. qq.band[b] \in Bands /\ qq.stage[b] \in Seq(Frames)
    BY DEF QueueOK, Queues
  <1>2. qq.band[b].buf \in Frames \cup {NoFrame} /\ qq.band[b].buf.len \in Nat /\ qq.band[b].sent \in Nat
    BY <1>1, BandTypes
  <1>3. qq.band[b].buf.id \in Nat
    BY <1>2 DEF Frames, NoFrame
  <1>4. Holds(qq, b) => qq.band[b].buf \in Frames
    BY <1>2, NoFrameEmpty DEF Holds
  <1>5. \A i \in DOMAIN qq.stage[b] : qq.stage[b][i] \in Frames
    BY <1>1
  <1>6. \A g \in Frames : g.id \in Nat
    BY DEF Frames
  <1>7. ~ Holds(qq, b) => qq.stage[b] = <<>> /\ qq.band[b].sent = 0
    BY DEF QueueOK
  <1>8. QED
    BY <1>1, <1>2, <1>3, <1>4, <1>5, <1>6, <1>7

(* A ring after an append. *)
LEMMA AppendRing ==
  ASSUME NEW r \in Seq(Frames), NEW g \in Frames
  PROVE  /\ DOMAIN Append(r, g) = DOMAIN r \cup {Len(r) + 1}
         /\ \A i \in DOMAIN r : Append(r, g)[i] = r[i] /\ i < Len(r) + 1
         /\ Append(r, g)[Len(r) + 1] = g /\ Len(r) \in Nat /\ Len(r) + 1 \notin DOMAIN r
  OBVIOUS

(* What is in a band after it grew. *)
LEMMA GrownLine ==
  ASSUME SeamInv, QueueOK(q'), NEW c \in BandIds, NEW n, NEW m, Grows(q, q', c, n, m)
  PROVE  /\ \A b \in BandIds : Holds(q, b) => Holds(q', b) /\ q'.band[b] = q.band[b]
         /\ \A b \in BandIds : Holds(q', b) /\ ~ Holds(q, b) => b = c /\ Fresh(q'.band[b].buf, c, n, m)
         /\ \A b \in BandIds : \A i \in DOMAIN q'.stage[b] :
              \/ i \in DOMAIN q.stage[b] /\ q'.stage[b][i] = q.stage[b][i]
              \/ /\ b = c /\ i = Len(q.stage[b]) + 1 /\ Fresh(q'.stage[b][i], c, n, m)
                 /\ q'.band[b].buf.id < q'.stage[b][i].id
         /\ \A b \in BandIds : \A i \in DOMAIN q.stage[b] :
              i \in DOMAIN q'.stage[b] /\ q'.stage[b][i] = q.stage[b][i]
         /\ \A b \in BandIds : q'.band[b].sent = q.band[b].sent
  <1>1. QueueOK(q)
    BY DEF SeamInv
  <1>2. \A b \in BandIds : Holds(q, b) => Holds(q', b) /\ q'.band[b] = q.band[b]
    BY DEF Grows, Holds
  <1>3. \A b \in BandIds : Holds(q', b) /\ ~ Holds(q, b) => b = c /\ Fresh(q'.band[b].buf, c, n, m)
    BY DEF Grows, Holds
  <1>4. \A b \in BandIds : q'.band[b].sent = q.band[b].sent
    BY <1>1, QueueTypes DEF Grows
  <1>5. ASSUME NEW b \in BandIds
        PROVE  /\ \A i \in DOMAIN q'.stage[b] :
                    \/ i \in DOMAIN q.stage[b] /\ q'.stage[b][i] = q.stage[b][i]
                    \/ /\ b = c /\ i = Len(q.stage[b]) + 1 /\ Fresh(q'.stage[b][i], c, n, m)
                       /\ q'.band[b].buf.id < q'.stage[b][i].id
               /\ \A i \in DOMAIN q.stage[b] :
                    i \in DOMAIN q'.stage[b] /\ q'.stage[b][i] = q.stage[b][i]
    <2>1. CASE q'.stage[b] = q.stage[b]
      BY <2>1
    <2>2. CASE q'.stage[b] # q.stage[b]
      <3>1. b = c
        BY <2>2 DEF Grows
      <3>2. PICK g \in Frames : /\ Fresh(g, c, n, m) /\ q'.stage[c] = Append(q.stage[c], g)
                                /\ q'.band[c].buf.id < g.id
        BY <2>2, <3>1 DEF Grows
      <3>3. q.stage[b] \in Seq(Frames)
        BY <1>1, QueueTypes
      <3>4. /\ DOMAIN q'.stage[b] = DOMAIN q.stage[b] \cup {Len(q.stage[b]) + 1}
            /\ \A i \in DOMAIN q.stage[b] : q'.stage[b][i] = q.stage[b][i]
            /\ q'.stage[b][Len(q.stage[b]) + 1] = g
        BY <3>1, <3>2, <3>3, AppendRing
      <3>5. QED
        BY <3>1, <3>2, <3>4
    <2>3. QED
      BY <2>1, <2>2
  <1>6. QED
    BY <1>2, <1>3, <1>4, <1>5

(* Frames offered go to the end of their line. *)
LEMMA GrowKeepsLine ==
  ASSUME SeamInv, LineOK, QueueOK(q'), NEW c \in BandIds, Grows(q, q', c, next, next'),
         next' \in Nat, next <= next'
  PROVE  LineOK'
  <1>1. QueueOK(q) /\ next \in Nat
    BY DEF SeamInv, TypeOK
  <1>2. /\ \A b \in BandIds : Holds(q, b) => Holds(q', b) /\ q'.band[b] = q.band[b]
        /\ \A b \in BandIds : Holds(q', b) /\ ~ Holds(q, b) =>
             b = c /\ Fresh(q'.band[b].buf, c, next, next')
        /\ \A b \in BandIds : \A i \in DOMAIN q'.stage[b] :
             \/ i \in DOMAIN q.stage[b] /\ q'.stage[b][i] = q.stage[b][i]
             \/ /\ b = c /\ i = Len(q.stage[b]) + 1 /\ Fresh(q'.stage[b][i], c, next, next')
                /\ q'.band[b].buf.id < q'.stage[b][i].id
    BY GrownLine
  <1>3. ASSUME NEW b \in BandIds, Holds(q', b)
        PROVE  q'.band[b].buf.band = b /\ 0 < q'.band[b].buf.id /\ q'.band[b].buf.id < next'
    <2>1. q'.band[b].buf.id \in Nat
      BY <1>3, QueueTypes
    <2>2. CASE Holds(q, b)
      <3>1. q.band[b].buf.band = b /\ 0 < q.band[b].buf.id /\ q.band[b].buf.id < next
        BY <2>2 DEF LineOK
      <3>2. QED
        BY <1>1, <1>2, <2>1, <2>2, <3>1
    <2>3. CASE ~ Holds(q, b)
      <3>1. next > 0
        BY DEF LineOK
      <3>2. QED
        BY <1>1, <1>2, <1>3, <2>1, <2>3, <3>1 DEF Fresh
    <2>4. QED
      BY <2>2, <2>3
  <1>4. ASSUME NEW b \in BandIds, NEW i \in DOMAIN q'.stage[b]
        PROVE  /\ q'.stage[b][i].band = b /\ q'.band[b].buf.id < q'.stage[b][i].id
               /\ q'.stage[b][i].id < next'
    <2>1. q'.stage[b][i].id \in Nat
      BY <1>4, QueueTypes
    <2>2. CASE i \in DOMAIN q.stage[b] /\ q'.stage[b][i] = q.stage[b][i]
      <3>1. q.stage[b][i].band = b /\ q.band[b].buf.id < q.stage[b][i].id /\ q.stage[b][i].id < next
        BY <2>2 DEF LineOK
      <3>2. Holds(q, b)
        BY <1>1, <2>2, QueueTypes
      <3>3. QED
        BY <1>1, <1>2, <2>1, <2>2, <3>1, <3>2
    <2>3. CASE b = c /\ Fresh(q'.stage[b][i], c, next, next') /\ q'.band[b].buf.id < q'.stage[b][i].id
      BY <2>3 DEF Fresh
    <2>4. QED
      BY <1>2, <1>4, <2>2, <2>3
  <1>5. ASSUME NEW b \in BandIds, NEW i \in DOMAIN q'.stage[b], NEW j \in DOMAIN q'.stage[b], i < j
        PROVE  q'.stage[b][i].id < q'.stage[b][j].id
    <2>0. q.stage[b] \in Seq(Frames) /\ q'.stage[b] \in Seq(Frames)
      BY <1>1, QueueTypes
    <2>1. \A x \in DOMAIN q.stage[b] : x < Len(q.stage[b]) + 1
      BY <2>0
    <2>i. i \in Nat /\ j \in Nat /\ Len(q.stage[b]) \in Nat
      BY <2>0
    <2>2. i \in DOMAIN q.stage[b] /\ q'.stage[b][i] = q.stage[b][i]
      <3>1. CASE i = Len(q.stage[b]) + 1
        <4>1. j > Len(q.stage[b]) + 1
          BY <1>5, <2>i, <3>1
        <4>2. j \notin DOMAIN q.stage[b] /\ j # Len(q.stage[b]) + 1
          BY <2>1, <2>i, <4>1
        <4>3. QED
          BY <1>2, <4>2
      <3>2. QED
        BY <1>2, <3>1
    <2>3. CASE j \in DOMAIN q.stage[b] /\ q'.stage[b][j] = q.stage[b][j]
      BY <1>5, <2>2, <2>3 DEF LineOK
    <2>4. CASE Fresh(q'.stage[b][j], c, next, next')
      <3>1. q.stage[b][i].id < next /\ q.stage[b][i].id \in Nat /\ q'.stage[b][j].id \in Nat
        BY <1>1, <2>2, QueueTypes DEF LineOK
      <3>2. QED
        BY <1>1, <2>2, <2>4, <3>1 DEF Fresh
    <2>5. QED
      BY <1>2, <2>3, <2>4
  <1>6. ASSUME NEW n \in 1 .. next' - 1
        PROVE  ~ (InLine(q', n, "priority") /\ InLine(q', n, "bulk"))
    <2>1. ASSUME NEW b \in BandIds, InLine(q', n, b)
          PROVE  InLine(q, n, b) \/ (b = c /\ n >= next)
      <3>1. CASE Holds(q', b) /\ n = q'.band[b].buf.id
        BY <1>2, <3>1 DEF InLine, Fresh
      <3>2. CASE \E i \in DOMAIN q'.stage[b] : n = q'.stage[b][i].id
        BY <1>2, <3>2 DEF InLine, Fresh
      <3>3. QED
        BY <2>1, <3>1, <3>2 DEF InLine
    <2>2. ASSUME NEW b \in BandIds, InLine(q, n, b)
          PROVE  n < next
      BY <2>2 DEF InLine, LineOK
    <2>3. n \in Nat /\ n >= 1
      BY <1>6
    <2>4. ~ (InLine(q, n, "priority") /\ InLine(q, n, "bulk"))
      <3>1. CASE n < next
        <4>1. n \in 1 .. next - 1
          BY <1>1, <2>3, <3>1
        <4>2. QED
          BY <4>1 DEF LineOK
      <3>2. CASE ~ (n < next)
        BY <2>2, <3>2 DEF BandIds
      <3>3. QED
        BY <3>1, <3>2
    <2>5. "priority" \in BandIds /\ "bulk" \in BandIds /\ "priority" # "bulk"
      BY DEF BandIds
    <2>6. SUFFICES ASSUME InLine(q', n, "priority"), InLine(q', n, "bulk") PROVE FALSE
      OBVIOUS
    <2>7. InLine(q, n, "priority") \/ (c = "priority" /\ n >= next)
      BY <2>1, <2>5, <2>6
    <2>8. InLine(q, n, "bulk") \/ (c = "bulk" /\ n >= next)
      BY <2>1, <2>5, <2>6
    <2>9. \A b \in BandIds : InLine(q, n, b) => ~ (n >= next)
      BY <1>1, <2>2, <2>3
    <2>10. QED
      BY <2>4, <2>5, <2>7, <2>8, <2>9
  <1>7. next' > 0
    BY <1>1 DEF LineOK
  <1>8. QED
    BY <1>3, <1>4, <1>5, <1>6, <1>7 DEF LineOK

LEMMA GrowKeepsOrder ==
  ASSUME SeamInv, OrderInv, QueueOK(q'), NEW c \in BandIds, Grows(q, q', c, next, next'),
         next' \in Nat, next <= next', UNCHANGED <<pump, view, reader, delivered>>
  PROVE  OrderInv'
  <1>1. QueueOK(q) /\ next \in Nat
    BY DEF SeamInv, TypeOK
  <1>2. LineOK'
    BY GrowKeepsLine DEF OrderInv
  <1>3. /\ \A b \in BandIds : Holds(q, b) => Holds(q', b) /\ q'.band[b] = q.band[b]
        /\ \A b \in BandIds : Holds(q', b) /\ ~ Holds(q, b) =>
             b = c /\ Fresh(q'.band[b].buf, c, next, next')
        /\ \A b \in BandIds : \A i \in DOMAIN q'.stage[b] :
             \/ i \in DOMAIN q.stage[b] /\ q'.stage[b][i] = q.stage[b][i]
             \/ Fresh(q'.stage[b][i], c, next, next')
        /\ \A b \in BandIds : q'.band[b].sent = q.band[b].sent
    BY GrownLine
  <1>4. ReaderOK'
    <2> SUFFICES ASSUME reader.have > 0
                 PROVE  /\ reader.frame \in Frames /\ reader.frame.id < next'
                        /\ \A b \in BandIds :
                             /\ Holds(q', b) /\ q'.band[b].buf.id = reader.frame.id =>
                                  q'.band[b].buf = reader.frame
                             /\ \A i \in DOMAIN q'.stage[b] : q'.stage[b][i].id # reader.frame.id
      BY DEF ReaderOK
    <2>1. reader.frame \in Frames /\ reader.frame.id < next /\ reader.frame.id \in Nat
      BY DEF OrderInv, ReaderOK, Frames
    <2>2. reader.frame.id < next'
      BY <1>1, <2>1
    <2>3. \A f : Fresh(f, c, next, next') => f.id # reader.frame.id
      BY <1>1, <2>1 DEF Fresh, Frames
    <2>4. ASSUME NEW b \in BandIds
          PROVE  /\ Holds(q', b) /\ q'.band[b].buf.id = reader.frame.id =>
                      q'.band[b].buf = reader.frame
                 /\ \A i \in DOMAIN q'.stage[b] : q'.stage[b][i].id # reader.frame.id
      BY <1>3, <2>3 DEF OrderInv, ReaderOK
    <2>5. QED
      BY <2>1, <2>2, <2>4
  <1>5. DeliverOK'
    <2>1. \A b \in BandIds : Written(b)' = Written(b)
      BY <1>3 DEF Written
    <2>2. ASSUME NEW i \in DOMAIN delivered
          PROVE  /\ delivered[i].id < next'
                 /\ \A b \in BandIds : Holds(q', b) /\ delivered[i].band = b =>
                      \/ delivered[i].id < q'.band[b].buf.id
                      \/ delivered[i].id = q'.band[b].buf.id /\ Written(b)' = q'.band[b].buf.len
      <3>1. delivered[i].id < next /\ delivered[i] \in Frames
        BY DEF OrderInv, DeliverOK
      <3>2. delivered[i].id \in Nat
        BY <3>1 DEF Frames
      <3>3. delivered[i].id < next'
        BY <1>1, <3>1, <3>2
      <3>4. ASSUME NEW b \in BandIds, Holds(q', b), delivered[i].band = b
            PROVE  \/ delivered[i].id < q'.band[b].buf.id
                   \/ delivered[i].id = q'.band[b].buf.id /\ Written(b)' = q'.band[b].buf.len
        <4>1. CASE Holds(q, b)
          BY <1>3, <2>1, <3>4, <4>1 DEF OrderInv, DeliverOK
        <4>2. CASE ~ Holds(q, b)
          <5>1. next <= q'.band[b].buf.id /\ q'.band[b].buf.id \in Nat
            BY <1>3, <3>4, <4>2, QueueTypes DEF Fresh
          <5>2. QED
            BY <1>1, <3>1, <3>2, <5>1
        <4>3. QED
          BY <4>1, <4>2
      <3>5. QED
        BY <3>3, <3>4
    <2>3. delivered' = delivered
      OBVIOUS
    <2>4. QED
      BY <2>2, <2>3 DEF OrderInv, DeliverOK
  <1>6. QED
    BY <1>2, <1>4, <1>5 DEF OrderInv

(* A piece of the pump that moves nothing between the queue and the reader. *)
LEMMA StillKeepsOrder ==
  ASSUME SeamInv, OrderInv, UNCHANGED <<q, reader, next, delivered>>,
         \A b \in BandIds : Written(b)' = Written(b) \/ Written(b) # q.band[b].buf.len
  PROVE  OrderInv'
  <1>1. LineOK' /\ ReaderOK'
    BY DEF OrderInv, LineOK, ReaderOK, InLine
  <1>2. DeliverOK'
    BY DEF OrderInv, DeliverOK
  <1>3. QED
    BY <1>1, <1>2 DEF OrderInv

(* A frame handed on intact is the one in flight, whole. *)
LEMMA HandsOn ==
  ASSUME SeamInv, ReaderOK, pump = "peeked", Judges(reader, view), ~ Filled(reader, view).broken
  PROVE  Filled(reader, view).frame = view.frame /\ view.at + 1 = view.frame.len
  <1> DEFINE f == Filled(reader, view)
             R == [frame : Frames \cup {NoFrame}, have : Nat, broken : BOOLEAN, resyncs : Nat]
  <1>1. /\ view.band \in BandIds /\ view.frame \in Frames /\ view.at \in Nat
        /\ view.frame = q.band[view.band].buf
    BY PeekedReport
  <1>2. reader \in R
    BY DEF SeamInv, TypeOK
  <1>3. ~ Orphan(reader, view) /\ f.have = f.frame.len
    BY DEF Judges, Completes
  <1>4. CASE Starts(view)
    <2>1. f.frame = view.frame /\ f.have = 1
      BY <1>1, <1>2, <1>4, ReaderTypes
    <2>2. QED
      BY <1>3, <1>4, <2>1 DEF Starts
  <1>5. CASE ~ Starts(view)
    <2>1. /\ f.frame = reader.frame /\ f.have = reader.have + 1
          /\ f.broken = (reader.broken \/ view.frame.id # reader.frame.id \/ view.at # reader.have)
      BY <1>1, <1>2, <1>5, ReaderTypes
    <2>2. view.frame.id = reader.frame.id /\ view.at = reader.have
      BY <2>1
    <2>3. reader.have > 0
      BY <1>2, <1>3, <1>5 DEF Orphan
    <2>4. Holds(q, view.band)
      BY DEF SeamInv, ViewFresh
    <2>5. view.frame = reader.frame
      BY <1>1, <2>2, <2>3, <2>4 DEF ReaderOK
    <2>6. QED
      BY <1>3, <2>1, <2>2, <2>5
  <1>6. QED
    BY <1>4, <1>5

(* A start gives the reader a frame no other place in the queue holds. *)
LEMMA StartedOnce ==
  ASSUME SeamInv, LineOK, pump = "peeked"
  PROVE  /\ view.frame.id \in 1 .. next - 1 /\ view.frame.band = view.band
         /\ \A b \in BandIds :
              /\ Holds(q, b) /\ q.band[b].buf.id = view.frame.id => q.band[b].buf = view.frame
              /\ \A i \in DOMAIN q.stage[b] : q.stage[b][i].id # view.frame.id
  <1>1. /\ view.band \in BandIds /\ view.frame \in Frames /\ view.frame = q.band[view.band].buf
        /\ Holds(q, view.band) /\ next \in Nat /\ QueueOK(q)
    BY PeekedReport DEF SeamInv, ViewFresh, TypeOK
  <1>2. view.frame.id \in Nat
    BY <1>1 DEF Frames
  <1>3. view.frame.band = view.band /\ 0 < view.frame.id /\ view.frame.id < next
    BY <1>1 DEF LineOK
  <1>4. view.frame.id \in 1 .. next - 1
    BY <1>1, <1>2, <1>3
  <1>5. InLine(q, view.frame.id, view.band)
    BY <1>1 DEF InLine
  <1>6. ASSUME NEW b \in BandIds, b # view.band
        PROVE  ~ InLine(q, view.frame.id, b)
    <2>1. ~ (InLine(q, view.frame.id, "priority") /\ InLine(q, view.frame.id, "bulk"))
      BY <1>4 DEF LineOK
    <2>2. QED
      BY <1>1, <1>5, <1>6, <2>1 DEF BandIds
  <1>7. ASSUME NEW i \in DOMAIN q.stage[view.band]
        PROVE  q.stage[view.band][i].id # view.frame.id
    <2>1. q.band[view.band].buf.id < q.stage[view.band][i].id
      BY <1>1 DEF LineOK
    <2>2. QED
      BY <1>1, <1>2, <2>1
  <1>8. ASSUME NEW b \in BandIds
        PROVE  /\ Holds(q, b) /\ q.band[b].buf.id = view.frame.id => q.band[b].buf = view.frame
               /\ \A i \in DOMAIN q.stage[b] : q.stage[b][i].id # view.frame.id
    <2>1. CASE b = view.band
      BY <1>1, <1>7, <2>1
    <2>2. CASE b # view.band
      BY <1>6, <2>2 DEF InLine
    <2>3. QED
      BY <2>1, <2>2
  <1>9. QED
    BY <1>3, <1>4, <1>8

(* What a written report does to the reader and to what was handed on. *)
LEMMA WriteEffect ==
  ASSUME SeamInv, ReaderOK, PumpWrite
  PROVE  LET f == Filled(reader, view) IN
         /\ pump = "peeked" /\ pump' = "written" /\ UNCHANGED <<q, view, next, lost>>
         /\ UNCHANGED <<discarded, refused, seconds>>
         /\ reader'.have = 0
            \/ (~ Orphan(reader, view) /\ ~ Completes(reader, view) /\ reader' = f)
         /\ \/ delivered' = delivered /\ (Judges(reader, view) => f.broken)
            \/ /\ delivered' = Append(delivered, view.frame) /\ Judges(reader, view)
               /\ ~ f.broken /\ view.at + 1 = view.frame.len
         /\ \A b \in BandIds : b # view.band => Written(b)' = Written(b) /\ Written(b) = 0
         /\ Written(view.band) = view.at /\ Written(view.band)' = view.at + 1
  <1> DEFINE f == Filled(reader, view)
  <1>1. /\ pump = "peeked" /\ pump' = "written" /\ UNCHANGED <<q, view, next, lost>>
        /\ UNCHANGED <<discarded, refused, seconds>>
        /\ reader' = dh_frame_reader_report(reader, view)
    BY DEF PumpWrite
  <1>2. /\ view.band \in BandIds /\ view.frame \in Frames /\ view.at \in Nat
        /\ view.at = q.band[view.band].sent
        /\ Written(view.band) = view.at /\ \A b \in BandIds : b # view.band => Written(b) = 0
    BY <1>1, PeekedReport
  <1>3. reader'.have = 0
        \/ (~ Orphan(reader, view) /\ ~ Completes(reader, view) /\ reader' = f)
    BY <1>1, <1>2, ReaderTypes DEF SeamInv, TypeOK
  <1>4. Written(view.band)' = view.at + 1
        /\ \A b \in BandIds : b # view.band => Written(b)' = Written(b)
    BY <1>1, <1>2 DEF Written
  <1>5. \/ delivered' = delivered /\ (Judges(reader, view) => f.broken)
        \/ /\ delivered' = Append(delivered, view.frame) /\ Judges(reader, view)
           /\ ~ f.broken /\ view.at + 1 = view.frame.len
    <2>1. CASE Judges(reader, view) /\ ~ f.broken
      <3>1. delivered' = Append(delivered, f.frame)
        BY <2>1 DEF PumpWrite
      <3>2. f.frame = view.frame /\ view.at + 1 = view.frame.len
        BY <1>1, <2>1, HandsOn
      <3>3. QED
        BY <2>1, <3>1, <3>2
    <2>2. CASE ~ (Judges(reader, view) /\ ~ f.broken)
      BY <2>2 DEF PumpWrite
    <2>3. QED
      BY <2>1, <2>2
  <1>6. QED
    BY <1>1, <1>2, <1>3, <1>4, <1>5

(* The sequence of frames handed on, after one more. *)
LEMMA AppendHanded ==
  ASSUME NEW r \in Seq(Frames), NEW g \in Frames
  PROVE  /\ Append(r, g) \in Seq(Frames)
         /\ \A i \in DOMAIN Append(r, g) : \/ i \in DOMAIN r /\ Append(r, g)[i] = r[i]
                                           \/ i = Len(r) + 1 /\ Append(r, g)[i] = g
         /\ \A i \in DOMAIN r : i \in DOMAIN Append(r, g) /\ Append(r, g)[i] = r[i]
         /\ Len(r) + 1 \in DOMAIN Append(r, g) /\ Append(r, g)[Len(r) + 1] = g
         /\ Len(r) \in Nat /\ DOMAIN r = 1 .. Len(r) /\ DOMAIN Append(r, g) = 1 .. Len(r) + 1
  OBVIOUS

LEMMA WriteKeepsOrder ==
  ASSUME SeamInv, OrderInv, PumpWrite
  PROVE  OrderInv'
  <1> DEFINE f == Filled(reader, view)
             R == [frame : Frames \cup {NoFrame}, have : Nat, broken : BOOLEAN, resyncs : Nat]
  <1>1. /\ pump = "peeked" /\ pump' = "written" /\ UNCHANGED <<q, view, next>>
        /\ reader'.have = 0
           \/ (~ Orphan(reader, view) /\ reader' = f)
        /\ delivered' = delivered
           \/ (delivered' = Append(delivered, view.frame) /\ view.at + 1 = view.frame.len)
        /\ \A b \in BandIds : b # view.band => Written(b)' = Written(b)
        /\ Written(view.band) = view.at /\ Written(view.band)' = view.at + 1
    BY WriteEffect DEF OrderInv
  <1>2. /\ view.band \in BandIds /\ view.frame \in Frames /\ view.at \in Nat /\ reader \in R
        /\ view.frame = q.band[view.band].buf /\ view.at < view.frame.len
    BY <1>1, PeekedReport DEF SeamInv, TypeOK
  <1>3. LineOK'
    BY <1>1 DEF OrderInv, LineOK, InLine
  <1>4. ReaderOK'
    <2> SUFFICES ASSUME reader'.have > 0 PROVE ReaderOK'
      BY DEF ReaderOK
    <2>1. ~ Orphan(reader, view) /\ reader' = f
      BY <1>1
    <2>2. CASE Starts(view)
      <3>1. reader'.frame = view.frame
        BY <1>2, <2>1, <2>2, ReaderTypes
      <3>2. view.frame.id < next
        BY <1>1, <1>2, StartedOnce DEF OrderInv, SeamInv, TypeOK
      <3>3. QED
        BY <1>1, <1>2, <3>1, <3>2, StartedOnce DEF OrderInv, ReaderOK
    <2>3. CASE ~ Starts(view)
      <3>1. reader'.frame = reader.frame
        BY <1>2, <2>1, <2>3, ReaderTypes
      <3>2. reader.have > 0
        BY <1>2, <2>1, <2>3 DEF Orphan
      <3>3. QED
        BY <1>1, <3>1, <3>2 DEF OrderInv, ReaderOK
    <2>4. QED
      BY <2>2, <2>3
  <1>5. DeliverOK'
    <2>1. view.frame.band = view.band /\ view.frame.id < next /\ view.frame.id \in Nat
      BY <1>1, <1>2, StartedOnce DEF OrderInv, SeamInv, TypeOK, Frames
    <2>2. Holds(q, view.band) /\ view.frame.len \in Nat
      BY <1>1, <1>2 DEF SeamInv, ViewFresh, Frames
    <2>3. \A i \in DOMAIN delivered : delivered[i].band = view.band => delivered[i].id < view.frame.id
      <3>1. Written(view.band) # view.frame.len
        BY <1>1, <1>2, <2>2
      <3>2. QED
        BY <1>2, <2>2, <3>1 DEF OrderInv, DeliverOK
    <2>4. CASE delivered' = delivered
      <3>1. ASSUME NEW i \in DOMAIN delivered, NEW b \in BandIds, Holds(q, b), delivered[i].band = b
            PROVE  \/ delivered[i].id < q.band[b].buf.id
                   \/ delivered[i].id = q.band[b].buf.id /\ Written(b)' = q.band[b].buf.len
        BY <1>1, <1>2, <2>3, <3>1 DEF OrderInv, DeliverOK
      <3>2. QED
        BY <1>1, <2>4, <3>1 DEF OrderInv, DeliverOK
    <2>5. CASE delivered' = Append(delivered, view.frame) /\ view.at + 1 = view.frame.len
      <3>1. delivered \in Seq(Frames)
        BY DEF OrderInv, DeliverOK
      <3>2. /\ delivered' \in Seq(Frames)
            /\ \A i \in DOMAIN delivered' :
                 \/ i \in DOMAIN delivered /\ delivered'[i] = delivered[i]
                 \/ i = Len(delivered) + 1 /\ delivered'[i] = view.frame
            /\ \A i \in DOMAIN delivered : i < Len(delivered) + 1
            /\ \A i \in DOMAIN delivered' : i \in Nat /\ i <= Len(delivered) + 1
            /\ Len(delivered) \in Nat
        BY <1>2, <2>5, <3>1, AppendHanded
      <3>3. ASSUME NEW i \in DOMAIN delivered', NEW j \in DOMAIN delivered', i < j,
                   delivered'[i].band = delivered'[j].band
            PROVE  delivered'[i].id < delivered'[j].id
        <4>1. i \in DOMAIN delivered /\ delivered'[i] = delivered[i]
          BY <3>2, <3>3
        <4>2. CASE j \in DOMAIN delivered /\ delivered'[j] = delivered[j]
          BY <3>3, <4>1, <4>2 DEF OrderInv, DeliverOK
        <4>3. CASE delivered'[j] = view.frame
          BY <2>1, <2>3, <3>3, <4>1, <4>3
        <4>4. QED
          BY <3>2, <4>2, <4>3
      <3>4. ASSUME NEW i \in DOMAIN delivered'
            PROVE  /\ delivered'[i].id < next
                   /\ \A b \in BandIds : Holds(q, b) /\ delivered'[i].band = b =>
                        \/ delivered'[i].id < q.band[b].buf.id
                        \/ delivered'[i].id = q.band[b].buf.id /\ Written(b)' = q.band[b].buf.len
        <4>1. CASE i \in DOMAIN delivered /\ delivered'[i] = delivered[i]
          BY <1>1, <1>2, <2>3, <4>1 DEF OrderInv, DeliverOK
        <4>2. CASE delivered'[i] = view.frame
          BY <1>1, <1>2, <2>1, <2>5, <4>2
        <4>3. QED
          BY <3>2, <4>1, <4>2
      <3>5. QED
        BY <1>1, <3>2, <3>3, <3>4 DEF DeliverOK
    <2>6. QED
      BY <1>1, <2>4, <2>5
  <1>6. QED
    BY <1>3, <1>4, <1>5 DEF OrderInv

(* What the credit does to the band it lands on: the frame moves on, or ends
   and the first of the ring takes its place. *)
LEMMA AdvanceLine ==
  ASSUME SeamInv, PumpAdvance
  PROVE  LET w == view.band IN
         /\ w \in BandIds /\ Holds(q, w) /\ QueueOK(q) /\ QueueOK(q')
         /\ Written(w) = q.band[w].sent + 1 /\ pump' = "idle"
         /\ \A b \in BandIds : Written(b)' = q'.band[b].sent
         /\ \A b \in BandIds : b # w => /\ q'.band[b] = q.band[b] /\ q'.stage[b] = q.stage[b]
                                        /\ Written(b) = 0 /\ q.band[b].sent = 0
         /\ \/ /\ ~ Ends(q, w) /\ Holds(q', w) /\ q'.band[w].buf = q.band[w].buf
               /\ q'.band[w].sent = q.band[w].sent + 1 /\ q'.stage[w] = q.stage[w]
            \/ /\ Ends(q, w) /\ ~ Holds(q', w) /\ q'.stage[w] = <<>> /\ q.stage[w] = <<>>
               /\ q'.band[w].sent = 0
            \/ /\ Ends(q, w) /\ Holds(q', w) /\ 1 \in DOMAIN q.stage[w]
               /\ q'.band[w].buf = q.stage[w][1] /\ q'.band[w].sent = 0
               /\ q'.stage[w] = Tail(q.stage[w])
  <1> DEFINE w == view.band
  <1>1. /\ pump = "written" /\ pump' = "idle" /\ q' = dh_outq_advance(q, view)
        /\ w \in BandIds /\ Holds(q, w) /\ QueueOK(q)
    BY DEF PumpAdvance, SeamInv, ViewFresh, TypeOK
  <1>2. QueueOK(q')
    BY <1>1, AdvanceQueueOK
  <1>3. q.band \in [BandIds -> Bands] /\ q.stage \in [BandIds -> Seq(Frames)]
    BY <1>1 DEF QueueOK, Queues
  <1>4. \A b \in BandIds : Written(b)' = q'.band[b].sent
    BY <1>1 DEF Written
  <1>5. Written(w) = q.band[w].sent + 1
    BY <1>1 DEF Written
  <1>6. \A b \in BandIds : b # w => Written(b) = 0 /\ q.band[b].sent = 0
    BY <1>1 DEF Written, SeamInv, ViewFresh
  <1>7. CASE ~ Ends(q, w)
    <2>1. q'.band = [q.band EXCEPT ![w].sent = @ + 1] /\ q'.stage = q.stage
      BY <1>1, <1>7, AdvanceEffect
    <2>2. /\ q'.band[w] = [q.band[w] EXCEPT !.sent = @ + 1]
          /\ \A b \in BandIds : b # w => q'.band[b] = q.band[b]
      BY <1>1, <1>3, <2>1
    <2>3. q'.band[w].buf = q.band[w].buf /\ q'.band[w].sent = q.band[w].sent + 1
      BY <1>1, <1>3, <2>2 DEF Bands
    <2>4. Holds(q', w)
      BY <1>1, <2>3 DEF Holds
    <2>5. QED
      BY <1>1, <1>2, <1>4, <1>5, <1>6, <1>7, <2>1, <2>2, <2>3, <2>4
  <1>8. CASE Ends(q, w) /\ q.stage[w] = <<>>
    <2>1. q'.band = [q.band EXCEPT ![w] = band_clear] /\ q'.stage = q.stage
      BY <1>1, <1>8, AdvanceEffect
    <2>2. q'.band[w] = band_clear /\ \A b \in BandIds : b # w => q'.band[b] = q.band[b]
      BY <1>1, <1>3, <2>1
    <2>3. ~ Holds(q', w) /\ q'.band[w].sent = 0
      BY <2>2 DEF Holds, band_clear, Load, NoFrame
    <2>4. QED
      BY <1>1, <1>2, <1>4, <1>5, <1>6, <1>8, <2>1, <2>2, <2>3
  <1>9. CASE Ends(q, w) /\ q.stage[w] # <<>>
    <2>1. /\ q'.band = [q.band EXCEPT ![w] = Load(Head(q.stage[w]))]
          /\ q'.stage = [q.stage EXCEPT ![w] = Tail(@)]
      BY <1>1, <1>9, AdvanceEffect
    <2>2. /\ q'.band[w] = Load(Head(q.stage[w])) /\ q'.stage[w] = Tail(q.stage[w])
          /\ \A b \in BandIds : b # w => q'.band[b] = q.band[b] /\ q'.stage[b] = q.stage[b]
      BY <1>1, <1>3, <2>1
    <2>3. Head(q.stage[w]) = q.stage[w][1] /\ 1 \in DOMAIN q.stage[w] /\ q.stage[w][1] \in Frames
      <3>1. q.stage[w] \in Seq(Frames)
        BY <1>1, <1>3
      <3>2. QED
        BY <1>9, <3>1
    <2>4. q'.band[w].buf = q.stage[w][1] /\ q'.band[w].sent = 0
      BY <2>2, <2>3 DEF Load
    <2>5. Holds(q', w)
      BY <2>3, <2>4 DEF Holds, Frames
    <2>6. QED
      BY <1>1, <1>2, <1>4, <1>5, <1>6, <1>9, <2>2, <2>3, <2>4, <2>5
  <1>10. QED
    BY <1>7, <1>8, <1>9

(* A ring without its first slot. *)
LEMMA TailRing ==
  ASSUME NEW r \in Seq(Frames), 1 \in DOMAIN r
  PROVE  /\ \A i \in DOMAIN Tail(r) : /\ i \in Nat /\ i + 1 \in DOMAIN r /\ Tail(r)[i] = r[i + 1]
                                      /\ 1 < i + 1
         /\ \A i \in DOMAIN r : i = 1 \/ (i - 1 \in DOMAIN Tail(r) /\ r[i] = Tail(r)[i - 1])
  OBVIOUS

(* Nothing enters a band when the credit lands. *)
LEMMA AdvanceShrinks ==
  ASSUME SeamInv, PumpAdvance, NEW b \in BandIds
  PROVE  /\ \A n : InLine(q', n, b) => InLine(q, n, b)
         /\ \A i \in DOMAIN q'.stage[b] : \E j \in DOMAIN q.stage[b] : q'.stage[b][i] = q.stage[b][j]
         /\ \A n : InLine(q, n, b) => InLine(q', n, b) \/
              (b = view.band /\ Ends(q, b) /\ n = q.band[b].buf.id)
  <1> DEFINE w == view.band
  <1>1. CASE b # w
    <2>1. q'.band[b] = q.band[b] /\ q'.stage[b] = q.stage[b]
      BY <1>1, AdvanceLine
    <2>2. QED
      BY <2>1 DEF InLine, Holds
  <1>2. CASE b = w
    <2>0. w \in BandIds /\ Holds(q, w) /\ QueueOK(q)
      BY AdvanceLine
    <2>1. CASE /\ Holds(q', w) /\ q'.band[w].buf = q.band[w].buf /\ q'.stage[w] = q.stage[w]
      BY <1>2, <2>0, <2>1 DEF InLine
    <2>2. CASE Ends(q, w) /\ ~ Holds(q', w) /\ q'.stage[w] = <<>> /\ q.stage[w] = <<>>
      BY <1>2, <2>0, <2>2 DEF InLine
    <2>3. CASE /\ Ends(q, w) /\ Holds(q', w) /\ 1 \in DOMAIN q.stage[w]
               /\ q'.band[w].buf = q.stage[w][1] /\ q'.stage[w] = Tail(q.stage[w])
      <3>1. q.stage[w] \in Seq(Frames)
        BY <2>0, QueueTypes
      <3>2. /\ \A i \in DOMAIN q'.stage[w] : i + 1 \in DOMAIN q.stage[w] /\ q'.stage[w][i] = q.stage[w][i + 1]
            /\ \A i \in DOMAIN q.stage[w] :
                 i = 1 \/ (i - 1 \in DOMAIN q'.stage[w] /\ q.stage[w][i] = q'.stage[w][i - 1])
        BY <2>3, <3>1, TailRing
      <3>3. \A i \in DOMAIN q'.stage[w] : \E j \in DOMAIN q.stage[w] : q'.stage[w][i] = q.stage[w][j]
        BY <3>2
      <3>4. \A n : InLine(q', n, w) => InLine(q, n, w)
        BY <2>3, <3>3 DEF InLine
      <3>5. \A n : InLine(q, n, w) => InLine(q', n, w) \/ n = q.band[w].buf.id
        BY <2>3, <3>2 DEF InLine
      <3>6. QED
        BY <1>2, <2>3, <3>3, <3>4, <3>5
    <2>4. QED
      BY <2>1, <2>2, <2>3, AdvanceLine
  <1>3. QED
    BY <1>1, <1>2

LEMMA AdvanceKeepsOrder ==
  ASSUME SeamInv, OrderInv, PumpAdvance
  PROVE  OrderInv'
  <1> DEFINE w == view.band
  <1>0. /\ UNCHANGED <<reader, next, delivered>> /\ w \in BandIds /\ Holds(q, w)
        /\ QueueOK(q) /\ QueueOK(q') /\ next \in Nat
    BY AdvanceLine DEF PumpAdvance, SeamInv, TypeOK
  <1>1. \A b \in BandIds : b # w => q'.band[b] = q.band[b] /\ q'.stage[b] = q.stage[b]
    BY AdvanceLine
  <1>2. /\ Written(w) = q.band[w].sent + 1 /\ \A b \in BandIds : Written(b)' = q'.band[b].sent
        /\ \A b \in BandIds : b # w => Written(b)' = Written(b)
    BY AdvanceLine
  <1>3. CASE /\ ~ Ends(q, w) /\ Holds(q', w) /\ q'.band[w].buf = q.band[w].buf
             /\ q'.band[w].sent = q.band[w].sent + 1 /\ q'.stage[w] = q.stage[w]
    <2>1. \A b \in BandIds : /\ q'.band[b].buf = q.band[b].buf /\ q'.stage[b] = q.stage[b]
                             /\ (Holds(q', b) <=> Holds(q, b)) /\ Written(b)' = Written(b)
      BY <1>0, <1>1, <1>2, <1>3 DEF Holds
    <2>2. \A b \in BandIds : \A n : InLine(q', n, b) <=> InLine(q, n, b)
      BY <2>1 DEF InLine
    <2>3. LineOK'
      BY <1>0, <2>1, <2>2 DEF OrderInv, LineOK, BandIds
    <2>4. ReaderOK'
      BY <1>0, <2>1 DEF OrderInv, ReaderOK
    <2>5. DeliverOK'
      BY <1>0, <2>1 DEF OrderInv, DeliverOK
    <2>6. QED
      BY <2>3, <2>4, <2>5 DEF OrderInv
  <1>4. CASE Ends(q, w) /\ ~ Holds(q', w) /\ q'.stage[w] = <<>>
    <2>1. ASSUME NEW b \in BandIds, Holds(q', b)
          PROVE  b # w /\ Holds(q, b) /\ q'.band[b] = q.band[b] /\ Written(b)' = Written(b)
      BY <1>1, <1>2, <1>4, <2>1 DEF Holds
    <2>2. ASSUME NEW b \in BandIds, NEW i \in DOMAIN q'.stage[b]
          PROVE  b # w /\ q'.stage[b] = q.stage[b] /\ q'.band[b] = q.band[b]
      BY <1>1, <1>4, <2>2
    <2>3. LineOK'
      <3>1. \A n \in 1 .. next - 1 : ~ (InLine(q', n, "priority") /\ InLine(q', n, "bulk"))
        BY AdvanceShrinks DEF OrderInv, LineOK, BandIds
      <3>2. QED
        BY <1>0, <2>1, <2>2, <3>1 DEF OrderInv, LineOK
    <2>4. ReaderOK'
      BY <1>0, <2>1, <2>2 DEF OrderInv, ReaderOK
    <2>5. DeliverOK'
      BY <1>0, <2>1 DEF OrderInv, DeliverOK
    <2>6. QED
      BY <2>3, <2>4, <2>5 DEF OrderInv
  <1>5. CASE /\ Ends(q, w) /\ Holds(q', w) /\ 1 \in DOMAIN q.stage[w]
             /\ q'.band[w].buf = q.stage[w][1] /\ q'.band[w].sent = 0
             /\ q'.stage[w] = Tail(q.stage[w])
    <2>1. /\ \A i \in DOMAIN q'.stage[w] : /\ i \in Nat /\ i + 1 \in DOMAIN q.stage[w]
                                           /\ q'.stage[w][i] = q.stage[w][i + 1] /\ 1 < i + 1
      BY <1>0, <1>5, QueueTypes, TailRing
    <2>2. /\ q.band[w].buf.id < q.stage[w][1].id /\ q.stage[w][1].band = w
          /\ q.stage[w][1].id < next /\ q.stage[w][1].id \in Nat /\ q.band[w].buf.id \in Nat
      BY <1>0, <1>5, QueueTypes DEF OrderInv, LineOK
    <2>3. LineOK'
      <3>1. \A n \in 1 .. next - 1 : ~ (InLine(q', n, "priority") /\ InLine(q', n, "bulk"))
        BY AdvanceShrinks DEF OrderInv, LineOK, BandIds
      <3>2. q'.band[w].buf.band = w /\ 0 < q'.band[w].buf.id /\ q'.band[w].buf.id < next
        BY <1>5, <2>2
      <3>3. ASSUME NEW i \in DOMAIN q'.stage[w]
            PROVE  /\ q'.stage[w][i].band = w /\ q'.band[w].buf.id < q'.stage[w][i].id
                   /\ q'.stage[w][i].id < next
        BY <1>0, <1>5, <2>1, <3>3 DEF OrderInv, LineOK
      <3>4. ASSUME NEW i \in DOMAIN q'.stage[w], NEW j \in DOMAIN q'.stage[w], i < j
            PROVE  q'.stage[w][i].id < q'.stage[w][j].id
        <4>1. i + 1 < j + 1
          BY <2>1, <3>4
        <4>2. QED
          BY <1>0, <2>1, <3>4, <4>1 DEF OrderInv, LineOK
      <3>5. ASSUME NEW b \in BandIds, b # w
            PROVE  /\ Holds(q', b) =>
                        q'.band[b].buf.band = b /\ 0 < q'.band[b].buf.id /\ q'.band[b].buf.id < next
                   /\ \A i \in DOMAIN q'.stage[b] : /\ q'.stage[b][i].band = b
                                                    /\ q'.band[b].buf.id < q'.stage[b][i].id
                                                    /\ q'.stage[b][i].id < next
                   /\ \A i, j \in DOMAIN q'.stage[b] : i < j => q'.stage[b][i].id < q'.stage[b][j].id
        BY <1>1, <3>5 DEF OrderInv, LineOK, Holds
      <3>6. next > 0
        BY DEF OrderInv, LineOK
      <3>7. QED
        BY <1>0, <3>1, <3>2, <3>3, <3>4, <3>5, <3>6 DEF LineOK
    <2>4. ReaderOK'
      <3> SUFFICES ASSUME reader.have > 0
                   PROVE  \A b \in BandIds :
                            /\ Holds(q', b) /\ q'.band[b].buf.id = reader.frame.id =>
                                 q'.band[b].buf = reader.frame
                            /\ \A i \in DOMAIN q'.stage[b] : q'.stage[b][i].id # reader.frame.id
        BY <1>0 DEF OrderInv, ReaderOK
      <3>1. \A b \in BandIds : \A i \in DOMAIN q.stage[b] : q.stage[b][i].id # reader.frame.id
        BY DEF OrderInv, ReaderOK
      <3>2. \A b \in BandIds : \A i \in DOMAIN q'.stage[b] : q'.stage[b][i].id # reader.frame.id
        BY <3>1, AdvanceShrinks
      <3>3. q'.band[w].buf.id # reader.frame.id
        BY <1>0, <1>5, <3>1
      <3>4. \A b \in BandIds : b # w /\ Holds(q', b) /\ q'.band[b].buf.id = reader.frame.id =>
              q'.band[b].buf = reader.frame
        BY <1>1 DEF OrderInv, ReaderOK, Holds
      <3>5. QED
        BY <3>2, <3>3, <3>4
    <2>5. DeliverOK'
      <3>1. ASSUME NEW i \in DOMAIN delivered, NEW b \in BandIds, Holds(q', b), delivered[i].band = b
            PROVE  \/ delivered[i].id < q'.band[b].buf.id
                   \/ delivered[i].id = q'.band[b].buf.id /\ Written(b)' = q'.band[b].buf.len
        <4>1. CASE b = w
          <5>0. delivered[i] \in Frames
            BY DEF OrderInv, DeliverOK
          <5>n. delivered[i].id \in Nat
            BY <5>0 DEF Frames
          <5>1. delivered[i].id <= q.band[w].buf.id
            BY <1>0, <2>2, <3>1, <4>1, <5>n DEF OrderInv, DeliverOK
          <5>2. QED
            BY <1>5, <2>2, <4>1, <5>n, <5>1
        <4>2. CASE b # w
          BY <1>1, <1>2, <3>1, <4>2 DEF OrderInv, DeliverOK, Holds
        <4>3. QED
          BY <4>1, <4>2
      <3>2. QED
        BY <1>0, <3>1 DEF OrderInv, DeliverOK
    <2>6. QED
      BY <2>3, <2>4, <2>5 DEF OrderInv
  <1>6. QED
    BY <1>3, <1>4, <1>5, AdvanceLine

(* What a reset leaves in the queue: nothing. *)
LEMMA ResetEmpties ==
  ASSUME SeamInv, NEW reopened \in BOOLEAN, reset_output(reopened)
  PROVE  /\ pump = "idle" /\ pump' = "idle"
         /\ \A b \in BandIds : /\ ~ Holds(q', b) /\ q'.stage[b] = <<>> /\ q'.band[b].sent = 0
                               /\ Written(b)' = 0
  <1>1. pump = "idle" /\ pump' = "idle" /\ q' = dh_outq_reset(q) /\ QueueOK(q)
    BY DEF reset_output, SeamInv
  <1>2. QueueOK(q') /\ \A b \in BandIds : q'.band[b] = band_clear
    BY <1>1, ResetQueueOK
  <1>3. \A b \in BandIds : ~ Holds(q', b) /\ q'.band[b].sent = 0
    BY <1>2 DEF Holds, band_clear, Load, NoFrame
  <1>4. \A b \in BandIds : q'.stage[b] = <<>>
    BY <1>2, <1>3, QueueTypes
  <1>5. QED
    BY <1>1, <1>3, <1>4 DEF Written

LEMMA ResetKeepsOrder ==
  ASSUME SeamInv, OrderInv, NEW reopened \in BOOLEAN, reset_output(reopened)
  PROVE  OrderInv'
  <1>1. \A b \in BandIds : ~ Holds(q', b) /\ q'.stage[b] = <<>>
    BY ResetEmpties
  <1>2. next' = next /\ delivered' = delivered /\ reader' \in {reader, dh_frame_reader_init}
    BY DEF reset_output
  <1>3. LineOK'
    BY <1>1, <1>2 DEF OrderInv, LineOK, InLine, BandIds
  <1>4. ReaderOK'
    BY <1>1, <1>2 DEF OrderInv, ReaderOK, dh_frame_reader_init
  <1>5. DeliverOK'
    BY <1>1, <1>2 DEF OrderInv, DeliverOK
  <1>6. QED
    BY <1>3, <1>4, <1>5 DEF OrderInv

(* Every step keeps the frames in order. *)
LEMMA NextKeepsOrder == SeamInv /\ SeamInv' /\ OrderInv /\ [Next]_vars => OrderInv'
  <1> SUFFICES ASSUME SeamInv, SeamInv', OrderInv, [Next]_vars PROVE OrderInv'
    OBVIOUS
  <1>0. QueueOK(q') /\ next \in Nat /\ next' \in Nat
    BY DEF SeamInv, TypeOK
  <1>1. ASSUME NEW k \in FrameKinds, Offer(k) PROVE OrderInv'
    <2>1. PICK c \in BandIds : Grows(q, q', c, next, next')
      BY <1>1, OfferGrows DEF OrderInv
    <2>2. next <= next' /\ UNCHANGED <<pump, view, reader, delivered>>
      BY <1>0, <1>1 DEF Offer
    <2>3. QED
      BY <1>0, <2>1, <2>2, GrowKeepsOrder
  <1>2. ASSUME NEW k \in FrameKinds, NEW l \in FrameKinds, OfferPair(k, l) PROVE OrderInv'
    <2>1. Grows(q, q', "priority", next, next') /\ "priority" \in BandIds
      BY <1>2, PairGrows DEF BandIds
    <2>2. next <= next' /\ UNCHANGED <<pump, view, reader, delivered>>
      BY <1>0, <1>2 DEF OfferPair
    <2>3. QED
      BY <1>0, <2>1, <2>2, GrowKeepsOrder
  <1>3. CASE PumpPeek \/ PumpRefused \/ UNCHANGED vars
    <2>1. UNCHANGED <<q, reader, next, delivered>>
      BY <1>3 DEF PumpPeek, PumpRefused, vars, history
    <2>2. \A b \in BandIds : Written(b)' = Written(b)
      BY <1>3, <2>1 DEF PumpPeek, PumpRefused, vars, Written
    <2>3. QED
      BY <2>1, <2>2, StillKeepsOrder
  <1>4. CASE PumpWriteLost
    <2>1. UNCHANGED <<q, reader, next, delivered, view>> /\ pump = "peeked" /\ pump' = "written"
      BY <1>4 DEF PumpWriteLost
    <2>2. ASSUME NEW b \in BandIds PROVE Written(b)' = Written(b) \/ Written(b) # q.band[b].buf.len
      <3>1. CASE b = view.band
        <4>1. view.at < view.frame.len /\ view.frame \in Frames /\ view.at \in Nat
              /\ Written(b) = view.at /\ view.frame = q.band[b].buf
          BY <2>1, <3>1, PeekedReport
        <4>2. QED
          BY <4>1 DEF Frames
      <3>2. CASE b # view.band
        BY <2>1, <3>2 DEF Written
      <3>3. QED
        BY <3>1, <3>2
    <2>3. QED
      BY <2>1, <2>2, StillKeepsOrder
  <1>5. QED
    BY <1>1, <1>2, <1>3, <1>4, WriteKeepsOrder, AdvanceKeepsOrder, ResetKeepsOrder DEF Next, Pump

(* The frames of a band stay in the order they were offered, from the queue to
   the helper. *)
THEOREM SeamOrderInvariant == Spec => []OrderInv
  <1>1. Init => OrderInv
    <2> SUFFICES ASSUME Init PROVE OrderInv
      OBVIOUS
    <2>1. \A b \in BandIds : ~ Holds(q, b) /\ q.stage[b] = <<>>
      BY DEF Init, dh_outq_init, Holds, band_clear, Load, NoFrame
    <2>2. LineOK
      BY <2>1 DEF Init, LineOK, InLine, BandIds
    <2>3. ReaderOK /\ DeliverOK
      BY DEF Init, ReaderOK, DeliverOK, dh_frame_reader_init
    <2>4. QED
      BY <2>2, <2>3 DEF OrderInv
  <1>2. QED
    BY <1>1, NextKeepsOrder, SeamInvariant, PTL DEF Spec

-----------------------------------------------------------------------------
(* Nothing vanishes while the carrier loses nothing. *)

LEMMA QueuedInLine ==
  /\ \A n : n \in Queued <=> \E b \in BandIds : InLine(q, n, b)
  /\ \A n : n \in Queued' <=> \E b \in BandIds : InLine(q', n, b)
  BY DEF Queued, InLine

(* What grew still holds all it held. *)
LEMMA GrowKeepsQueued ==
  ASSUME SeamInv, QueueOK(q'), NEW c \in BandIds, NEW n, NEW m, Grows(q, q', c, n, m)
  PROVE  Queued \subseteq Queued'
  <1>1. \A b \in BandIds : \A i : InLine(q, i, b) => InLine(q', i, b)
    BY GrownLine DEF InLine
  <1>2. QED
    BY <1>1, QueuedInLine

(* A frame of which something was written is held. *)
LEMMA WrittenHeld ==
  ASSUME SeamInv, NEW b \in BandIds, Written(b) > 0
  PROVE  Holds(q, b)
  BY QueueTypes DEF SeamInv, ViewFresh, Written

LEMMA GrowKeepsSync ==
  ASSUME SeamInv, SyncOK, QueueOK(q'), NEW c \in BandIds, NEW n, NEW m, Grows(q, q', c, n, m),
         UNCHANGED <<pump, view, reader, delivered, lost>>
  PROVE  SyncOK'
  <1>1. \A b \in BandIds : Holds(q, b) => q'.band[b] = q.band[b]
    BY GrownLine
  <1>2. \A b \in BandIds : Written(b)' = Written(b)
    BY GrownLine DEF Written
  <1>3. Handed' = Handed
    BY DEF Handed
  <1>4. \A b \in BandIds : Written(b) > 0 => q'.band[b] = q.band[b]
    BY <1>1, WrittenHeld
  <1>5. QED
    BY <1>2, <1>3, <1>4 DEF SyncOK

LEMMA OfferAccounts ==
  ASSUME SeamInv, OrderInv, CountInv, QueueOK(q'), NEW k \in FrameKinds, Offer(k)
  PROVE  CountInv'
  <1> DEFINE f == FrameOf(k, next)
  <1>1. next \in Nat /\ next' = next + 1 /\ q' = dh_outq_offer(q, f) /\ QueueOK(q)
    BY DEF SeamInv, TypeOK, Offer
  <1>2. UNCHANGED <<pump, view, reader, delivered, lost, discarded>>
        /\ refused' = IF Admits(q, f) THEN refused ELSE refused \cup {f.id}
    BY DEF Offer
  <1>3. f \in Frames
    BY <1>1, FrameOfType
  <1>4. f.id = next
    BY DEF FrameOf
  <1>5. f.band \in BandIds
    BY <1>3 DEF Frames
  <1> HIDE DEF f
  <1>6. PICK c \in BandIds : Grows(q, q', c, next, next')
    BY OfferGrows DEF OrderInv
  <1>7. SyncOK'
    BY <1>2, <1>6, GrowKeepsSync DEF CountInv
  <1>8. Queued \subseteq Queued'
    BY <1>6, GrowKeepsQueued
  <1>9. next \in Queued' \/ next \in refused'
    <2>1. CASE ~ Admits(q, f)
      BY <1>2, <1>4, <2>1
    <2>2. CASE Admits(q, f)
      <3>1. q.band \in [BandIds -> Bands] /\ q.stage \in [BandIds -> Seq(Frames)]
        BY <1>1 DEF QueueOK, Queues
      <3>2. CASE Holds(q, f.band)
        <4>1. q'.stage = [q.stage EXCEPT ![f.band] = Append(@, f)]
          BY <1>1, <1>3, <2>2, <3>2, OfferEffect
        <4>2. q'.stage[f.band] = Append(q.stage[f.band], f) /\ q.stage[f.band] \in Seq(Frames)
          BY <1>5, <3>1, <4>1
        <4>3. Len(q.stage[f.band]) + 1 \in DOMAIN q'.stage[f.band]
              /\ q'.stage[f.band][Len(q.stage[f.band]) + 1] = f
          BY <1>3, <4>2, AppendHanded
        <4>4. InLine(q', next, f.band)
          BY <1>4, <4>3 DEF InLine
        <4>5. QED
          BY <1>5, <4>4, QueuedInLine
      <3>3. CASE ~ Holds(q, f.band)
        <4>1. q'.band = [q.band EXCEPT ![f.band] = Load(f)]
          BY <1>1, <1>3, <2>2, <3>3, OfferEffect
        <4>2. q'.band[f.band].buf = f
          BY <1>5, <3>1, <4>1 DEF Load
        <4>3. Holds(q', f.band)
          BY <1>3, <4>2 DEF Holds, Frames
        <4>4. InLine(q', next, f.band)
          BY <1>4, <4>2, <4>3 DEF InLine
        <4>5. QED
          BY <1>5, <4>4, QueuedInLine
      <3>4. QED
        BY <3>2, <3>3
    <2>3. QED
      BY <2>1, <2>2
  <1>10. Handed' = Handed /\ refused \subseteq refused'
    BY <1>2 DEF Handed
  <1>11. Accounted'
    <2> SUFFICES ASSUME lost = 0, NEW n \in 1 .. (next' - 1)
                 PROVE  n \in Handed' \cup Queued' \cup discarded' \cup refused'
      BY <1>2 DEF Accounted
    <2>1. n = next \/ n \in 1 .. (next - 1)
      BY <1>1
    <2>2. QED
      BY <1>2, <1>8, <1>9, <1>10, <2>1 DEF CountInv, Accounted
  <1>12. QED
    BY <1>7, <1>11 DEF CountInv

LEMMA PairAccounts ==
  ASSUME SeamInv, CountInv, QueueOK(q'), NEW k \in FrameKinds, NEW l \in FrameKinds, OfferPair(k, l)
  PROVE  CountInv'
  <1> DEFINE f == FrameOf(k, next)
             g == FrameOf(l, next + 1)
  <1>1. next \in Nat /\ next' = next + 2 /\ q' = dh_outq_offer_pair(q, f, g) /\ QueueOK(q)
    BY DEF SeamInv, TypeOK, OfferPair
  <1>2. UNCHANGED <<pump, view, reader, delivered, lost, discarded>>
        /\ refused' = IF AdmitsPair(q, f, g) THEN refused ELSE refused \cup {f.id, g.id}
    BY DEF OfferPair
  <1>3. f \in Frames /\ g \in Frames
    BY <1>1, FrameOfType
  <1>4. f.id = next /\ g.id = next + 1
    BY DEF FrameOf
  <1> HIDE DEF f, g
  <1>5. Grows(q, q', "priority", next, next') /\ "priority" \in BandIds
    BY PairGrows DEF BandIds
  <1>6. SyncOK' /\ Queued \subseteq Queued'
    BY <1>2, <1>5, GrowKeepsSync, GrowKeepsQueued DEF CountInv
  <1>7. {next, next + 1} \subseteq Queued' \cup refused'
    <2>1. CASE ~ AdmitsPair(q, f, g)
      BY <1>2, <1>4, <2>1
    <2>2. CASE AdmitsPair(q, f, g)
      <3>1. q.band \in [BandIds -> Bands] /\ q.stage \in [BandIds -> Seq(Frames)]
        BY <1>1 DEF QueueOK, Queues
      <3>2. /\ q'.band = [q.band EXCEPT !["priority"] = Load(f)]
            /\ q'.stage = [q.stage EXCEPT !["priority"] = <<g>>]
        BY <1>1, <1>3, <2>2, PairEffect
      <3>3. q'.band["priority"].buf = f /\ q'.stage["priority"] = <<g>>
        BY <1>5, <3>1, <3>2 DEF Load
      <3>4. Holds(q', "priority")
        BY <1>3, <3>3 DEF Holds, Frames
      <3>5. InLine(q', next, "priority") /\ InLine(q', next + 1, "priority")
        BY <1>4, <3>3, <3>4 DEF InLine
      <3>6. QED
        BY <1>5, <3>5, QueuedInLine
    <2>3. QED
      BY <2>1, <2>2
  <1>8. Handed' = Handed /\ refused \subseteq refused'
    BY <1>2 DEF Handed
  <1>9. Accounted'
    <2> SUFFICES ASSUME lost = 0, NEW n \in 1 .. (next' - 1)
                 PROVE  n \in Handed' \cup Queued' \cup discarded' \cup refused'
      BY <1>2 DEF Accounted
    <2>1. n = next \/ n = next + 1 \/ n \in 1 .. (next - 1)
      BY <1>1
    <2>2. QED
      BY <1>2, <1>6, <1>7, <1>8, <2>1 DEF CountInv, Accounted
  <1>10. QED
    BY <1>6, <1>9 DEF CountInv

LEMMA WriteAccounts ==
  ASSUME SeamInv, OrderInv, CountInv, PumpWrite
  PROVE  CountInv'
  <1> DEFINE f == Filled(reader, view)
             R == [frame : Frames \cup {NoFrame}, have : Nat, broken : BOOLEAN, resyncs : Nat]
  <1>1. /\ pump = "peeked" /\ pump' = "written" /\ UNCHANGED <<q, view, next, lost>>
        /\ UNCHANGED <<discarded, refused>>
        /\ reader'.have = 0
           \/ (~ Orphan(reader, view) /\ ~ Completes(reader, view) /\ reader' = f)
        /\ \/ delivered' = delivered /\ (Judges(reader, view) => f.broken)
           \/ /\ delivered' = Append(delivered, view.frame) /\ Judges(reader, view)
              /\ ~ f.broken /\ view.at + 1 = view.frame.len
        /\ \A b \in BandIds : b # view.band => Written(b)' = Written(b) /\ Written(b) = 0
        /\ Written(view.band) = view.at /\ Written(view.band)' = view.at + 1
        /\ reader' = dh_frame_reader_report(reader, view)
    BY WriteEffect DEF OrderInv, PumpWrite
  <1>2. /\ view.band \in BandIds /\ view.frame \in Frames /\ view.at \in Nat /\ reader \in R
        /\ view.frame = q.band[view.band].buf /\ view.at < view.frame.len /\ view.frame.len \in Nat
    BY <1>1, PeekedReport DEF SeamInv, TypeOK, Frames
  <1>3. delivered \in Seq(Frames)
    BY DEF OrderInv, DeliverOK
  <1>4. Handed \subseteq Handed'
        /\ (delivered' = Append(delivered, view.frame) => view.frame.id \in Handed')
    BY <1>1, <1>2, <1>3, AppendHanded DEF Handed
  <1>5. Queued' = Queued
    BY <1>1 DEF Queued, Holds
  <1>6. Accounted'
    BY <1>1, <1>4, <1>5 DEF CountInv, Accounted
  <1>7. ASSUME lost = 0
        PROVE  f.frame = view.frame /\ f.have = view.at + 1 /\ ~ f.broken /\ ~ Orphan(reader, view)
    <2>1. CASE Starts(view)
      <3>1. f.frame = view.frame /\ f.have = 1 /\ f.broken = FALSE
        BY <1>2, <2>1, ReaderTypes
      <3>2. view.at = 0 /\ ~ Orphan(reader, view)
        BY <2>1 DEF Starts, Orphan
      <3>3. QED
        BY <3>1, <3>2
    <2>2. CASE ~ Starts(view)
      <3>1. Written(view.band) > 0 /\ Written(view.band) # q.band[view.band].buf.len
        BY <1>1, <1>2, <2>2 DEF Starts
      <3>2. reader.frame = view.frame /\ reader.have = view.at /\ ~ reader.broken
        BY <1>1, <1>2, <1>7, <3>1 DEF CountInv, SyncOK
      <3>3. /\ f.frame = reader.frame /\ f.have = reader.have + 1
            /\ f.broken = (reader.broken \/ view.frame.id # reader.frame.id \/ view.at # reader.have)
        BY <1>2, <2>2, ReaderTypes
      <3>4. ~ Orphan(reader, view)
        BY <1>1, <1>2, <3>1, <3>2 DEF Orphan
      <3>5. QED
        BY <3>2, <3>3, <3>4
    <2>3. QED
      BY <2>1, <2>2
  <1>8. SyncOK'
    <2> SUFFICES ASSUME lost = 0, NEW b \in BandIds, Written(b)' > 0
                 PROVE  \/ /\ Written(b)' < q.band[b].buf.len
                           /\ reader'.frame = q.band[b].buf /\ reader'.have = Written(b)'
                           /\ ~ reader'.broken
                        \/ Written(b)' = q.band[b].buf.len /\ q.band[b].buf.id \in Handed'
      BY <1>1 DEF SyncOK
    <2>1. b = view.band
      BY <1>1
    <2>2. CASE view.at + 1 = view.frame.len
      <3>1. Completes(reader, view)
        BY <1>7, <2>2 DEF Completes
      <3>2. ~ Borrowed(reader, view)
        <4>1. Bytes(view) = view.frame.tail /\ f.frame.tail = view.frame.tail
          BY <1>7, <2>2 DEF Bytes
        <4>2. view.frame.tail \in Nat
          BY <1>2 DEF Frames
        <4>3. QED
          BY <4>1, <4>2 DEF Borrowed
      <3>3. delivered' = Append(delivered, view.frame)
        BY <1>1, <1>7, <3>1, <3>2 DEF Judges
      <3>4. QED
        BY <1>1, <1>2, <1>4, <2>1, <2>2, <3>3
    <2>3. CASE view.at + 1 # view.frame.len
      <3>1. ~ Completes(reader, view)
        BY <1>7, <2>3 DEF Completes
      <3>2. reader' = f
        BY <1>1, <1>7, <3>1 DEF dh_frame_reader_report
      <3>3. QED
        BY <1>1, <1>2, <1>7, <2>1, <2>3, <3>2
    <2>4. QED
      BY <2>2, <2>3
  <1>9. QED
    BY <1>6, <1>8 DEF CountInv

(* A frame leaves the queue with its last report, which the reader had. *)
LEMMA AdvanceAccounts ==
  ASSUME SeamInv, CountInv, PumpAdvance
  PROVE  CountInv'
  <1> DEFINE w == view.band
  <1>1. UNCHANGED <<reader, next, lost, delivered, discarded, refused>>
    BY DEF PumpAdvance
  <1>2. w \in BandIds /\ Written(w) = q.band[w].sent + 1 /\ Holds(q, w) /\ QueueOK(q)
    BY AdvanceLine
  <1>3. Handed' = Handed
    BY <1>1 DEF Handed
  <1>4. SyncOK'
    <2> SUFFICES ASSUME lost = 0, NEW b \in BandIds, Written(b)' > 0
                 PROVE  \/ /\ Written(b)' < q'.band[b].buf.len
                           /\ reader.frame = q'.band[b].buf /\ reader.have = Written(b)'
                           /\ ~ reader.broken
                        \/ Written(b)' = q'.band[b].buf.len /\ q'.band[b].buf.id \in Handed
      BY <1>1, <1>3 DEF SyncOK
    <2>1. Written(b)' = q'.band[b].sent
      BY AdvanceLine
    <2>2. b # w => q'.band[b].sent = 0
      BY AdvanceLine
    <2>3. b = w
      BY <2>1, <2>2
    <2>4. q'.band[w].sent # 0 => /\ q'.band[w].buf = q.band[w].buf
                                 /\ q'.band[w].sent = q.band[w].sent + 1
      BY AdvanceLine
    <2>5. q'.band[w].sent # 0
      BY <2>1, <2>3
    <2>6. q'.band[b].buf = q.band[b].buf /\ Written(b)' = Written(b)
      BY <1>2, <2>1, <2>3, <2>4, <2>5
    <2>7. QED
      BY <2>6 DEF CountInv, SyncOK
  <1>5. Accounted'
    <2>1. lost = 0 /\ Ends(q, w) => q.band[w].buf.id \in Handed
      <3>1. q.band[w].sent \in Nat /\ q.band[w].buf.len \in Nat
        BY <1>2, QueueTypes
      <3>2. QED
        BY <1>2, <3>1 DEF Ends, CountInv, SyncOK
    <2>2. lost = 0 => Queued \subseteq Queued' \cup Handed
      BY <2>1, AdvanceShrinks, QueuedInLine
    <2>3. QED
      BY <1>1, <1>3, <2>2 DEF CountInv, Accounted
  <1>6. QED
    BY <1>4, <1>5 DEF CountInv

(* Every step keeps the account. *)
LEMMA NextAccounts == SeamInv /\ SeamInv' /\ OrderInv /\ CountInv /\ [Next]_vars => CountInv'
  <1> SUFFICES ASSUME SeamInv, SeamInv', OrderInv, CountInv, [Next]_vars PROVE CountInv'
    OBVIOUS
  <1>0. QueueOK(q') /\ lost \in Nat
    BY DEF SeamInv, TypeOK
  <1>1. CASE PumpPeek \/ PumpRefused \/ UNCHANGED vars
    <2>1. UNCHANGED <<q, reader, next, lost, delivered, discarded, refused>>
      BY <1>1 DEF PumpPeek, PumpRefused, vars, history
    <2>2. \A b \in BandIds : Written(b)' = Written(b)
      BY <1>1, <2>1 DEF PumpPeek, PumpRefused, vars, Written
    <2>3. Handed' = Handed /\ Queued' = Queued
      BY <2>1 DEF Handed, Queued, Holds
    <2>4. SyncOK' /\ Accounted'
      BY <2>1, <2>2, <2>3 DEF CountInv, SyncOK, Accounted
    <2>5. QED
      BY <2>4 DEF CountInv
  <1>2. CASE PumpWriteLost
    <2>1. lost' # 0
      BY <1>0, <1>2 DEF PumpWriteLost
    <2>2. QED
      BY <2>1 DEF CountInv, SyncOK, Accounted
  <1>3. ASSUME NEW reopened \in BOOLEAN, reset_output(reopened) PROVE CountInv'
    <2>1. \A b \in BandIds : Written(b)' = 0
      BY <1>3, ResetEmpties
    <2>2. SyncOK'
      BY <2>1 DEF SyncOK
    <2>3. discarded' = discarded \cup Queued /\ UNCHANGED <<next, lost, delivered, refused>>
      BY <1>3 DEF reset_output
    <2>4. Handed' = Handed
      BY <2>3 DEF Handed
    <2>5. Accounted'
      BY <2>3, <2>4 DEF CountInv, Accounted
    <2>6. QED
      BY <2>2, <2>5 DEF CountInv
  <1>4. ASSUME NEW k \in FrameKinds, Offer(k) PROVE CountInv'
    BY <1>0, <1>4, OfferAccounts
  <1>5. ASSUME NEW k \in FrameKinds, NEW l \in FrameKinds, OfferPair(k, l) PROVE CountInv'
    BY <1>0, <1>5, PairAccounts
  <1>6. QED
    BY <1>1, <1>2, <1>3, <1>4, <1>5, WriteAccounts, AdvanceAccounts DEF Next, Pump

(* While the carrier loses nothing the reader is where the pump is, and every
   frame offered is accounted for. *)
THEOREM SeamCountInvariant == Spec => []CountInv
  <1>1. Init => CountInv
    <2> SUFFICES ASSUME Init PROVE CountInv
      OBVIOUS
    <2>1. \A b \in BandIds : Written(b) = 0
      BY DEF Init, Written, dh_outq_init, band_clear, Load
    <2>2. 1 .. (next - 1) = {}
      BY DEF Init
    <2>3. QED
      BY <2>1, <2>2 DEF CountInv, SyncOK, Accounted
  <1>2. QED
    BY <1>1, NextAccounts, SeamInvariant, SeamOrderInvariant, PTL DEF Spec

(* Within a band frames reach the helper in the order they were queued, each
   at most once, and while the carrier loses nothing every frame offered was
   refused, dropped by a reset, is still queued or was handed on whole, for
   every depth, frame size and interleaving of the two cores (dh_outq_offer,
   dh_outq_advance, promote). *)
THEOREM SeamExactlyOnce == Spec => []ExactlyOnce
  <1>1. OrderInv /\ CountInv => ExactlyOnce
    BY DEF OrderInv, DeliverOK, CountInv, Accounted, Handed, ExactlyOnce
  <1>2. QED
    BY <1>1, SeamOrderInvariant, SeamCountInvariant, PTL

-----------------------------------------------------------------------------
(* A peek that finds a priority frame waiting takes bulk only in flight. *)
LEMMA PeekPrefers ==
  ASSUME SeamInv, PumpPeek, Holds(q, "priority"), view'.band = "bulk"
  PROVE  view'.at > 0
  <1>1. view'.band = owed_band(q) /\ view'.at = q.band[owed_band(q)].sent
    BY DEF PumpPeek, dh_outq_peek
  <1>2. band_in_flight(q.band["bulk"])
    BY <1>1 DEF owed_band
  <1>3. QED
    BY <1>1, <1>2, InFlightIsSent DEF SeamInv, BandIds

(* What the pump does to the count of overtaking frames, whether the report
   it wrote arrives or not. *)
LEMMA WriteOvertakes ==
  ASSUME SeamInv, OvertakeInv, pump = "peeked", pump' = "written", q' = q, WriteHistory
  PROVE  OvertakeInv'
  <1>1. view.at \in Nat /\ (Starts(view) <=> view.at = 0)
    BY DEF SeamInv, TypeOK, Starts
  <1>2. CASE Starts(view) /\ view.band = "bulk" /\ Holds(q, "priority")
    <2>1. overtaken = 0
      BY <1>1, <1>2 DEF OvertakeInv
    <2>2. overtaken' = 1
      BY <1>2, <2>1 DEF WriteHistory
    <2>3. Holds(q', "priority")
      BY <1>2
    <2>4. QED
      BY <2>2, <2>3 DEF OvertakeInv
  <1>3. CASE ~ (Starts(view) /\ view.band = "bulk" /\ Holds(q, "priority"))
    <2>1. overtaken' = overtaken
      BY <1>3 DEF WriteHistory
    <2>2. QED
      BY <2>1 DEF OvertakeInv
  <1>4. QED
    BY <1>2, <1>3

LEMMA NextOvertakes == SeamInv /\ OvertakeInv /\ [Next]_vars => OvertakeInv'
  <1> SUFFICES ASSUME SeamInv, OvertakeInv, [Next]_vars PROVE OvertakeInv'
    OBVIOUS
  <1>0. QueueOK(q) /\ next \in Nat /\ "priority" \in BandIds
    BY DEF SeamInv, TypeOK, BandIds
  <1>1. ASSUME OnlyFills(q, q'), UNCHANGED <<pump, view>>,
               overtaken' = IF Holds(q, "priority") THEN overtaken ELSE 0
        PROVE  OvertakeInv'
    <2>1. Holds(q, "priority") => Holds(q', "priority")
      BY <1>0, <1>1 DEF OnlyFills, Holds
    <2>2. QED
      BY <1>1, <2>1 DEF OvertakeInv
  <1>2. ASSUME NEW k \in FrameKinds, Offer(k) PROVE OvertakeInv'
    <2>1. FrameOf(k, next) \in Frames
      BY <1>0, FrameOfType
    <2>2. OnlyFills(q, q')
      BY <1>0, <1>2, <2>1, OfferQueueOK DEF Offer
    <2>3. QED
      BY <1>1, <1>2, <2>2 DEF Offer
  <1>3. ASSUME NEW k \in FrameKinds, NEW l \in FrameKinds, OfferPair(k, l) PROVE OvertakeInv'
    <2>1. FrameOf(k, next) \in Frames /\ FrameOf(l, next + 1) \in Frames
      BY <1>0, FrameOfType
    <2>2. OnlyFills(q, q')
      BY <1>0, <1>3, <2>1, PairQueueOK DEF OfferPair
    <2>3. QED
      BY <1>1, <1>3, <2>2 DEF OfferPair
  <1>4. CASE PumpPeek
    <2>1. q' = q /\ overtaken' = overtaken
      BY <1>4 DEF PumpPeek, history
    <2>2. QED
      BY <1>4, <2>1, PeekPrefers DEF OvertakeInv
  <1>5. CASE PumpRefused
    BY <1>5 DEF PumpRefused, history, OvertakeInv
  <1>6. CASE PumpWrite \/ PumpWriteLost
    BY <1>6, WriteOvertakes DEF PumpWrite, PumpWriteLost
  <1>7. CASE PumpAdvance
    BY <1>7 DEF PumpAdvance, OvertakeInv
  <1>8. ASSUME NEW reopened \in BOOLEAN, reset_output(reopened) PROVE OvertakeInv'
    BY <1>8 DEF reset_output, OvertakeInv
  <1>9. CASE UNCHANGED vars
    BY <1>9 DEF vars, OvertakeInv
  <1>10. QED
    BY <1>2, <1>3, <1>4, <1>5, <1>6, <1>7, <1>8, <1>9 DEF Next, Pump

(* Once a priority frame is the next of its band, at most the one bulk frame
   the pump had already peeked starts ahead of it, whatever the other core
   queues in the gaps of the pump (owed_band). *)
THEOREM SeamPriorityOvertakes == Spec => []PriorityOvertakes
  <1>1. Init => OvertakeInv
    BY DEF Init, OvertakeInv
  <1>2. OvertakeInv => PriorityOvertakes
    BY DEF OvertakeInv, PriorityOvertakes
  <1>3. QED
    BY <1>1, <1>2, NextOvertakes, SeamInvariant, PTL DEF Spec

-----------------------------------------------------------------------------
(* Frames that queue up behind leave a pair as it is. *)
LEMMA GrowKeepsPairs ==
  ASSUME SeamInv, LineOK, PairInv, QueueOK(q'), NEW c \in BandIds, Grows(q, q', c, next, next'),
         next' \in Nat, next <= next', UNCHANGED <<pump, view, seconds, onWire>>
  PROVE  PairInv'
  <1>0. QueueOK(q) /\ next \in Nat /\ "priority" \in BandIds /\ "bulk" \in BandIds
    BY DEF SeamInv, TypeOK, BandIds
  <1>1. /\ \A b \in BandIds : Holds(q, b) => Holds(q', b) /\ q'.band[b] = q.band[b]
        /\ \A b \in BandIds : Holds(q', b) /\ ~ Holds(q, b) => Fresh(q'.band[b].buf, c, next, next')
        /\ \A b \in BandIds : \A i \in DOMAIN q'.stage[b] :
             \/ i \in DOMAIN q.stage[b] /\ q'.stage[b][i] = q.stage[b][i]
             \/ Fresh(q'.stage[b][i], c, next, next')
        /\ \A b \in BandIds : q'.band[b].sent = q.band[b].sent
    BY GrownLine
  <1>2. \A n \in seconds : n \in Nat /\ 0 < n /\ n < next /\ ~ InLine(q, n, "bulk")
    BY DEF PairInv
  <1>3. \A f : Fresh(f, c, next, next') => f.id \notin seconds
    BY <1>0, <1>2 DEF Fresh
  <1>4. \A n \in seconds : n \in Nat /\ 0 < n /\ n < next' /\ ~ InLine(q', n, "bulk")
    <2>1. ASSUME NEW n \in seconds, InLine(q', n, "bulk") PROVE FALSE
      <3>1. CASE Holds(q', "bulk") /\ n = q'.band["bulk"].buf.id
        BY <1>0, <1>1, <1>2, <1>3, <3>1 DEF InLine
      <3>2. CASE \E i \in DOMAIN q'.stage["bulk"] : n = q'.stage["bulk"][i].id
        BY <1>0, <1>1, <1>2, <1>3, <3>2 DEF InLine
      <3>3. QED
        BY <2>1, <3>1, <3>2 DEF InLine
    <2>2. QED
      BY <1>0, <1>2, <2>1
  <1>5. \A b \in BandIds : Written(b)' = Written(b)
    BY <1>1 DEF Written
  <1>6. \A b \in BandIds : Written(b)' > 0 => onWire = q'.band[b].buf
    BY <1>1, <1>5, WrittenHeld DEF PairInv
  <1>7. ASSUME NEW i \in DOMAIN q'.stage["priority"], q'.stage["priority"][i].id \in seconds
        PROVE  i = 1 /\ q'.band["priority"].buf.id = q'.stage["priority"][i].id - 1
    <2>1. i \in DOMAIN q.stage["priority"] /\ q'.stage["priority"][i] = q.stage["priority"][i]
      BY <1>0, <1>1, <1>3, <1>7
    <2>2. Holds(q, "priority")
      BY <1>0, <2>1, QueueTypes
    <2>3. QED
      BY <1>0, <1>1, <1>7, <2>1, <2>2 DEF PairInv
  <1>8. ASSUME Holds(q', "priority"), q'.band["priority"].buf.id \in seconds
        PROVE  Holds(q, "priority") /\ q'.band["priority"] = q.band["priority"]
    BY <1>0, <1>1, <1>3, <1>8
  <1>9. q'.band["bulk"].sent = q.band["bulk"].sent /\ Written("priority")' = Written("priority")
    BY <1>0, <1>1, <1>5
  <1>10. QED
    BY <1>4, <1>6, <1>7, <1>8, <1>9 DEF PairInv

(* A pair admitted to an empty band. *)
LEMMA PairKeepsPairs ==
  ASSUME SeamInv, LineOK, PairInv, QueueOK(q'), NEW k \in FrameKinds, NEW l \in FrameKinds,
         OfferPair(k, l)
  PROVE  PairInv'
  <1> DEFINE f == FrameOf(k, next)
             g == FrameOf(l, next + 1)
  <1>1. next \in Nat /\ next' = next + 2 /\ q' = dh_outq_offer_pair(q, f, g) /\ QueueOK(q)
    BY DEF SeamInv, TypeOK, OfferPair
  <1>2. UNCHANGED <<pump, view, onWire>>
        /\ seconds' = IF AdmitsPair(q, f, g) THEN seconds \cup {g.id} ELSE seconds
    BY DEF OfferPair
  <1>3. f \in Frames /\ g \in Frames
    BY <1>1, FrameOfType
  <1>4. f.id = next /\ g.id = next + 1
    BY DEF FrameOf
  <1> HIDE DEF f, g
  <1>5. Grows(q, q', "priority", next, next') /\ "priority" \in BandIds /\ "bulk" \in BandIds
    BY PairGrows DEF BandIds
  <1>6. CASE ~ AdmitsPair(q, f, g)
    <2>1. next <= next' /\ next' \in Nat /\ seconds' = seconds
      BY <1>1, <1>2, <1>6
    <2>2. QED
      BY <1>2, <1>5, <2>1, GrowKeepsPairs
  <1>7. CASE AdmitsPair(q, f, g)
    <2>1. q.band \in [BandIds -> Bands] /\ q.stage \in [BandIds -> Seq(Frames)]
      BY <1>1 DEF QueueOK, Queues
    <2>2. /\ q'.band = [q.band EXCEPT !["priority"] = Load(f)]
          /\ q'.stage = [q.stage EXCEPT !["priority"] = <<g>>]
          /\ ~ Holds(q, "priority")
      BY <1>1, <1>3, <1>7, PairEffect
    <2>3. /\ q'.band["priority"].buf = f /\ q'.stage["priority"] = <<g>>
          /\ q'.band["priority"].sent = 0
          /\ q'.band["bulk"] = q.band["bulk"] /\ q'.stage["bulk"] = q.stage["bulk"]
      BY <1>5, <2>1, <2>2 DEF Load
    <2>4. seconds' = seconds \cup {next + 1}
      BY <1>2, <1>4, <1>7
    <2>5. \A n \in seconds : n \in Nat /\ 0 < n /\ n < next /\ ~ InLine(q, n, "bulk")
      BY DEF PairInv
    <2>6. \A n : InLine(q', n, "bulk") <=> InLine(q, n, "bulk")
      BY <2>3 DEF InLine, Holds
    <2>7. ~ InLine(q, next + 1, "bulk")
      BY <1>1, <1>5 DEF InLine, LineOK
    <2>8. \A n \in seconds' : n \in Nat /\ 0 < n /\ n < next' /\ ~ InLine(q', n, "bulk")
      BY <1>1, <2>4, <2>5, <2>6, <2>7
    <2>9. ASSUME NEW b \in BandIds, Written(b)' > 0 PROVE onWire' = q'.band[b].buf
      <3>1. CASE b = "priority"
        <4>1. pump # "idle" => view.band # "priority"
          BY <2>2 DEF SeamInv, ViewFresh
        <4>2. Written("priority")' = 0
          BY <1>2, <2>3, <4>1 DEF Written
        <4>3. QED
          BY <2>9, <3>1, <4>2
      <3>2. CASE b = "bulk"
        <4>1. Written(b)' = Written(b)
          BY <1>2, <2>3, <3>2 DEF Written
        <4>2. QED
          BY <1>2, <1>5, <2>3, <2>9, <3>2, <4>1 DEF PairInv
      <3>3. QED
        BY <3>1, <3>2 DEF BandIds
    <2>10. ASSUME NEW i \in DOMAIN q'.stage["priority"]
           PROVE  i = 1 /\ q'.band["priority"].buf.id = q'.stage["priority"][i].id - 1
      BY <1>1, <1>4, <2>3
    <2>11. q'.band["priority"].buf.id \notin seconds'
      BY <1>1, <1>4, <2>3, <2>4, <2>5
    <2>12. QED
      BY <2>8, <2>9, <2>10, <2>11 DEF PairInv
  <1>8. QED
    BY <1>6, <1>7

(* A report written, received or not: a start makes its frame the last on the
   wire. *)
LEMMA WriteKeepsPairs ==
  ASSUME SeamInv, PairInv, pump = "peeked", pump' = "written",
         UNCHANGED <<q, view, next, seconds>>, WriteHistory
  PROVE  PairInv'
  <1>1. /\ view.band \in BandIds /\ view.at \in Nat /\ view.frame = q.band[view.band].buf
        /\ Written(view.band) = view.at /\ view.at = q.band[view.band].sent
    BY PeekedReport
  <1>2. \A b \in BandIds : b # view.band => Written(b)' = 0
    BY PeekedReport DEF Written
  <1>3. onWire' = q.band[view.band].buf
    <2>1. CASE view.at = 0
      BY <1>1, <2>1 DEF WriteHistory, Starts
    <2>2. CASE view.at # 0
      BY <1>1, <2>2 DEF WriteHistory, Starts, PairInv
    <2>3. QED
      BY <2>1, <2>2
  <1>4. \A b \in BandIds : Written(b)' > 0 => onWire' = q'.band[b].buf
    BY <1>2, <1>3
  <1>5. Holds(q', "priority") /\ q'.band["priority"].buf.id \in seconds' =>
          /\ view'.band = "priority" /\ q'.band["bulk"].sent = 0
    BY DEF PairInv
  <1>6. view.band = "priority" => Written("priority")' # 0
    BY <1>1 DEF Written
  <1>7. \A n : InLine(q', n, "bulk") <=> InLine(q, n, "bulk")
    BY DEF InLine
  <1>8. QED
    BY <1>4, <1>5, <1>6, <1>7 DEF PairInv

(* The credit: the second of a pair follows its first. *)
LEMMA AdvanceKeepsPairs ==
  ASSUME SeamInv, PairInv, PumpAdvance
  PROVE  PairInv'
  <1> DEFINE w == view.band
  <1>0. /\ UNCHANGED <<next, seconds, onWire>> /\ pump = "written" /\ pump' = "idle"
        /\ "priority" \in BandIds /\ "bulk" \in BandIds
    BY DEF PumpAdvance, BandIds
  <1>1. w \in BandIds /\ QueueOK(q) /\ Written(w) = q.band[w].sent + 1
        /\ (\A b \in BandIds : Written(b)' = q'.band[b].sent)
    BY AdvanceLine
  <1>2. \A b \in BandIds : b # w => q'.band[b] = q.band[b] /\ q'.stage[b] = q.stage[b]
                                    /\ q.band[b].sent = 0
    BY AdvanceLine
  <1>3. q.band[w].sent \in Nat /\ onWire = q.band[w].buf
    <2>1. q.band[w].sent \in Nat
      BY <1>1, QueueTypes
    <2>2. Written(w) > 0
      BY <1>1, <2>1
    <2>3. QED
      BY <1>1, <2>1, <2>2 DEF PairInv
  <1>4. \A n \in seconds : n \in Nat /\ 0 < n /\ n < next /\ ~ InLine(q', n, "bulk")
    BY <1>0, AdvanceShrinks DEF PairInv
  <1>5. ASSUME NEW b \in BandIds, Written(b)' > 0 PROVE onWire = q'.band[b].buf
    <2>1. b = w
      BY <1>1, <1>2, <1>5
    <2>2. q'.band[w].sent # 0
      BY <1>1, <1>5, <2>1
    <2>3. q'.band[w].buf = q.band[w].buf
      BY <2>2, AdvanceLine
    <2>4. QED
      BY <1>3, <2>1, <2>3
  <1>6. CASE w = "bulk"
    <2>1. q'.band["priority"] = q.band["priority"] /\ q'.stage["priority"] = q.stage["priority"]
      BY <1>0, <1>2, <1>6
    <2>2. ~ (Holds(q', "priority") /\ q'.band["priority"].buf.id \in seconds)
      BY <1>0, <1>6, <2>1 DEF PairInv, Holds
    <2>3. QED
      BY <1>0, <1>4, <1>5, <2>1, <2>2 DEF PairInv
  <1>7. CASE w = "priority"
    <2>1. q'.band["bulk"].sent = 0
      BY <1>0, <1>2, <1>7
    <2>2. CASE /\ Holds(q', w) /\ q'.band[w].buf = q.band[w].buf
               /\ q'.band[w].sent = q.band[w].sent + 1 /\ q'.stage[w] = q.stage[w]
      <3>1. Written("priority")' # 0
        BY <1>0, <1>1, <1>3, <1>7, <2>2
      <3>2. QED
        BY <1>0, <1>4, <1>5, <1>7, <2>1, <2>2, <3>1 DEF PairInv
    <2>3. CASE ~ Holds(q', w) /\ q'.stage[w] = <<>>
      BY <1>0, <1>4, <1>5, <1>7, <2>3 DEF PairInv
    <2>4. CASE /\ 1 \in DOMAIN q.stage[w] /\ q'.band[w].buf = q.stage[w][1]
               /\ q'.stage[w] = Tail(q.stage[w])
      <3>1. \A i \in DOMAIN q'.stage[w] : /\ i \in Nat /\ i + 1 \in DOMAIN q.stage[w]
                                          /\ q'.stage[w][i] = q.stage[w][i + 1] /\ 1 < i + 1
        BY <1>1, <2>4, QueueTypes, TailRing
      <3>2. \A i \in DOMAIN q'.stage["priority"] : q'.stage["priority"][i].id \notin seconds
        BY <1>7, <3>1 DEF PairInv
      <3>3. q'.band["priority"].buf.id \in seconds => onWire.id = q'.band["priority"].buf.id - 1
        BY <1>3, <1>7, <2>4 DEF PairInv
      <3>4. QED
        BY <1>0, <1>4, <1>5, <2>1, <3>2, <3>3 DEF PairInv
    <2>5. QED
      BY <2>2, <2>3, <2>4, AdvanceLine
  <1>8. QED
    BY <1>1, <1>6, <1>7 DEF BandIds

(* Every step keeps pairs together. *)
LEMMA NextKeepsPairs == SeamInv /\ SeamInv' /\ OrderInv /\ PairInv /\ [Next]_vars => PairInv'
  <1> SUFFICES ASSUME SeamInv, SeamInv', OrderInv, PairInv, [Next]_vars PROVE PairInv'
    OBVIOUS
  <1>0. QueueOK(q) /\ QueueOK(q') /\ next \in Nat /\ next' \in Nat
        /\ "priority" \in BandIds /\ "bulk" \in BandIds
    BY DEF SeamInv, TypeOK, BandIds
  <1>1. ASSUME NEW k \in FrameKinds, Offer(k) PROVE PairInv'
    <2>1. PICK c \in BandIds : Grows(q, q', c, next, next')
      BY <1>1, OfferGrows DEF OrderInv
    <2>2. next <= next' /\ UNCHANGED <<pump, view, seconds, onWire>>
      BY <1>0, <1>1 DEF Offer
    <2>3. QED
      BY <1>0, <2>1, <2>2, GrowKeepsPairs DEF OrderInv
  <1>2. ASSUME NEW k \in FrameKinds, NEW l \in FrameKinds, OfferPair(k, l) PROVE PairInv'
    BY <1>0, <1>2, PairKeepsPairs DEF OrderInv
  <1>3. CASE PumpPeek
    <2>1. UNCHANGED <<q, next, seconds, onWire>> /\ pump = "idle"
      BY <1>3 DEF PumpPeek, history
    <2>2. \A b \in BandIds : Written(b)' = Written(b)
      BY <1>3, <2>1 DEF PumpPeek, Written
    <2>3. Holds(q, "priority") /\ q.band["bulk"].sent = 0 => view'.band = "priority"
      <3>1. view'.band = owed_band(q)
        BY <1>3 DEF PumpPeek, dh_outq_peek
      <3>2. q.band["bulk"].sent = 0 => ~ band_in_flight(q.band["bulk"])
        BY <1>0, InFlightIsSent
      <3>3. QED
        BY <3>1, <3>2 DEF owed_band
    <2>4. \A n : InLine(q', n, "bulk") <=> InLine(q, n, "bulk")
      BY <2>1 DEF InLine
    <2>5. QED
      BY <1>0, <2>1, <2>2, <2>3, <2>4 DEF PairInv
  <1>4. CASE PumpRefused \/ UNCHANGED vars
    <2>1. UNCHANGED <<q, next, seconds, onWire>> /\ (pump' = "idle" \/ UNCHANGED <<pump, view>>)
      BY <1>4 DEF PumpRefused, history, vars
    <2>2. \A b \in BandIds : Written(b)' = Written(b)
      BY <1>4, <2>1 DEF PumpRefused, vars, Written
    <2>3. \A n : InLine(q', n, "bulk") <=> InLine(q, n, "bulk")
      BY <2>1 DEF InLine
    <2>4. QED
      BY <1>0, <2>1, <2>2, <2>3 DEF PairInv
  <1>5. CASE PumpWrite \/ PumpWriteLost
    BY <1>5, WriteKeepsPairs DEF PumpWrite, PumpWriteLost
  <1>6. ASSUME NEW reopened \in BOOLEAN, reset_output(reopened) PROVE PairInv'
    <2>1. \A b \in BandIds : ~ Holds(q', b) /\ q'.stage[b] = <<>> /\ Written(b)' = 0
      BY <1>6, ResetEmpties
    <2>2. UNCHANGED <<next, seconds>>
      BY <1>6 DEF reset_output
    <2>3. \A n : ~ InLine(q', n, "bulk")
      BY <1>0, <2>1 DEF InLine
    <2>4. QED
      BY <1>0, <2>1, <2>2, <2>3 DEF PairInv
  <1>7. QED
    BY <1>1, <1>2, <1>3, <1>4, <1>5, <1>6, AdvanceKeepsPairs DEF Next, Pump

(* The second of a pair stays behind its first until that one was sent. *)
THEOREM SeamPairInvariant == Spec => []PairInv
  <1>1. Init => PairInv
    <2> SUFFICES ASSUME Init PROVE PairInv
      OBVIOUS
    <2>1. \A b \in BandIds : ~ Holds(q, b) /\ q.stage[b] = <<>> /\ Written(b) = 0
      BY DEF Init, dh_outq_init, Holds, band_clear, Load, NoFrame, Written
    <2>2. QED
      BY <2>1 DEF Init, PairInv, BandIds
  <1>2. QED
    BY <1>1, NextKeepsPairs, SeamInvariant, SeamOrderInvariant, PTL DEF Spec

\* What a step may put on the wire.
PairStep == onWire'.id \in seconds => onWire'.id = onWire.id \/ onWire.id = onWire'.id - 1

(* When the second frame of a pair starts, the frame that started before it is
   its first, whatever is queued or peeked around them (dh_outq_offer_pair,
   owed_band). *)
THEOREM SeamPairAdjacent == Spec => PairAdjacent
  <1>1. SeamInv /\ PairInv /\ [Next]_vars => PairStep
    <2> SUFFICES ASSUME SeamInv, PairInv, [Next]_vars, onWire' # onWire PROVE PairStep
      BY DEF PairStep
    <2>1. pump = "peeked" /\ Starts(view) /\ onWire' = view.frame
      BY DEF Next, Pump, vars, history, Offer, OfferPair, PumpPeek, PumpRefused, PumpWrite,
             PumpWriteLost, WriteHistory, PumpAdvance, reset_output
    <2>2. /\ view.band \in BandIds /\ view.frame = q.band[view.band].buf
          /\ Written(view.band) = 0 /\ Holds(q, view.band)
      BY <2>1, PeekedReport DEF Starts, SeamInv, ViewFresh
    <2>3. CASE view.band = "priority"
      BY <2>1, <2>2, <2>3 DEF PairStep, PairInv
    <2>4. CASE view.band = "bulk"
      <3>1. InLine(q, onWire'.id, "bulk")
        BY <2>1, <2>2, <2>4 DEF InLine
      <3>2. QED
        BY <3>1 DEF PairStep, PairInv
    <2>5. QED
      BY <2>2, <2>3, <2>4 DEF BandIds
  <1>2. SeamInv /\ PairInv /\ [Next]_vars =>
          [onWire'.id \in seconds => onWire'.id = onWire.id \/ onWire.id = onWire'.id - 1]_vars
    BY <1>1 DEF PairStep
  <1>3. QED
    BY <1>2, SeamInvariant, SeamPairInvariant, PTL DEF Spec, PairAdjacent
=============================================================================
