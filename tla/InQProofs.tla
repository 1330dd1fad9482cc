----------------------------- MODULE InQProofs -----------------------------
(***************************************************************************)
(* Proofs about the inbound handoff ring: its invariant, and that it       *)
(* implements the bounded queue of module Handoff, at the code's own       *)
(* widths and for any number of frames.                                    *)
(***************************************************************************)
EXTENDS InQ, SequenceTheorems, TLAPS

\* The slot of the frame i places behind the oldest one.
SlotOf(h, i) == inq_slot_at((h + i) % UINT8)

\* What core 1 has in hand.
WriterOK ==
    /\ writer # "idle" => dh_inq_pending(head, tail) < DH_INQ_DEPTH /\ next <= MaxFrames
    /\ writer = "staged" => slot[inq_slot_at(tail)] = next

\* What core 0 has in hand.
ReaderOK ==
    /\ reader = "holding" => dh_inq_pending(head, tail) >= 1 /\ at = inq_slot_at(head)
    /\ reader = "resetting" => dh_inq_pending(head, seen) <= dh_inq_pending(head, tail)

\* Every parked frame is whole, older than the next and in order.
ParkedOK ==
    /\ \A i \in 0 .. dh_inq_pending(head, tail) - 1 : slot[SlotOf(head, i)] \in 1 .. MaxFrames
    /\ \A i \in 0 .. dh_inq_pending(head, tail) - 1 : slot[SlotOf(head, i)] < next
    /\ \A i, j \in 0 .. dh_inq_pending(head, tail) - 1 :
          i < j => slot[SlotOf(head, i)] < slot[SlotOf(head, j)]

RingInv == TypeOK /\ WriterOK /\ ReaderOK /\ ParkedOK /\ HeldStable
-----------------------------------------------------------------------------
(* The distance between the counters, without the wrap. *)
LEMMA PendingCases ==
  ASSUME NEW h \in Byte, NEW t \in Byte
  PROVE  /\ dh_inq_pending(h, t) \in 0 .. UINT8 - 1
         /\ t >= h => dh_inq_pending(h, t) = t - h
         /\ t < h => dh_inq_pending(h, t) = t - h + UINT8
  <1>1. h \in Int /\ t \in Int /\ 0 <= h /\ h <= 255 /\ 0 <= t /\ t <= 255
    BY DEF Byte, UINT8
  <1>2. t - h \in Int /\ (t - h) % 256 \in 0 .. 255
    BY <1>1
  <1>3. CASE t >= h
    BY <1>1, <1>3 DEF dh_inq_pending, UINT8
  <1>4. CASE t < h
    BY <1>1, <1>4 DEF dh_inq_pending, UINT8
  <1>5. QED
    BY <1>1, <1>2, <1>3, <1>4 DEF dh_inq_pending, UINT8

(* Publishing adds one to it and releasing takes one away, across the wrap. *)
LEMMA PendingMoves ==
  ASSUME NEW h \in Byte, NEW t \in Byte, dh_inq_pending(h, t) <= DH_INQ_DEPTH
  PROVE  /\ (t + 1) % UINT8 \in Byte /\ (h + 1) % UINT8 \in Byte
         /\ dh_inq_pending(h, (t + 1) % UINT8) = dh_inq_pending(h, t) + 1
         /\ dh_inq_pending(h, t) >= 1 =>
              dh_inq_pending((h + 1) % UINT8, t) = dh_inq_pending(h, t) - 1
  <1>1. h \in Int /\ t \in Int /\ 0 <= h /\ h <= 255 /\ 0 <= t /\ t <= 255
    BY DEF Byte, UINT8
  <1>2. (t + 1) % UINT8 = IF t = 255 THEN 0 ELSE t + 1
    BY <1>1 DEF UINT8
  <1>3. (h + 1) % UINT8 = IF h = 255 THEN 0 ELSE h + 1
    BY <1>1 DEF UINT8
  <1>4. (t + 1) % UINT8 \in Byte /\ (h + 1) % UINT8 \in Byte
    BY <1>1, <1>2, <1>3 DEF Byte, UINT8
  <1>5. dh_inq_pending(h, (t + 1) % UINT8) = dh_inq_pending(h, t) + 1
    BY <1>1, <1>2, <1>4, PendingCases DEF UINT8, DH_INQ_DEPTH
  <1>6. dh_inq_pending(h, t) >= 1 =>
          dh_inq_pending((h + 1) % UINT8, t) = dh_inq_pending(h, t) - 1
    BY <1>1, <1>3, <1>4, PendingCases DEF UINT8, DH_INQ_DEPTH
  <1>7. QED
    BY <1>4, <1>5, <1>6

(* The slots of the parked frames: the next one to write is none of them,
   and taking the oldest renumbers the rest. *)
LEMMA SlotsApart ==
  ASSUME NEW h \in Byte, NEW t \in Byte, NEW i \in 0 .. DH_INQ_DEPTH - 1
  PROVE  /\ SlotOf(h, i) \in Slots /\ inq_slot_at(t) \in Slots
         /\ SlotOf(h, 0) = inq_slot_at(h)
         /\ SlotOf((h + 1) % UINT8, i) = SlotOf(h, i + 1)
         /\ dh_inq_pending(h, t) = i => SlotOf(h, i) = inq_slot_at(t)
         /\ dh_inq_pending(h, t) < DH_INQ_DEPTH /\ i < dh_inq_pending(h, t) =>
              SlotOf(h, i) # inq_slot_at(t)
  BY DEF Byte, SlotOf, inq_slot_at, dh_inq_pending, UINT8, DH_INQ_DEPTH, Slots

(* Moving the consumer up to a tail it loaded earlier. *)
LEMMA ResetMoves ==
  ASSUME NEW h \in Byte, NEW t \in Byte, NEW s \in Byte,
         dh_inq_pending(h, t) <= DH_INQ_DEPTH,
         dh_inq_pending(h, s) <= dh_inq_pending(h, t)
  PROVE  /\ dh_inq_pending(s, t) = dh_inq_pending(h, t) - dh_inq_pending(h, s)
         /\ \A i \in 0 .. DH_INQ_DEPTH : SlotOf(s, i) = SlotOf(h, i + dh_inq_pending(h, s))
  BY DEF Byte, SlotOf, inq_slot_at, dh_inq_pending, UINT8, DH_INQ_DEPTH, Slots
-----------------------------------------------------------------------------
(* What the invariant says of the counters and of the slots in use. *)
LEMMA RingFacts ==
  ASSUME RingInv
  PROVE  /\ head \in Byte /\ tail \in Byte /\ slot \in [Slots -> Nat]
         /\ dh_inq_pending(head, tail) \in 0 .. DH_INQ_DEPTH
         /\ inq_slot_at(tail) \in Slots /\ next \in Nat
         /\ \A i \in 0 .. dh_inq_pending(head, tail) - 1 :
               /\ SlotOf(head, i) \in Slots
               /\ dh_inq_pending(head, tail) < DH_INQ_DEPTH => SlotOf(head, i) # inq_slot_at(tail)
  <1>1. head \in Byte /\ tail \in Byte /\ slot \in [Slots -> Nat] /\ next \in Nat
        /\ dh_inq_pending(head, tail) <= DH_INQ_DEPTH
    BY DEF RingInv, TypeOK
  <1>2. dh_inq_pending(head, tail) \in 0 .. DH_INQ_DEPTH
    BY <1>1, PendingCases DEF DH_INQ_DEPTH, UINT8
  <1>3. inq_slot_at(tail) \in Slots
    BY <1>1, SlotsApart DEF DH_INQ_DEPTH
  <1>4. \A i \in 0 .. dh_inq_pending(head, tail) - 1 : i \in 0 .. DH_INQ_DEPTH - 1
    BY <1>2 DEF DH_INQ_DEPTH
  <1>5. QED
    BY <1>1, <1>2, <1>3, <1>4, SlotsApart

(* Core 1 writes into a slot no parked frame is in. *)
LEMMA SlotStep ==
  ASSUME RingInv, NEW v \in Nat, slot' = [slot EXCEPT ![inq_slot_at(tail)] = v],
         dh_inq_pending(head, tail) < DH_INQ_DEPTH, UNCHANGED <<head, tail, reader, at, seen, peeked, next>>
  PROVE  /\ slot' \in [Slots -> Nat] /\ slot'[inq_slot_at(tail)] = v
         /\ \A i \in 0 .. dh_inq_pending(head, tail) - 1 : slot'[SlotOf(head, i)] = slot[SlotOf(head, i)]
         /\ ReaderOK' /\ ParkedOK' /\ HeldStable'
  <1>1. /\ slot' \in [Slots -> Nat] /\ slot'[inq_slot_at(tail)] = v
        /\ \A i \in 0 .. dh_inq_pending(head, tail) - 1 : slot'[SlotOf(head, i)] = slot[SlotOf(head, i)]
    BY RingFacts
  <1>2. ReaderOK'
    BY DEF RingInv, ReaderOK
  <1>3. ParkedOK'
    BY <1>1 DEF RingInv, ParkedOK
  <1>4. HeldStable'
    <2>1. SlotOf(head, 0) = inq_slot_at(head)
      BY RingFacts, SlotsApart DEF DH_INQ_DEPTH
    <2>2. reader = "holding" => 0 \in 0 .. dh_inq_pending(head, tail) - 1 /\ at = SlotOf(head, 0)
      BY <2>1, RingFacts DEF RingInv, ReaderOK, DH_INQ_DEPTH
    <2>3. QED
      BY <1>1, <2>2 DEF RingInv, HeldStable
  <1>5. QED
    BY <1>1, <1>2, <1>3, <1>4

(* The parked frames as a sequence, for any counters and slots. *)
LEMMA ParkedSeq ==
  ASSUME NEW h \in Byte, NEW t \in Byte, NEW sl \in [Slots -> Nat],
         dh_inq_pending(h, t) <= DH_INQ_DEPTH,
         \A i \in 0 .. dh_inq_pending(h, t) - 1 : sl[SlotOf(h, i)] \in 1 .. MaxFrames
  PROVE  LET pk == [i \in 1 .. dh_inq_pending(h, t) |-> sl[inq_slot_at((h + i - 1) % UINT8)]]
         IN  /\ pk \in Seq(1 .. MaxFrames) /\ Len(pk) = dh_inq_pending(h, t)
             /\ \A i \in 1 .. dh_inq_pending(h, t) : pk[i] = sl[SlotOf(h, i - 1)]
  <1> DEFINE n == dh_inq_pending(h, t)
             e(i) == sl[inq_slot_at((h + i - 1) % UINT8)]
             pk == [i \in 1 .. n |-> e(i)]
  <1>1. n \in Nat
    BY PendingCases
  <1>2. \A i \in 1 .. n : e(i) = sl[SlotOf(h, i - 1)] /\ i - 1 \in 0 .. n - 1
    <2>1. \A i \in 1 .. n : h + i - 1 = h + (i - 1) /\ i - 1 \in 0 .. n - 1
      BY <1>1 DEF Byte, UINT8
    <2>2. QED
      BY <2>1 DEF SlotOf
  <1>3. \A i \in 1 .. n : e(i) \in 1 .. MaxFrames
    BY <1>2
  <1>4. pk \in [1 .. n -> 1 .. MaxFrames]
    BY <1>3
  <1>5. pk \in Seq(1 .. MaxFrames) /\ Len(pk) = n
    <2>1. pk \in Seq(1 .. MaxFrames)
      <3> HIDE DEF n, pk
      <3>1. QED
        BY <1>1, <1>4, SeqDef, Zenon
    <2>2. DOMAIN pk = 1 .. n /\ DOMAIN pk = 1 .. Len(pk) /\ Len(pk) \in Nat
      <3>1. DOMAIN pk = 1 .. n
        OBVIOUS
      <3> HIDE DEF n, pk
      <3>2. QED
        BY <2>1, <3>1, LenProperties
    <2>3. QED
      <3> HIDE DEF n, pk
      <3>1. QED
        BY <1>1, <2>1, <2>2
  <1>6. QED
    BY <1>2, <1>5

(* The same of the current state. *)
LEMMA ParkedNow ==
  ASSUME RingInv
  PROVE  /\ Parked \in Seq(1 .. MaxFrames) /\ Len(Parked) = dh_inq_pending(head, tail)
         /\ \A i \in 1 .. dh_inq_pending(head, tail) : Parked[i] = slot[SlotOf(head, i - 1)]
  BY ParkedSeq, RingFacts DEF RingInv, ParkedOK, TypeOK, Parked

(* The same of the state a step leads to. *)
LEMMA ParkedThen ==
  ASSUME RingInv'
  PROVE  /\ Parked' \in Seq(1 .. MaxFrames) /\ Len(Parked') = dh_inq_pending(head', tail')
         /\ \A i \in 1 .. dh_inq_pending(head', tail') : Parked'[i] = slot'[SlotOf(head', i - 1)]
  BY ParkedSeq DEF RingInv, ParkedOK, TypeOK, Parked

(* A step that moves neither counter nor any parked frame stutters. *)
LEMMA SameParked ==
  ASSUME RingInv, RingInv', UNCHANGED <<head, tail>>,
         \A i \in 0 .. dh_inq_pending(head, tail) - 1 : slot'[SlotOf(head, i)] = slot[SlotOf(head, i)]
  PROVE  Parked' = Parked
  <1> DEFINE n == dh_inq_pending(head, tail)
  <1>1. n \in Nat /\ dh_inq_pending(head', tail') = n
    BY RingFacts DEF DH_INQ_DEPTH
  <1>2. \A i \in 1 .. n : i - 1 \in 0 .. n - 1
    BY <1>1
  <1>3. \A i \in 1 .. n : Parked'[i] = Parked[i]
    BY <1>1, <1>2, ParkedNow, ParkedThen
  <1>4. QED
    BY <1>1, <1>3, ParkedNow, ParkedThen, SeqEqual

(* Room is checked before anything is written. *)
LEMMA StageStep ==
  ASSUME RingInv, dh_inq_stage
  PROVE  RingInv' /\ Parked' = Parked
  <1>1. dh_inq_pending(head, tail) < DH_INQ_DEPTH /\ next <= MaxFrames
    BY DEF dh_inq_stage, HasRoom
  <1>2. UNCHANGED <<head, tail, reader, at, seen, peeked, next, dropped>> /\ writer' = "copying"
        /\ slot' = [slot EXCEPT ![inq_slot_at(tail)] = 0]
    BY DEF dh_inq_stage, core0
  <1>3. /\ slot' \in [Slots -> Nat] /\ ReaderOK' /\ ParkedOK' /\ HeldStable'
        /\ \A i \in 0 .. dh_inq_pending(head, tail) - 1 : slot'[SlotOf(head, i)] = slot[SlotOf(head, i)]
    BY <1>1, <1>2, SlotStep
  <1>4. TypeOK' /\ WriterOK'
    BY <1>1, <1>2, <1>3 DEF RingInv, TypeOK, WriterOK
  <1>5. RingInv'
    BY <1>3, <1>4 DEF RingInv
  <1>6. QED
    BY <1>2, <1>3, <1>5, SameParked

(* A refusal only counts. *)
LEMMA RefusedStep ==
  ASSUME RingInv, StageRefused
  PROVE  RingInv' /\ Parked' = Parked
  <1>1. UNCHANGED <<head, tail, slot, writer, reader, at, seen, peeked, next>> /\ dropped' = dropped + 1
    BY DEF StageRefused, core0
  <1>2. RingInv'
    BY <1>1 DEF RingInv, TypeOK, WriterOK, ReaderOK, ParkedOK, HeldStable
  <1>3. QED
    BY <1>1, <1>2, SameParked

(* The copy finishes in the slot that had room. *)
LEMMA CopiedStep ==
  ASSUME RingInv, StageCopied
  PROVE  RingInv' /\ Parked' = Parked
  <1>1. dh_inq_pending(head, tail) < DH_INQ_DEPTH /\ next <= MaxFrames /\ next \in Nat
    BY DEF StageCopied, RingInv, WriterOK, TypeOK
  <1>2. UNCHANGED <<head, tail, reader, at, seen, peeked, next, dropped>> /\ writer' = "staged"
        /\ slot' = [slot EXCEPT ![inq_slot_at(tail)] = next]
    BY DEF StageCopied, core0
  <1>3. /\ slot' \in [Slots -> Nat] /\ ReaderOK' /\ ParkedOK' /\ HeldStable'
        /\ slot'[inq_slot_at(tail)] = next
        /\ \A i \in 0 .. dh_inq_pending(head, tail) - 1 : slot'[SlotOf(head, i)] = slot[SlotOf(head, i)]
    BY <1>1, <1>2, SlotStep
  <1>4. TypeOK' /\ WriterOK'
    BY <1>1, <1>2, <1>3 DEF RingInv, TypeOK, WriterOK
  <1>5. RingInv'
    BY <1>3, <1>4 DEF RingInv
  <1>6. QED
    BY <1>2, <1>3, <1>5, SameParked

(* Publishing hands over the frame that was staged, behind all the others. *)
LEMMA PublishStep ==
  ASSUME RingInv, dh_inq_publish
  PROVE  RingInv' /\ H!Put
  <1> DEFINE n == dh_inq_pending(head, tail)
  <1>1. /\ writer = "staged" /\ writer' = "idle" /\ tail' = (tail + 1) % UINT8 /\ next' = next + 1
        /\ UNCHANGED <<slot, dropped, head, reader, at, seen, peeked>>
    BY DEF dh_inq_publish, core0
  <1>2. /\ n \in Nat /\ n < DH_INQ_DEPTH /\ next \in 1 .. MaxFrames
        /\ slot[inq_slot_at(tail)] = next
    BY <1>1, RingFacts DEF RingInv, WriterOK, TypeOK
  <1>3. tail' \in Byte /\ dh_inq_pending(head, tail') = n + 1
    BY <1>1, PendingMoves DEF RingInv, TypeOK
  <1>4. SlotOf(head, n) = inq_slot_at(tail)
    BY <1>2, SlotsApart, RingFacts DEF DH_INQ_DEPTH
  <1>5. TypeOK'
    BY <1>1, <1>2, <1>3 DEF RingInv, TypeOK, DH_INQ_DEPTH
  <1>6. ParkedOK'
    <2>1. \A i \in 0 .. n : i \in 0 .. n - 1 \/ i = n
      BY <1>2
    <2>2. \A i \in 0 .. n - 1 : slot[SlotOf(head, i)] \in 1 .. MaxFrames /\ slot[SlotOf(head, i)] < next
      BY DEF RingInv, ParkedOK
    <2>3. slot[SlotOf(head, n)] = next
      BY <1>2, <1>4
    <2>4. dh_inq_pending(head, tail)' - 1 = n
      BY <1>1, <1>2, <1>3
    <2>5. \A i, j \in 0 .. n : i < j => slot[SlotOf(head, i)] < slot[SlotOf(head, j)]
      BY <1>2, <2>1, <2>2, <2>3 DEF RingInv, ParkedOK
    <2>6. \A i \in 0 .. n : slot[SlotOf(head, i)] \in 1 .. MaxFrames /\ slot[SlotOf(head, i)] < next + 1
      BY <1>2, <2>1, <2>2, <2>3
    <2>7. QED
      BY <1>1, <2>4, <2>5, <2>6 DEF ParkedOK
  <1>7. ReaderOK' /\ WriterOK' /\ HeldStable'
    <2>1. reader = "resetting" => dh_inq_pending(head, seen) <= n + 1
      <3>1. dh_inq_pending(head, seen) \in Int
        BY PendingCases, RingFacts DEF RingInv, TypeOK
      <3>2. QED
        BY <1>2, <3>1 DEF RingInv, ReaderOK
    <2>2. QED
      BY <1>1, <1>2, <1>3, <2>1 DEF RingInv, ReaderOK, WriterOK, HeldStable
  <1>8. RingInv'
    BY <1>5, <1>6, <1>7 DEF RingInv
  <1>9. Parked' = Append(Parked, next)
    <2>1. Append(Parked, next) \in Seq(1 .. MaxFrames) /\ Len(Append(Parked, next)) = n + 1
          /\ (\A i \in 1 .. n : Append(Parked, next)[i] = Parked[i])
          /\ Append(Parked, next)[n + 1] = next
      BY <1>2, ParkedNow
    <2>2. Len(Parked') = n + 1 /\ Parked' \in Seq(1 .. MaxFrames)
      BY <1>1, <1>3, <1>8, ParkedThen
    <2>3. \A i \in 1 .. n + 1 : Parked'[i] = slot[SlotOf(head, i - 1)]
      BY <1>1, <1>3, <1>8, ParkedThen
    <2>4. \A i \in 1 .. n + 1 : i \in 1 .. n \/ (i = n + 1 /\ i - 1 = n)
      BY <1>2
    <2>5. \A i \in 1 .. n + 1 : Parked'[i] = Append(Parked, next)[i]
      BY <1>2, <1>4, <2>1, <2>3, <2>4, ParkedNow
    <2>6. QED
      BY <2>1, <2>2, <2>5, SeqEqual
  <1>10. H!Put
    <2>1. (next - 1)' = next - 1 + 1 /\ next - 1 + 1 = next /\ (next - 1)' = next
      BY <1>1, <1>2
    <2>2. QED
      BY <1>2, <1>9, <2>1, ParkedNow DEF H!Put
  <1>11. QED
    BY <1>8, <1>10

(* The peek takes the address of the oldest whole frame. *)
LEMMA PeekStep ==
  ASSUME RingInv, dh_inq_peek
  PROVE  RingInv' /\ Parked' = Parked
  <1> DEFINE n == dh_inq_pending(head, tail)
  <1>1. /\ reader' = "holding" /\ at' = inq_slot_at(head) /\ peeked' = slot[inq_slot_at(head)]
        /\ n # 0 /\ UNCHANGED <<head, seen, tail, slot, writer, dropped, next>>
    BY DEF dh_inq_peek, core1
  <1>2. n >= 1 /\ 0 \in 0 .. n - 1 /\ n \in Nat
    BY <1>1, RingFacts DEF DH_INQ_DEPTH
  <1>3. SlotOf(head, 0) = inq_slot_at(head) /\ inq_slot_at(head) \in Slots
    BY RingFacts, SlotsApart DEF DH_INQ_DEPTH
  <1>4. slot[inq_slot_at(head)] \in 1 .. MaxFrames
    BY <1>2, <1>3 DEF RingInv, ParkedOK
  <1>5. TypeOK' /\ WriterOK' /\ ParkedOK'
    BY <1>1, <1>3, <1>4 DEF RingInv, TypeOK, WriterOK, ParkedOK
  <1>6. ReaderOK' /\ HeldStable'
    BY <1>1, <1>2, <1>4 DEF ReaderOK, HeldStable
  <1>7. RingInv'
    BY <1>5, <1>6 DEF RingInv
  <1>8. QED
    BY <1>1, <1>7, SameParked

(* The release gives the oldest slot back. *)
LEMMA ReleaseStep ==
  ASSUME RingInv, dh_inq_release
  PROVE  RingInv' /\ H!Take
  <1> DEFINE n == dh_inq_pending(head, tail)
  <1>1. /\ reader = "holding" /\ reader' = "idle" /\ at' = 0 /\ peeked' = 0
        /\ UNCHANGED <<seen, tail, slot, writer, dropped, next>>
    BY DEF dh_inq_release, core1
  <1>2. n \in 1 .. DH_INQ_DEPTH
    BY <1>1, RingFacts DEF RingInv, ReaderOK, DH_INQ_DEPTH
  <1>3. head' = (head + 1) % UINT8
    BY <1>2 DEF dh_inq_release
  <1>4. head' \in Byte /\ dh_inq_pending(head', tail) = n - 1
    BY <1>2, <1>3, PendingMoves DEF RingInv, TypeOK
  <1>5. \A i \in 0 .. n - 2 : SlotOf(head', i) = SlotOf(head, i + 1) /\ i + 1 \in 0 .. n - 1
    BY <1>2, <1>3, RingFacts, SlotsApart DEF DH_INQ_DEPTH
  <1>6. TypeOK' /\ WriterOK' /\ ReaderOK' /\ HeldStable'
    BY <1>1, <1>2, <1>4 DEF RingInv, TypeOK, WriterOK, ReaderOK, HeldStable, Slots, DH_INQ_DEPTH
  <1>7. ParkedOK'
    <2>1. dh_inq_pending(head, tail)' - 1 = n - 2
      BY <1>1, <1>2, <1>4
    <2>2. \A i \in 0 .. n - 2 : slot[SlotOf(head', i)] = slot[SlotOf(head, i + 1)] /\ i + 1 \in 0 .. n - 1
      BY <1>5
    <2>3. \A i, j \in 0 .. n - 2 : i < j => i + 1 < j + 1
      BY <1>2
    <2>4. QED
      BY <1>1, <2>1, <2>2, <2>3 DEF RingInv, ParkedOK
  <1>8. RingInv'
    BY <1>6, <1>7 DEF RingInv
  <1>9. Parked # <<>> /\ Parked' = Tail(Parked)
    <2>1. Parked \in Seq(1 .. MaxFrames) /\ Len(Parked) = n /\ Parked # <<>>
      BY <1>2, ParkedNow
    <2>2. /\ Tail(Parked) \in Seq(1 .. MaxFrames) /\ Len(Tail(Parked)) = n - 1
          /\ \A i \in 1 .. n - 1 : Tail(Parked)[i] = Parked[i + 1]
      BY <2>1, HeadTailProperties
    <2>3. /\ Parked' \in Seq(1 .. MaxFrames) /\ Len(Parked') = n - 1
          /\ \A i \in 1 .. n - 1 : Parked'[i] = slot[SlotOf(head', i - 1)]
      BY <1>1, <1>4, <1>8, ParkedThen
    <2>4. \A i \in 1 .. n - 1 : SlotOf(head', i - 1) = SlotOf(head, i)
      <3>1. \A i \in 1 .. n - 1 : i - 1 \in 0 .. n - 2 /\ (i - 1) + 1 = i
        BY <1>2
      <3>2. QED
        BY <1>5, <3>1
    <2>5. \A i \in 1 .. n - 1 : Parked[i + 1] = slot[SlotOf(head, i)]
      <3>1. \A i \in 1 .. n - 1 : i + 1 \in 1 .. n /\ (i + 1) - 1 = i
        BY <1>2
      <3>2. QED
        BY <3>1, ParkedNow
    <2>6. QED
      BY <2>1, <2>2, <2>3, <2>4, <2>5, SeqEqual
  <1>10. QED
    BY <1>1, <1>8, <1>9 DEF H!Take

(* Loading tail changes nothing in the ring. *)
LEMMA ResetLoadStep ==
  ASSUME RingInv, dh_inq_reset
  PROVE  RingInv' /\ Parked' = Parked
  <1>1. /\ reader' = "resetting" /\ seen' = tail
        /\ UNCHANGED <<head, at, peeked, tail, slot, writer, dropped, next>>
    BY DEF dh_inq_reset, core1
  <1>2. dh_inq_pending(head, tail) \in Nat
    BY RingFacts DEF DH_INQ_DEPTH
  <1>3. TypeOK' /\ WriterOK' /\ ParkedOK'
    BY <1>1 DEF RingInv, TypeOK, WriterOK, ParkedOK
  <1>4. ReaderOK' /\ HeldStable'
    BY <1>1, <1>2 DEF ReaderOK, HeldStable
  <1>5. RingInv'
    BY <1>3, <1>4 DEF RingInv
  <1>6. QED
    BY <1>1, <1>5, SameParked

(* Storing it drops what was parked at the load, and only that. *)
LEMMA ResetStoreStep ==
  ASSUME RingInv, ResetStore
  PROVE  RingInv' /\ (H!Drop \/ (Parked' = Parked /\ next' = next))
  <1> DEFINE n == dh_inq_pending(head, tail)
             d == dh_inq_pending(head, seen)
  <1>1. /\ reader = "resetting" /\ reader' = "idle" /\ head' = seen /\ seen' = 0
        /\ UNCHANGED <<at, peeked, tail, slot, writer, dropped, next>>
    BY DEF ResetStore, core1
  <1>2. n \in 0 .. DH_INQ_DEPTH /\ d \in 0 .. n /\ seen \in Byte
    <2>1. seen \in Byte /\ head \in Byte /\ d <= n
      BY <1>1 DEF RingInv, ReaderOK, TypeOK
    <2>2. d \in 0 .. UINT8 - 1
      BY <2>1, PendingCases
    <2>3. QED
      BY <2>1, <2>2, RingFacts DEF UINT8, DH_INQ_DEPTH
  <1>3. /\ dh_inq_pending(seen, tail) = n - d
        /\ \A i \in 0 .. DH_INQ_DEPTH : SlotOf(seen, i) = SlotOf(head, i + d)
    BY <1>2, ResetMoves DEF RingInv, TypeOK
  <1>4. \A i \in 0 .. (n - d) - 1 : SlotOf(seen, i) = SlotOf(head, i + d) /\ i + d \in 0 .. n - 1
    <2> HIDE DEF n, d
    <2>1. \A i \in 0 .. (n - d) - 1 : i \in 0 .. DH_INQ_DEPTH /\ i + d \in 0 .. n - 1
      BY <1>2 DEF DH_INQ_DEPTH
    <2>2. QED
      BY <1>3, <2>1
  <1>5. TypeOK' /\ WriterOK' /\ ReaderOK' /\ HeldStable'
    BY <1>1, <1>2, <1>3 DEF RingInv, TypeOK, WriterOK, ReaderOK, HeldStable, DH_INQ_DEPTH, Byte, UINT8
  <1>6. ParkedOK'
    <2>1. dh_inq_pending(head, tail)' - 1 = (n - d) - 1
      BY <1>1, <1>3
    <2>2. \A i \in 0 .. (n - d) - 1 : slot[SlotOf(seen, i)] = slot[SlotOf(head, i + d)] /\ i + d \in 0 .. n - 1
      BY <1>4
    <2>3. \A i, j \in 0 .. (n - d) - 1 : i < j => i + d < j + d
      BY <1>2
    <2>4. QED
      BY <1>1, <2>1, <2>2, <2>3 DEF RingInv, ParkedOK
  <1>7. RingInv'
    BY <1>5, <1>6 DEF RingInv
  <1>8. Parked' = SubSeq(Parked, d + 1, n)
    <2>1. \A i \in d + 1 .. n : Parked[i] \in 1 .. MaxFrames
      <3> HIDE DEF n, d
      <3>1. \A i \in d + 1 .. n : i \in 1 .. n
        BY <1>2
      <3>2. Parked \in [1 .. n -> 1 .. MaxFrames]
        BY ParkedNow, LenProperties DEF n
      <3>3. QED
        BY <3>1, <3>2
    <2>2. /\ SubSeq(Parked, d + 1, n) \in Seq(1 .. MaxFrames)
          /\ Len(SubSeq(Parked, d + 1, n)) = n - d
          /\ \A i \in 1 .. n - d : SubSeq(Parked, d + 1, n)[i] = Parked[i + d]
      <3>1. /\ SubSeq(Parked, d + 1, n) \in Seq(1 .. MaxFrames)
            /\ Len(SubSeq(Parked, d + 1, n)) = (IF d + 1 <= n THEN n - (d + 1) + 1 ELSE 0)
            /\ \A i \in 1 .. n - (d + 1) + 1 : SubSeq(Parked, d + 1, n)[i] = Parked[(d + 1) + i - 1]
        <4> HIDE DEF n, d
        <4>1. QED
          BY <1>2, <2>1, SubSeqProperties
      <3>2. \A i \in 1 .. n - d : (d + 1) + i - 1 = i + d
        BY <1>2
      <3>3. n - (d + 1) + 1 = n - d /\ (IF d + 1 <= n THEN n - (d + 1) + 1 ELSE 0) = n - d
        BY <1>2
      <3>4. QED
        BY <3>1, <3>2, <3>3
    <2>3. /\ Parked' \in Seq(1 .. MaxFrames) /\ Len(Parked') = n - d
          /\ \A i \in 1 .. n - d : Parked'[i] = slot[SlotOf(seen, i - 1)]
      BY <1>1, <1>3, <1>7, ParkedThen
    <2>4. \A i \in 1 .. n - d : SlotOf(seen, i - 1) = SlotOf(head, (i + d) - 1) /\ i + d \in 1 .. n
      <3>1. \A i \in 1 .. n - d : /\ i - 1 \in 0 .. (n - d) - 1 /\ (i - 1) + d = (i + d) - 1
                                  /\ i + d \in 1 .. n
        BY <1>2
      <3>2. QED
        BY <1>4, <3>1
    <2>5. \A i \in 1 .. n - d : Parked'[i] = Parked[i + d]
      BY <2>3, <2>4, ParkedNow
    <2>6. QED
      BY <2>2, <2>3, <2>5, SeqEqual
  <1>9. CASE d = 0
    <2>1. SubSeq(Parked, 1, Len(Parked)) = Parked
      BY ParkedNow, SubSeqFull
    <2>2. QED
      BY <1>1, <1>7, <1>8, <1>9, <2>1, ParkedNow
  <1>10. CASE d # 0
    <2>1. d \in 1 .. Len(Parked) /\ Len(Parked) = n
      BY <1>2, <1>10, ParkedNow
    <2>2. H!Drop
      BY <1>1, <1>8, <2>1 DEF H!Drop
    <2>3. QED
      BY <1>7, <2>2
  <1>11. QED
    BY <1>9, <1>10
-----------------------------------------------------------------------------
(* An empty ring. *)
LEMMA InitRing == Init => RingInv /\ H!Init
  <1> SUFFICES ASSUME Init PROVE RingInv /\ H!Init
    OBVIOUS
  <1>1. dh_inq_pending(head, tail) = 0
    BY DEF Init, dh_inq_pending, UINT8
  <1>2. RingInv
    BY <1>1 DEF Init, RingInv, TypeOK, WriterOK, ReaderOK, ParkedOK, HeldStable, Byte, UINT8, Slots, DH_INQ_DEPTH
  <1>3. Parked = <<>>
    BY <1>1, <1>2, ParkedNow
  <1>4. QED
    BY <1>2, <1>3 DEF H!Init, Init

(* Every step keeps the invariant and is a step of the handoff or stutters. *)
LEMMA RingStep == RingInv /\ [Next]_vars => RingInv' /\ [H!Next]_<<Parked, next - 1>>
  <1> SUFFICES ASSUME RingInv, [Next]_vars PROVE RingInv' /\ [H!Next]_<<Parked, next - 1>>
    OBVIOUS
  <1>1. CASE dh_inq_stage
    BY <1>1, StageStep DEF dh_inq_stage
  <1>2. CASE StageRefused
    BY <1>2, RefusedStep DEF StageRefused
  <1>3. CASE StageCopied
    BY <1>3, CopiedStep DEF StageCopied
  <1>4. CASE dh_inq_publish
    BY <1>4, PublishStep DEF H!Next
  <1>5. CASE dh_inq_peek
    BY <1>5, PeekStep DEF dh_inq_peek, core1
  <1>6. CASE dh_inq_release
    BY <1>6, ReleaseStep DEF H!Next
  <1>7. CASE dh_inq_reset
    BY <1>7, ResetLoadStep DEF dh_inq_reset, core1
  <1>8. CASE ResetStore
    BY <1>8, ResetStoreStep DEF H!Next
  <1>9. CASE UNCHANGED vars
    BY <1>9 DEF vars, RingInv, TypeOK, WriterOK, ReaderOK, ParkedOK, HeldStable, Parked
  <1>10. QED
    BY <1>1, <1>2, <1>3, <1>4, <1>5, <1>6, <1>7, <1>8, <1>9 DEF Next, Core0, Core1

(* The ring keeps its invariant for any number of frames: dh_inq_stage,
   dh_inq_publish, dh_inq_peek, dh_inq_release and dh_inq_reset. *)
THEOREM RingInvariant == Spec => []RingInv
  <1>1. Init => RingInv
    BY InitRing
  <1>2. RingInv /\ [Next]_vars => RingInv'
    BY RingStep
  <1>3. QED
    BY <1>1, <1>2, PTL DEF Spec

(* Core 1 never writes the slot core 0 is reading, over any number of wraps
   of the two byte counters (dh_inq_stage). *)
THEOREM RingHeldStable == Spec => []HeldStable
  <1>1. RingInv => HeldStable
    BY DEF RingInv
  <1>2. QED
    BY <1>1, RingInvariant, PTL

(* The ring keeps its types and never parks more than it has slots. *)
THEOREM RingTypeOK == Spec => []TypeOK
  <1>1. RingInv => TypeOK
    BY DEF RingInv
  <1>2. QED
    BY <1>1, RingInvariant, PTL

(* dh_inq implements the bounded in-order handoff its header promises. *)
THEOREM RingImplementsHandoff == Spec => ImplementsHandoff
  <1>1. Init => RingInv /\ H!Init
    BY InitRing
  <1>2. RingInv /\ [Next]_vars => RingInv' /\ [H!Next]_<<Parked, next - 1>>
    BY RingStep
  <1>3. QED
    BY <1>1, <1>2, PTL DEF Spec, ImplementsHandoff, H!Spec
=============================================================================
