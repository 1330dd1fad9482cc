---------------------------- MODULE RelayProofs ----------------------------
(***************************************************************************)
(* Proofs about the inter-board relay: a frame that arrives is the frame   *)
(* that was offered unless a START was lost, frames arrive in order, and   *)
(* while nothing is lost or reset none of them goes missing.               *)
(***************************************************************************)
EXTENDS Relay, TLAPS

RxStates ==
  [expected : Frames \cup {NoFrame}, have : Nat, head : Packets, broken : BOOLEAN,
   orphans : Nat, truncated : Nat]
Arrivals == [id : Nat, intact : BOOLEAN, startLost : BOOLEAN]

\* The bulk band, the only one a relay uses.
Buf == tx.q.band["bulk"].buf
Sent == tx.q.band["bulk"].sent
Begun == tx.q.band["bulk"].preamble_done
Staged == tx.q.stage["bulk"]

\* A held frame has packets left to send; an empty band has nothing staged.
QueueOK ==
  /\ tx.q.band["priority"] = band_clear /\ tx.q.stage["priority"] = <<>>
  /\ Buf.len > 0 => Sent < Buf.len
  /\ Buf.len = 0 => Staged = <<>> /\ ~ Begun
  /\ ~ Begun => Sent = 0

\* A relayed packet is a piece of some frame.
PacketsOK ==
  \A i \in 1 .. Len(uart) :
    uart[i].kind # "INPUT" =>
      uart[i].frame \in Frames /\ (uart[i].kind = "DATA" => uart[i].at < uart[i].frame.len)

TypeInv == TypeOK /\ QueueOK /\ PacketsOK
-----------------------------------------------------------------------------
(* Frames, bands and sequences. *)
LEMMA FrameIs ==
  /\ \A f \in Frames : f.len \in Nat /\ f.len > 0 /\ f.id \in Nat /\ f.tail \in Nat
  /\ NoFrame.len = 0 /\ NoFrame.id = 0 /\ NoFrame \notin Frames
  /\ band_clear \in Bands /\ band_clear.buf = NoFrame /\ band_clear.sent = 0
  /\ ~ band_clear.preamble_done
  BY DEF Frames, NoFrame, band_clear, Load, Bands, BandIds

LEMMA AppendIs ==
  ASSUME NEW S, NEW s \in Seq(S), NEW x \in S
  PROVE  /\ Append(s, x) \in Seq(S) /\ Len(Append(s, x)) = Len(s) + 1 /\ Len(s) \in Nat
         /\ Append(s, x)[Len(s) + 1] = x
         /\ \A i \in 1 .. Len(s) : Append(s, x)[i] = s[i]
  OBVIOUS

LEMMA TailIs ==
  ASSUME NEW S, NEW s \in Seq(S), s # <<>>
  PROVE  /\ Tail(s) \in Seq(S) /\ Len(Tail(s)) = Len(s) - 1 /\ Len(s) \in Nat /\ Len(s) >= 1
         /\ Head(s) = s[1] /\ Head(s) \in S
         /\ \A i \in 1 .. Len(Tail(s)) : i + 1 \in 1 .. Len(s) /\ Tail(s)[i] = s[i + 1]
  OBVIOUS

LEMMA Types ==
  ASSUME TypeOK
  PROVE  /\ tx \in [q : Queues, burst : Nat] /\ tx.q \in Queues /\ tx.burst \in Nat
         /\ pumping \in BOOLEAN /\ resetting \in BOOLEAN
         /\ uart \in Seq(Packets) /\ Len(uart) <= UART_QUEUE_LENGTH /\ Len(uart) \in Nat
         /\ rx \in RxStates /\ (rx.expected.len > 0 => rx.have < rx.expected.len)
         /\ next \in Nat /\ lost \in Nat /\ resets \in Nat /\ startLost \in BOOLEAN
         /\ arrived \in Arrivals
  BY DEF TypeOK, RxStates, Arrivals

LEMMA TypesNext ==
  ASSUME tx' \in [q : Queues, burst : Nat], pumping' \in BOOLEAN, resetting' \in BOOLEAN,
         uart' \in Seq(Packets), Len(uart') <= UART_QUEUE_LENGTH, rx' \in RxStates,
         rx'.expected.len > 0 => rx'.have < rx'.expected.len,
         next' \in Nat, lost' \in Nat, resets' \in Nat, startLost' \in BOOLEAN,
         arrived' \in Arrivals
  PROVE  TypeOK'
  BY DEF TypeOK, RxStates, Arrivals

LEMMA BandIs ==
  ASSUME NEW q \in Queues
  PROVE  /\ q.band \in [BandIds -> Bands] /\ q.stage \in [BandIds -> Seq(Frames)]
         /\ q.refused \in Nat /\ q.cause \in [Causes -> Nat]
         /\ q.band["bulk"] \in Bands /\ q.band["priority"] \in Bands
         /\ q.stage["bulk"] \in Seq(Frames) /\ q.stage["priority"] \in Seq(Frames)
         /\ q.band["bulk"].sent \in Nat /\ q.band["bulk"].preamble_done \in BOOLEAN
         /\ q.band["bulk"].buf \in Frames \cup {NoFrame} /\ q.band["bulk"].buf.len \in Nat
         /\ q.band["bulk"].buf.id \in Nat
  <1>1. /\ q.band \in [BandIds -> Bands] /\ q.stage \in [BandIds -> Seq(Frames)]
        /\ q.refused \in Nat /\ q.cause \in [Causes -> Nat]
    BY DEF Queues
  <1>2. /\ q.band["bulk"] \in Bands /\ q.band["priority"] \in Bands
        /\ q.stage["bulk"] \in Seq(Frames) /\ q.stage["priority"] \in Seq(Frames)
    BY <1>1 DEF BandIds
  <1>3. /\ q.band["bulk"].sent \in Nat /\ q.band["bulk"].preamble_done \in BOOLEAN
        /\ q.band["bulk"].buf \in Frames \cup {NoFrame}
    BY <1>2 DEF Bands
  <1>4. QED
    BY <1>1, <1>2, <1>3, FrameIs

(* What the relay's queue holds. *)
LEMMA SenderIs ==
  ASSUME TypeOK
  PROVE  /\ Buf \in Frames \cup {NoFrame} /\ Buf.len \in Nat /\ Buf.id \in Nat /\ Sent \in Nat
         /\ Begun \in BOOLEAN /\ Staged \in Seq(Frames) /\ Len(Staged) \in Nat
         /\ (Buf.len > 0 => Buf \in Frames) /\ (Buf.len = 0 => Buf = NoFrame)
  <1>1. tx.q \in Queues
    BY Types
  <1>2. /\ Buf \in Frames \cup {NoFrame} /\ Buf.len \in Nat /\ Buf.id \in Nat /\ Sent \in Nat
        /\ Begun \in BOOLEAN /\ Staged \in Seq(Frames)
    BY <1>1, BandIs DEF Buf, Sent, Begun, Staged
  <1>3. QED
    BY <1>2, FrameIs

(* dh_outq_offer of a bulk frame: refused and counted, staged, or loaded. *)
LEMMA OfferIs ==
  ASSUME NEW q \in Queues, NEW f \in Frames, f.band = "bulk", f.parses
  PROVE  LET r == dh_outq_offer(q, f) IN
         /\ r \in Queues
         /\ r.band["priority"] = q.band["priority"] /\ r.stage["priority"] = q.stage["priority"]
         /\ \/ /\ ~ Admits(q, f)
               /\ r.band["bulk"] = q.band["bulk"] /\ r.stage["bulk"] = q.stage["bulk"]
            \/ /\ Admits(q, f) /\ Holds(q, "bulk")
               /\ r.band["bulk"] = q.band["bulk"]
               /\ r.stage["bulk"] = Append(q.stage["bulk"], f)
            \/ /\ Admits(q, f) /\ ~ Holds(q, "bulk")
               /\ r.band["bulk"] = Load(f) /\ r.stage["bulk"] = q.stage["bulk"]
  <1>0. /\ q.band \in [BandIds -> Bands] /\ q.stage \in [BandIds -> Seq(Frames)]
        /\ q.refused \in Nat /\ q.cause \in [Causes -> Nat]
        /\ q.band["bulk"] \in Bands /\ q.stage["bulk"] \in Seq(Frames)
    BY BandIs
  <1>1. CASE NoRoom(q, f)
    <2> DEFINE r == refuse(q, "bulk")
    <2>1. dh_outq_offer(q, f) = r
      BY <1>1 DEF dh_outq_offer
    <2>2. Saturating(q.refused) \in Nat /\ [q.cause EXCEPT !["bulk"] = Saturating(@)] \in [Causes -> Nat]
      BY <1>0 DEF Saturating, Causes
    <2>3. r \in Queues /\ r.band = q.band /\ r.stage = q.stage
      BY <1>0, <2>2 DEF Queues, refuse
    <2>4. QED
      BY <1>1, <2>1, <2>3 DEF Admits
  <1>2. CASE ~ NoRoom(q, f) /\ Holds(q, "bulk")
    <2> DEFINE s == Append(q.stage["bulk"], f)
               r == [q EXCEPT !.stage["bulk"] = s]
    <2>1. dh_outq_offer(q, f) = r
      BY <1>2 DEF dh_outq_offer
    <2>2. s \in Seq(Frames)
      BY <1>0
    <2> HIDE DEF s
    <2>3. /\ r \in Queues /\ r.band = q.band /\ r.stage["bulk"] = s
          /\ r.stage["priority"] = q.stage["priority"]
      BY <1>0, <2>2 DEF Queues, BandIds
    <2>4. QED
      BY <1>2, <2>1, <2>3 DEF Admits, s
  <1>3. CASE ~ NoRoom(q, f) /\ ~ Holds(q, "bulk")
    <2> DEFINE b == Load(f)
               r == [q EXCEPT !.band["bulk"] = b]
    <2>1. dh_outq_offer(q, f) = r
      BY <1>3 DEF dh_outq_offer
    <2>2. b \in Bands
      BY DEF Load, Bands
    <2> HIDE DEF b
    <2>3. /\ r \in Queues /\ r.stage = q.stage /\ r.band["bulk"] = b
          /\ r.band["priority"] = q.band["priority"]
      BY <1>0, <2>2 DEF Queues, BandIds
    <2>4. QED
      BY <1>3, <2>1, <2>3 DEF Admits, b
  <1>4. QED
    BY <1>1, <1>2, <1>3

(* dh_relay_tx_peek and dh_relay_tx_commit: the START of the frame in the bulk
   band, then its packets one by one, and behind the last the next frame. *)
LEMMA CommitIs ==
  ASSUME TypeOK, QueueOK, relay_owed(tx)
  PROVE  LET p == dh_relay_tx_peek(tx)
             t == dh_relay_tx_commit(tx)
             b == t.q.band["bulk"]
         IN
         /\ Buf \in Frames /\ Sent < Buf.len
         /\ p.kind = (IF Begun THEN "DATA" ELSE "START") /\ p.frame = Buf /\ p.at = Sent
         /\ p \in Packets
         /\ t \in [q : Queues, burst : Nat]
         /\ t.q.band["priority"] = band_clear /\ t.q.stage["priority"] = <<>>
         /\ \/ /\ ~ Begun
               /\ b.buf = Buf /\ b.sent = Sent /\ b.preamble_done /\ t.q.stage["bulk"] = Staged
            \/ /\ Begun /\ Sent + 1 < Buf.len
               /\ b.buf = Buf /\ b.sent = Sent + 1 /\ b.preamble_done
               /\ t.q.stage["bulk"] = Staged
            \/ /\ Begun /\ Sent + 1 = Buf.len /\ Staged = <<>>
               /\ b = band_clear /\ t.q.stage["bulk"] = <<>>
            \/ /\ Begun /\ Sent + 1 = Buf.len /\ Staged # <<>>
               /\ b = Load(Head(Staged)) /\ t.q.stage["bulk"] = Tail(Staged)
  <1> DEFINE q == tx.q
             view == dh_outq_peek(q)
             t == dh_relay_tx_commit(tx)
  <1>0. q \in Queues /\ tx.burst \in Nat
    BY Types
  <1>1. /\ q.band \in [BandIds -> Bands] /\ q.stage \in [BandIds -> Seq(Frames)]
        /\ q.band["bulk"] \in Bands /\ q.stage["bulk"] \in Seq(Frames)
        /\ q.band["bulk"].buf \in Frames \cup {NoFrame} /\ q.band["bulk"].buf.len \in Nat
        /\ q.band["bulk"].sent \in Nat /\ q.band["bulk"].preamble_done \in BOOLEAN
    BY <1>0, BandIs
  <1>2. ~ Holds(q, "priority")
    BY FrameIs DEF QueueOK, Holds
  <1>3. owed_band(q) = "bulk" /\ Holds(q, "bulk")
    BY <1>2 DEF relay_owed, owed_band
  <1>4. /\ view.frame = Buf /\ view.at = Sent /\ view.band = "bulk"
        /\ view.preamble_owed = ~ Begun
    BY <1>3 DEF dh_outq_peek, Buf, Sent, Begun
  <1>5. Buf \in Frames /\ Sent < Buf.len /\ Sent \in Nat /\ Buf.len \in Nat
    BY <1>1, <1>3, FrameIs DEF QueueOK, Holds, Buf, Sent
  <1>6. dh_relay_tx_peek(tx) = [kind |-> IF view.preamble_owed THEN "START" ELSE "DATA",
                                frame |-> view.frame, at |-> view.at]
    BY DEF dh_relay_tx_peek
  <1>7. t = [q |-> IF view.preamble_owed THEN dh_outq_note_preamble(q, view)
                   ELSE dh_outq_advance(q, view),
             burst |-> tx.burst + 1]
    BY <1>4 DEF dh_relay_tx_commit
  <1> HIDE DEF view, t
  <1>8. /\ dh_relay_tx_peek(tx).kind = (IF Begun THEN "DATA" ELSE "START")
        /\ dh_relay_tx_peek(tx).frame = Buf /\ dh_relay_tx_peek(tx).at = Sent
        /\ dh_relay_tx_peek(tx) \in Packets
    <2> DEFINE kind == IF view.preamble_owed THEN "START" ELSE "DATA"
    <2>1. kind \in {"START", "DATA"} /\ kind = (IF Begun THEN "DATA" ELSE "START")
      BY <1>4, Zenon
    <2>2. dh_relay_tx_peek(tx) = [kind |-> kind, frame |-> Buf, at |-> Sent]
      BY <1>4, <1>6
    <2> HIDE DEF kind
    <2>3. [kind |-> kind, frame |-> Buf, at |-> Sent] \in Packets
      BY <1>5, <2>1 DEF Packets
    <2>4. QED
      BY <2>1, <2>2, <2>3
  <1>9. /\ q.band["priority"] = band_clear /\ q.stage["priority"] = <<>>
        /\ Begun = q.band["bulk"].preamble_done /\ Sent = q.band["bulk"].sent
        /\ Buf = q.band["bulk"].buf /\ Staged = q.stage["bulk"]
    BY DEF QueueOK, Begun, Sent, Buf, Staged
  <1>10. CASE ~ Begun
    <2> DEFINE b == [q.band["bulk"] EXCEPT !.preamble_done = TRUE]
               r == [q EXCEPT !.band["bulk"] = b]
    <2>1. t.q = r /\ t.burst = tx.burst + 1 /\ t = [q |-> r, burst |-> tx.burst + 1]
      <3>1. dh_outq_note_preamble(q, view) = r
        BY <1>1, <1>3, <1>4 DEF dh_outq_note_preamble, BandIds
      <3>2. QED
        BY <1>4, <1>7, <1>10, <3>1
    <2>2. b \in Bands /\ b.buf = Buf /\ b.sent = Sent /\ b.preamble_done
      BY <1>1, <1>9 DEF Bands
    <2> HIDE DEF b
    <2>3. /\ r \in Queues /\ r.band["bulk"] = b /\ r.band["priority"] = q.band["priority"]
          /\ r.stage = q.stage
      BY <1>0, <1>1, <2>2 DEF Queues, BandIds
    <2> HIDE DEF r
    <2>4. t \in [q : Queues, burst : Nat]
      BY <1>0, <2>1, <2>3
    <2>5. QED
      BY <1>5, <1>8, <1>9, <1>10, <2>1, <2>2, <2>3, <2>4 DEF t
  <1>11. CASE Begun /\ Sent + 1 < Buf.len
    <2> DEFINE b == [q.band["bulk"] EXCEPT !.sent = @ + 1]
               r == [q EXCEPT !.band["bulk"] = b]
    <2>1. t.q = r /\ t.burst = tx.burst + 1 /\ t = [q |-> r, burst |-> tx.burst + 1]
      <3>1. dh_outq_advance(q, view) = [q EXCEPT !.band["bulk"].sent = @ + 1]
        BY <1>3, <1>4, <1>9, <1>11 DEF dh_outq_advance
      <3>2. [q EXCEPT !.band["bulk"].sent = @ + 1] = r
        BY <1>1 DEF BandIds
      <3>3. QED
        BY <1>4, <1>7, <1>11, <3>1, <3>2
    <2>2. b \in Bands /\ b.buf = Buf /\ b.sent = Sent + 1 /\ b.preamble_done
      <3>1. /\ b \in Bands /\ b.buf = q.band["bulk"].buf /\ b.sent = q.band["bulk"].sent + 1
            /\ b.preamble_done = q.band["bulk"].preamble_done
        BY <1>1 DEF Bands
      <3> HIDE DEF b
      <3>2. QED
        BY <1>9, <1>11, <3>1
    <2> HIDE DEF b
    <2>3. /\ r \in Queues /\ r.band["bulk"] = b /\ r.band["priority"] = q.band["priority"]
          /\ r.stage = q.stage
      BY <1>0, <1>1, <2>2 DEF Queues, BandIds
    <2> HIDE DEF r
    <2>4. t \in [q : Queues, burst : Nat]
      BY <1>0, <2>1, <2>3
    <2>5. QED
      BY <1>5, <1>8, <1>9, <1>11, <2>1, <2>2, <2>3, <2>4 DEF t
  <1>12. CASE Begun /\ ~ (Sent + 1 < Buf.len)
    <2>0. Sent + 1 = Buf.len
      BY <1>5, <1>12
    <2>1. t = [q |-> promote(q, "bulk"), burst |-> tx.burst + 1]
      <3>1. dh_outq_advance(q, view) = promote(q, "bulk")
        BY <1>3, <1>4, <1>9, <1>12 DEF dh_outq_advance
      <3>2. QED
        BY <1>4, <1>7, <1>12, <3>1
    <2>2. CASE Staged = <<>>
      <3> DEFINE r == [q EXCEPT !.band["bulk"] = band_clear]
      <3>1. t = [q |-> r, burst |-> tx.burst + 1]
        BY <1>9, <2>1, <2>2 DEF promote
      <3>2. /\ r \in Queues /\ r.band["bulk"] = band_clear
            /\ r.band["priority"] = q.band["priority"] /\ r.stage = q.stage
        BY <1>0, <1>1, FrameIs DEF Queues, BandIds
      <3> HIDE DEF r
      <3>3. t \in [q : Queues, burst : Nat] /\ t.q = r
        BY <1>0, <3>1, <3>2
      <3>4. QED
        BY <1>5, <1>8, <1>9, <1>12, <2>0, <2>2, <3>2, <3>3 DEF t
    <2>3. CASE Staged # <<>>
      <3> DEFINE b == Load(Head(Staged))
                 s == Tail(Staged)
                 r == [q EXCEPT !.band["bulk"] = b, !.stage["bulk"] = s]
      <3>1. t = [q |-> r, burst |-> tx.burst + 1]
        BY <1>9, <2>1, <2>3 DEF promote
      <3>2. Head(Staged) \in Frames /\ s \in Seq(Frames)
        BY <1>1, <1>9, <2>3
      <3>3. b \in Bands
        BY <3>2 DEF Load, Bands
      <3> HIDE DEF b, s
      <3>4. /\ r \in Queues /\ r.band["bulk"] = b /\ r.stage["bulk"] = s
            /\ r.band["priority"] = q.band["priority"]
            /\ r.stage["priority"] = q.stage["priority"]
        BY <1>0, <1>1, <3>2, <3>3 DEF Queues, BandIds
      <3> HIDE DEF r
      <3>5. t \in [q : Queues, burst : Nat] /\ t.q = r
        BY <1>0, <3>1, <3>4
      <3>6. QED
        BY <1>5, <1>8, <1>9, <1>12, <2>0, <2>3, <3>4, <3>5 DEF t, b, s
    <2>4. QED
      BY <2>2, <2>3
  <1>13. QED
    BY <1>10, <1>11, <1>12

(* dh_outq_reset. *)
LEMMA ResetIs ==
  ASSUME NEW q \in Queues
  PROVE  LET r == dh_outq_reset(q) IN
         r \in Queues /\ \A b \in BandIds : r.band[b] = band_clear /\ r.stage[b] = <<>>
  <1> DEFINE bb == [b \in BandIds |-> band_clear]
             ss == [b \in BandIds |-> <<>>]
  <1>1. dh_outq_reset(q) = [q EXCEPT !.band = bb, !.stage = ss]
    BY DEF dh_outq_reset, dh_outq_init
  <1>2. bb \in [BandIds -> Bands] /\ ss \in [BandIds -> Seq(Frames)]
        /\ \A b \in BandIds : bb[b] = band_clear /\ ss[b] = <<>>
    BY FrameIs
  <1> HIDE DEF bb, ss
  <1>3. QED
    BY <1>1, <1>2 DEF Queues

-----------------------------------------------------------------------------
(* The sender's steps, by what they do to the bulk band. *)

LEMMA OffersIs ==
  ASSUME TypeInv, NEW k \in FrameKinds, relay_to_peer(k)
  PROVE  /\ UNCHANGED <<pumping, uart, rx, resetting, lost, resets, arrived, startLost, taken,
                        discarded>>
         /\ next' = next + 1 /\ tx' \in [q : Queues, burst : Nat] /\ QueueOK'
         /\ Begun' = Begun /\ Sent' = Sent
         /\ \/ Buf' = Buf /\ Staged' = Staged /\ refused' = refused \cup {next}
            \/ /\ Buf.len > 0 /\ Buf' = Buf /\ refused' = refused
               /\ \E f \in Frames : f.id = next /\ Staged' = Append(Staged, f)
            \/ /\ Buf.len = 0 /\ Buf' \in Frames /\ Buf'.id = next /\ Staged' = Staged
               /\ refused' = refused
  <1> DEFINE f == [id |-> next, band |-> "bulk", len |-> k.len, tail |-> k.tail, parses |-> TRUE]
             r == dh_outq_offer(tx.q, f)
  <1>0. TypeOK /\ QueueOK /\ tx \in [q : Queues, burst : Nat] /\ tx.q \in Queues /\ next \in Nat
    BY Types DEF TypeInv
  <1>1. f \in Frames /\ f.band = "bulk" /\ f.parses /\ f.id = next
    BY <1>0, RelayAssumption DEF Frames, BandIds
  <1>2. /\ UNCHANGED <<pumping, uart, rx, resetting, lost, resets, arrived, startLost, taken,
                       discarded>>
        /\ tx' = [tx EXCEPT !.q = r] /\ next' = next + 1
        /\ refused' = IF Admits(tx.q, f) THEN refused ELSE refused \cup {f.id}
    BY DEF relay_to_peer
  <1> HIDE DEF f
  <1>3. /\ r \in Queues
        /\ r.band["priority"] = tx.q.band["priority"]
        /\ r.stage["priority"] = tx.q.stage["priority"]
        /\ \/ /\ ~ Admits(tx.q, f)
              /\ r.band["bulk"] = tx.q.band["bulk"] /\ r.stage["bulk"] = tx.q.stage["bulk"]
           \/ /\ Admits(tx.q, f) /\ Holds(tx.q, "bulk")
              /\ r.band["bulk"] = tx.q.band["bulk"]
              /\ r.stage["bulk"] = Append(tx.q.stage["bulk"], f)
           \/ /\ Admits(tx.q, f) /\ ~ Holds(tx.q, "bulk")
              /\ r.band["bulk"] = Load(f) /\ r.stage["bulk"] = tx.q.stage["bulk"]
    BY <1>0, <1>1, OfferIs
  <1> HIDE DEF r
  <1>4. tx'.q = r /\ tx' \in [q : Queues, burst : Nat]
    BY <1>0, <1>2, <1>3
  <1>5. /\ Buf' = r.band["bulk"].buf /\ Sent' = r.band["bulk"].sent
        /\ Begun' = r.band["bulk"].preamble_done /\ Staged' = r.stage["bulk"]
        /\ Buf = tx.q.band["bulk"].buf /\ Sent = tx.q.band["bulk"].sent
        /\ Begun = tx.q.band["bulk"].preamble_done /\ Staged = tx.q.stage["bulk"]
    BY <1>4 DEF Buf, Sent, Begun, Staged
  <1>6. /\ Load(f).buf = f /\ Load(f).sent = 0 /\ Load(f).preamble_done = FALSE
        /\ Buf.len \in Nat /\ f.len \in Nat /\ f.len > 0
    BY <1>0, <1>1, SenderIs, FrameIs DEF Load
  <1>7. (tx.q.band["priority"] = band_clear /\ tx.q.stage["priority"] = <<>>)'
    BY <1>0, <1>3, <1>4 DEF QueueOK
  <1>8. CASE /\ ~ Admits(tx.q, f)
             /\ r.band["bulk"] = tx.q.band["bulk"] /\ r.stage["bulk"] = tx.q.stage["bulk"]
    <2>1. Buf' = Buf /\ Sent' = Sent /\ Begun' = Begun /\ Staged' = Staged
      BY <1>5, <1>8
    <2>2. QueueOK'
      BY <1>0, <1>7, <2>1 DEF QueueOK
    <2>3. QED
      BY <1>1, <1>2, <1>4, <1>8, <2>1, <2>2
  <1>9. CASE /\ Admits(tx.q, f) /\ Holds(tx.q, "bulk")
             /\ r.band["bulk"] = tx.q.band["bulk"]
             /\ r.stage["bulk"] = Append(tx.q.stage["bulk"], f)
    <2>1. Buf' = Buf /\ Sent' = Sent /\ Begun' = Begun /\ Staged' = Append(Staged, f) /\ Buf.len > 0
      BY <1>5, <1>9 DEF Holds
    <2>2. QueueOK'
      BY <1>0, <1>6, <1>7, <2>1 DEF QueueOK
    <2>3. QED
      BY <1>1, <1>2, <1>4, <1>9, <2>1, <2>2
  <1>10. CASE /\ Admits(tx.q, f) /\ ~ Holds(tx.q, "bulk")
              /\ r.band["bulk"] = Load(f) /\ r.stage["bulk"] = tx.q.stage["bulk"]
    <2>1. Buf.len = 0
      BY <1>5, <1>6, <1>10 DEF Holds
    <2>2. ~ Begun /\ Sent = 0
      BY <1>0, <2>1 DEF QueueOK
    <2>3. Buf' = f /\ Sent' = 0 /\ Begun' = FALSE /\ Staged' = Staged
      BY <1>5, <1>6, <1>10
    <2>4. Begun' = Begun
      <3>1. Begun \in BOOLEAN
        BY <1>0, SenderIs
      <3>2. QED
        BY <2>2, <2>3, <3>1
    <2>5. QueueOK'
      BY <1>6, <1>7, <2>3 DEF QueueOK
    <2>6. QED
      BY <1>1, <1>2, <1>4, <1>10, <2>1, <2>2, <2>3, <2>4, <2>5
  <1>11. QED
    BY <1>3, <1>8, <1>9, <1>10

LEMMA PumpsIs ==
  ASSUME TypeInv, PumpPacket
  PROVE  /\ UNCHANGED <<rx, resetting, next, lost, resets, history>>
         /\ pumping' \in BOOLEAN /\ tx' \in [q : Queues, burst : Nat] /\ QueueOK'
         /\ \/ UNCHANGED <<uart, tx>>
            \/ \E p \in Packets :
                 /\ uart' = Append(uart, p) /\ Len(uart) < UART_QUEUE_LENGTH
                 /\ p.frame = Buf /\ p.at = Sent /\ Buf \in Frames /\ Sent < Buf.len
                 /\ \/ /\ ~ Begun /\ p.kind = "START" /\ Sent = 0
                       /\ Buf' = Buf /\ Sent' = 0 /\ Begun' /\ Staged' = Staged
                    \/ /\ Begun /\ p.kind = "DATA" /\ Sent + 1 < Buf.len
                       /\ Buf' = Buf /\ Sent' = Sent + 1 /\ Begun' /\ Staged' = Staged
                    \/ /\ Begun /\ p.kind = "DATA" /\ Sent + 1 = Buf.len /\ Staged = <<>>
                       /\ Buf' = NoFrame /\ Sent' = 0 /\ ~ Begun' /\ Staged' = <<>>
                    \/ /\ Begun /\ p.kind = "DATA" /\ Sent + 1 = Buf.len /\ Staged # <<>>
                       /\ Buf' = Head(Staged) /\ Sent' = 0 /\ ~ Begun' /\ Staged' = Tail(Staged)
  <1> DEFINE p == dh_relay_tx_peek(tx)
             t == dh_relay_tx_commit(tx)
             b == t.q.band["bulk"]
  <1>0. TypeOK /\ QueueOK /\ tx \in [q : Queues, burst : Nat]
    BY Types DEF TypeInv
  <1>1. /\ Buf \in Frames /\ Sent < Buf.len
        /\ p.kind = (IF Begun THEN "DATA" ELSE "START") /\ p.frame = Buf /\ p.at = Sent
        /\ p \in Packets
        /\ t \in [q : Queues, burst : Nat]
        /\ t.q.band["priority"] = band_clear /\ t.q.stage["priority"] = <<>>
        /\ \/ /\ ~ Begun
              /\ b.buf = Buf /\ b.sent = Sent /\ b.preamble_done /\ t.q.stage["bulk"] = Staged
           \/ /\ Begun /\ Sent + 1 < Buf.len
              /\ b.buf = Buf /\ b.sent = Sent + 1 /\ b.preamble_done
              /\ t.q.stage["bulk"] = Staged
           \/ /\ Begun /\ Sent + 1 = Buf.len /\ Staged = <<>>
              /\ b = band_clear /\ t.q.stage["bulk"] = <<>>
           \/ /\ Begun /\ Sent + 1 = Buf.len /\ Staged # <<>>
              /\ b = Load(Head(Staged)) /\ t.q.stage["bulk"] = Tail(Staged)
    BY <1>0, CommitIs DEF PumpPacket
  <1>2. /\ UNCHANGED <<rx, resetting, next, lost, resets, history>>
        /\ uart' = queue_uart_packet(uart, p)[1]
        /\ tx' = IF queue_uart_packet(uart, p)[2] THEN t ELSE tx
        /\ pumping' = queue_uart_packet(uart, p)[2]
    BY DEF PumpPacket
  <1> HIDE DEF p, t
  <1>3. CASE Len(uart) < UART_QUEUE_LENGTH
    <2>1. uart' = Append(uart, p) /\ tx' = t /\ pumping' = TRUE
      BY <1>2, <1>3 DEF queue_uart_packet
    <2>2. Buf' = b.buf /\ Sent' = b.sent /\ Begun' = b.preamble_done /\ Staged' = t.q.stage["bulk"]
      BY <2>1 DEF Buf, Sent, Begun, Staged
    <2>3. (tx.q.band["priority"] = band_clear /\ tx.q.stage["priority"] = <<>>)'
      BY <1>1, <2>1
    <2>4. Sent \in Nat /\ Buf.len \in Nat /\ Buf.len > 0 /\ NoFrame.len = 0 /\ (~ Begun => Sent = 0)
      BY <1>0, <1>1, SenderIs, FrameIs DEF QueueOK
    <2> HIDE DEF b
    <2>5. CASE ~ Begun /\ b.buf = Buf /\ b.sent = Sent /\ b.preamble_done /\ t.q.stage["bulk"] = Staged
      <3>1. p.kind = "START" /\ Sent = 0 /\ Buf' = Buf /\ Sent' = 0 /\ Begun' /\ Staged' = Staged
        BY <1>1, <2>2, <2>4, <2>5
      <3>2. QueueOK'
        BY <1>1, <2>3, <2>4, <3>1 DEF QueueOK
      <3>3. QED
        BY <1>1, <1>2, <1>3, <2>1, <2>5, <3>1, <3>2
    <2>6. CASE Begun /\ Sent + 1 < Buf.len /\ b.buf = Buf /\ b.sent = Sent + 1 /\ b.preamble_done
               /\ t.q.stage["bulk"] = Staged
      <3>1. p.kind = "DATA" /\ Buf' = Buf /\ Sent' = Sent + 1 /\ Begun' /\ Staged' = Staged
        BY <1>1, <2>2, <2>6
      <3>2. QueueOK'
        BY <1>1, <2>3, <2>4, <2>6, <3>1 DEF QueueOK
      <3>3. QED
        BY <1>1, <1>2, <1>3, <2>1, <2>6, <3>1, <3>2
    <2>7. CASE Begun /\ Sent + 1 = Buf.len /\ Staged = <<>> /\ b = band_clear
               /\ t.q.stage["bulk"] = <<>>
      <3>1. p.kind = "DATA" /\ Buf' = NoFrame /\ Sent' = 0 /\ ~ Begun' /\ Staged' = <<>>
        BY <1>1, <2>2, <2>7, FrameIs
      <3>2. QueueOK'
        BY <2>3, <2>4, <3>1 DEF QueueOK
      <3>3. QED
        BY <1>1, <1>2, <1>3, <2>1, <2>7, <3>1, <3>2
    <2>8. CASE Begun /\ Sent + 1 = Buf.len /\ Staged # <<>> /\ b = Load(Head(Staged))
               /\ t.q.stage["bulk"] = Tail(Staged)
      <3>0. Head(Staged) \in Frames
        BY <1>0, <2>8, SenderIs
      <3>1. p.kind = "DATA" /\ Buf' = Head(Staged) /\ Sent' = 0 /\ ~ Begun' /\ Staged' = Tail(Staged)
        BY <1>1, <2>2, <2>8 DEF Load
      <3>2. QueueOK'
        <4>1. Head(Staged).len \in Nat /\ Head(Staged).len > 0
          BY <3>0, FrameIs
        <4>2. QED
          BY <2>3, <3>1, <4>1 DEF QueueOK
      <3>3. QED
        BY <1>1, <1>2, <1>3, <2>1, <2>8, <3>1, <3>2
    <2>9. QED
      BY <1>1, <2>5, <2>6, <2>7, <2>8 DEF b
  <1>4. CASE ~ (Len(uart) < UART_QUEUE_LENGTH)
    <2>1. uart' = uart /\ tx' = tx /\ pumping' = FALSE
      BY <1>2, <1>4 DEF queue_uart_packet
    <2>2. QueueOK'
      BY <1>0, <2>1 DEF QueueOK, Buf, Sent, Begun, Staged
    <2>3. QED
      BY <1>0, <1>2, <2>1, <2>2
  <1>5. QED
    BY <1>3, <1>4

LEMMA TxResetIs ==
  ASSUME TypeInv, dh_relay_tx_reset
  PROVE  /\ UNCHANGED <<pumping, uart, rx, resetting, next, lost, arrived, startLost, taken, refused>>
         /\ resets' = resets + 1 /\ tx' \in [q : Queues, burst : Nat] /\ QueueOK'
         /\ Buf' = NoFrame /\ Sent' = 0 /\ ~ Begun' /\ Staged' = <<>>
  <1> DEFINE r == dh_outq_reset(tx.q)
  <1>1. tx.q \in Queues
    BY Types DEF TypeInv
  <1>2. r \in Queues /\ \A b \in BandIds : r.band[b] = band_clear /\ r.stage[b] = <<>>
    BY <1>1, ResetIs
  <1>3. /\ UNCHANGED <<pumping, uart, rx, resetting, next, lost, arrived, startLost, taken, refused>>
        /\ resets' = resets + 1 /\ tx' = [q |-> r, burst |-> 0]
    BY DEF dh_relay_tx_reset
  <1> HIDE DEF r
  <1>4. tx'.q = r /\ tx' \in [q : Queues, burst : Nat]
    BY <1>2, <1>3
  <1>5. Buf' = NoFrame /\ Sent' = 0 /\ ~ Begun' /\ Staged' = <<>>
    BY <1>2, <1>4, FrameIs DEF Buf, Sent, Begun, Staged, BandIds
  <1>6. QueueOK'
    BY <1>2, <1>4, <1>5, FrameIs DEF QueueOK, BandIds
  <1>7. QED
    BY <1>3, <1>4, <1>5, <1>6

-----------------------------------------------------------------------------
(* The receiver's steps. *)

\* The buffer no longer matches the frame awaited once p is behind it.
Splices(p) ==
  ~ (p.frame = rx.expected /\ p.at = rx.have) \/ (rx.have > 0 /\ rx.broken)

LEMMA PushDataIs ==
  ASSUME rx \in RxStates, NEW p \in Packets
  PROVE  LET r == PushData(rx, p) IN
         /\ r \in RxStates /\ r.expected = rx.expected /\ r.have = rx.have + 1
         /\ r.head = (IF rx.have = 0 THEN p ELSE rx.head) /\ (r.broken <=> Splices(p))
         /\ r.orphans = rx.orphans /\ r.truncated = rx.truncated
  <1> DEFINE bad == Splices(p)
             head == IF rx.have = 0 THEN p ELSE rx.head
             more == rx.have + 1
             r == [rx EXCEPT !.have = more, !.head = head, !.broken = bad]
  <1>1. bad \in BOOLEAN
    BY Zenon DEF Splices
  <1>2. PushData(rx, p) = r
    BY DEF PushData, Splices
  <1>3. head \in Packets /\ more \in Nat
    BY DEF RxStates
  <1> HIDE DEF bad, head, more
  <1>4. /\ r \in RxStates /\ r.expected = rx.expected /\ r.have = more /\ r.head = head
        /\ r.broken = bad /\ r.orphans = rx.orphans /\ r.truncated = rx.truncated
    BY <1>1, <1>3 DEF RxStates
  <1>5. QED
    BY <1>2, <1>4 DEF bad, head, more

\* What the reassembler does with a packet, field by field.
TakesInput(p) == p.kind = "INPUT" /\ UNCHANGED <<rx, arrived, taken, startLost>>
TakesStart(p) ==
  /\ p.kind = "START" /\ ~ startLost' /\ UNCHANGED <<arrived, taken>>
  /\ rx'.expected = p.frame /\ rx'.have = 0 /\ ~ rx'.broken /\ rx'.orphans = rx.orphans
  /\ rx.expected.len = 0 => rx'.truncated = rx.truncated
TakesOrphan(p) ==
  /\ p.kind = "DATA" /\ rx.expected.len = 0 /\ UNCHANGED <<arrived, taken, startLost>>
  /\ rx'.expected = rx.expected /\ rx'.have = rx.have /\ rx'.broken = rx.broken
TakesData(p) ==
  /\ p.kind = "DATA" /\ rx.expected.len > 0 /\ rx.have + 1 < rx.expected.len
  /\ UNCHANGED <<arrived, taken, startLost>>
  /\ rx'.expected = rx.expected /\ rx'.have = rx.have + 1 /\ (rx'.broken <=> Splices(p))
  /\ rx'.head = (IF rx.have = 0 THEN p ELSE rx.head)
  /\ rx'.orphans = rx.orphans /\ rx'.truncated = rx.truncated
TakesLast(p) ==
  /\ p.kind = "DATA" /\ rx.expected.len > 0 /\ rx.have + 1 >= rx.expected.len
  /\ startLost' = startLost
  /\ rx'.expected = NoFrame /\ rx'.have = 0
  /\ rx'.orphans = rx.orphans /\ rx'.truncated = rx.truncated
  /\ LET head == IF rx.have = 0 THEN p ELSE rx.head IN
     \/ /\ taken' = Append(taken, rx.expected.id)
        /\ arrived'.startLost = startLost /\ (arrived'.intact <=> ~ Splices(p))
     \/ /\ UNCHANGED <<arrived, taken>>
        /\ head.at = 0 => ~ (head.frame.len = rx.expected.len
                             /\ head.frame.tail = rx.expected.tail)

LEMMA ReceiveIs ==
  ASSUME TypeInv, NEW p \in Packets, p.kind # "INPUT" => p.frame \in Frames, Receive(p)
  PROVE  /\ rx' \in RxStates /\ (rx'.expected.len > 0 => rx'.have < rx'.expected.len)
         /\ arrived' \in Arrivals /\ startLost' \in BOOLEAN
         /\ TakesInput(p) \/ TakesStart(p) \/ TakesOrphan(p) \/ TakesData(p) \/ TakesLast(p)
  <1>0. /\ rx \in RxStates /\ (rx.expected.len > 0 => rx.have < rx.expected.len)
        /\ arrived \in Arrivals /\ startLost \in BOOLEAN
    BY Types DEF TypeInv
  <1>1. rx.have \in Nat /\ rx.expected \in Frames \cup {NoFrame} /\ rx.expected.len \in Nat
        /\ rx.expected.id \in Nat
    BY <1>0, FrameIs DEF RxStates
  <1>2. CASE p.kind = "INPUT" /\ UNCHANGED <<rx, arrived, taken, startLost>>
    BY <1>0, <1>2 DEF TakesInput
  <1>3. CASE /\ p.kind = "START" /\ rx' = PushStart(rx, p) /\ startLost' = FALSE
             /\ UNCHANGED <<arrived, taken>>
    <2> DEFINE cut == IF rx.expected.len > 0 THEN rx.truncated + 1 ELSE rx.truncated
    <2>1. cut \in Nat /\ (rx.expected.len = 0 => cut = rx.truncated)
      BY <1>0 DEF RxStates
    <2>2. rx' = [rx EXCEPT !.expected = p.frame, !.have = 0, !.broken = FALSE, !.truncated = cut]
      BY <1>3 DEF PushStart
    <2> HIDE DEF cut
    <2>3. p.frame \in Frames /\ p.frame.len > 0
      BY <1>3, FrameIs
    <2>4. /\ rx' \in RxStates /\ rx'.expected = p.frame /\ rx'.have = 0 /\ ~ rx'.broken
          /\ rx'.orphans = rx.orphans /\ rx'.truncated = cut
      BY <1>0, <2>1, <2>2, <2>3 DEF RxStates
    <2>5. TakesStart(p)
      BY <1>3, <2>1, <2>4 DEF TakesStart
    <2>6. QED
      BY <1>0, <1>3, <2>3, <2>4, <2>5
  <1>4. CASE /\ p.kind = "DATA" /\ rx.expected.len = 0 /\ rx' = PushOrphan(rx)
             /\ UNCHANGED <<arrived, taken, startLost>>
    <2>1. /\ rx' \in RxStates /\ rx'.expected = rx.expected /\ rx'.have = rx.have
          /\ rx'.broken = rx.broken
      BY <1>0, <1>4 DEF PushOrphan, RxStates
    <2>2. TakesOrphan(p)
      BY <1>4, <2>1 DEF TakesOrphan
    <2>3. QED
      BY <1>0, <1>4, <2>1, <2>2
  <1> DEFINE r == PushData(rx, p)
  <1>5. /\ r \in RxStates /\ r.expected = rx.expected /\ r.have = rx.have + 1
        /\ r.head = (IF rx.have = 0 THEN p ELSE rx.head) /\ (r.broken <=> Splices(p))
        /\ r.orphans = rx.orphans /\ r.truncated = rx.truncated
    BY <1>0, PushDataIs
  <1>6. Fills(rx, p) <=> rx.expected.len > 0 /\ rx.have + 1 >= rx.expected.len
    BY <1>5 DEF Fills
  <1> HIDE DEF r
  <1>7. CASE /\ p.kind = "DATA" /\ rx.expected.len > 0 /\ ~ Fills(rx, p) /\ rx' = r
             /\ UNCHANGED <<arrived, taken, startLost>>
    <2>1. rx.have + 1 < rx.expected.len
      BY <1>1, <1>6, <1>7
    <2>2. TakesData(p)
      BY <1>5, <1>7, <2>1 DEF TakesData
    <2>3. QED
      BY <1>0, <1>5, <1>7, <2>1, <2>2
  <1>8. CASE /\ p.kind = "DATA" /\ Fills(rx, p)
             /\ \E decodes \in MayDecode(r) :
                  IF decodes
                    THEN /\ arrived' = [id |-> rx.expected.id, startLost |-> startLost,
                                        intact |-> ~ r.broken]
                         /\ taken' = Append(taken, rx.expected.id)
                    ELSE UNCHANGED <<arrived, taken>>
             /\ rx' = Retired(r) /\ UNCHANGED startLost
    <2>1. PICK decodes \in MayDecode(r) :
            IF decodes
              THEN /\ arrived' = [id |-> rx.expected.id, startLost |-> startLost,
                                  intact |-> ~ r.broken]
                   /\ taken' = Append(taken, rx.expected.id)
              ELSE UNCHANGED <<arrived, taken>>
      BY <1>8
    <2>2. /\ rx' \in RxStates /\ rx'.expected = NoFrame /\ rx'.have = 0
          /\ rx'.orphans = rx.orphans /\ rx'.truncated = rx.truncated
      BY <1>5, <1>8 DEF Retired, RxStates
    <2>3. CASE decodes
      <3> DEFINE whole == ~ r.broken
      <3>1. whole \in BOOLEAN
        BY Zenon
      <3>2. arrived' = [id |-> rx.expected.id, startLost |-> startLost, intact |-> whole]
            /\ taken' = Append(taken, rx.expected.id)
        BY <2>1, <2>3
      <3>3. whole <=> ~ Splices(p)
        BY <1>5
      <3> HIDE DEF whole
      <3>4. arrived' \in Arrivals /\ arrived'.startLost = startLost /\ arrived'.intact = whole
        BY <1>0, <1>1, <3>1, <3>2 DEF Arrivals
      <3>5. TakesLast(p)
        BY <1>6, <1>8, <2>2, <3>2, <3>3, <3>4 DEF TakesLast
      <3>6. QED
        BY <1>0, <1>8, <2>2, <3>4, <3>5, FrameIs
    <2>4. CASE ~ decodes
      <3>1. UNCHANGED <<arrived, taken>>
        BY <2>1, <2>4
      <3>2. r.head.at = 0 => ~ (r.head.frame.len = r.expected.len
                                /\ r.head.frame.tail = r.expected.tail)
        BY <2>1, <2>4 DEF MayDecode
      <3>3. TakesLast(p)
        BY <1>5, <1>6, <1>8, <2>2, <3>1, <3>2 DEF TakesLast
      <3>4. QED
        BY <1>0, <1>8, <2>2, <3>1, <3>3, FrameIs
    <2>5. QED
      BY <2>3, <2>4
  <1>9. QED
    BY <1>2, <1>3, <1>4, <1>7, <1>8 DEF Receive, r

-----------------------------------------------------------------------------
(* Types and well-formed packets. *)

\* The three things that happen to the UART queue.
Joins(p) ==
  /\ uart' = Append(uart, p) /\ Len(uart') = Len(uart) + 1 /\ uart'[Len(uart) + 1] = p
  /\ \A i \in 1 .. Len(uart) : uart'[i] = uart[i]
Leaves ==
  /\ uart # <<>> /\ uart' = Tail(uart) /\ Len(uart') = Len(uart) - 1 /\ Len(uart) >= 1
  /\ \A i \in 1 .. Len(uart') : i + 1 \in 1 .. Len(uart) /\ uart'[i] = uart[i + 1]

LEMMA JoinsIs ==
  ASSUME TypeInv, NEW p \in Packets, uart' = Append(uart, p), Len(uart) < UART_QUEUE_LENGTH,
         p.kind # "INPUT" => p.frame \in Frames /\ (p.kind = "DATA" => p.at < p.frame.len)
  PROVE  Joins(p) /\ uart' \in Seq(Packets) /\ Len(uart') <= UART_QUEUE_LENGTH /\ PacketsOK'
  <1>0. uart \in Seq(Packets) /\ Len(uart) \in Nat /\ UART_QUEUE_LENGTH \in Nat
    BY Types, RelayAssumption DEF TypeInv
  <1>1. Joins(p) /\ uart' \in Seq(Packets)
    BY <1>0, AppendIs DEF Joins
  <1>2. Len(uart') <= UART_QUEUE_LENGTH
    BY <1>0, <1>1 DEF Joins
  <1>3. ASSUME NEW i \in 1 .. Len(uart') PROVE i \in 1 .. Len(uart) \/ i = Len(uart) + 1
    BY <1>0, <1>1 DEF Joins
  <1>4. PacketsOK'
    BY <1>1, <1>3 DEF Joins, PacketsOK, TypeInv
  <1>5. QED
    BY <1>1, <1>2, <1>4

LEMMA LeavesIs ==
  ASSUME TypeInv, uart # <<>>, uart' = Tail(uart)
  PROVE  /\ Leaves /\ uart' \in Seq(Packets) /\ Len(uart') <= UART_QUEUE_LENGTH /\ PacketsOK'
         /\ Head(uart) = uart[1] /\ uart[1] \in Packets /\ 1 \in 1 .. Len(uart)
         /\ uart[1].kind # "INPUT" => /\ uart[1].frame \in Frames
                                      /\ (uart[1].kind = "DATA" => uart[1].at < uart[1].frame.len)
  <1>0. uart \in Seq(Packets) /\ Len(uart) \in Nat /\ Len(uart) <= UART_QUEUE_LENGTH
        /\ UART_QUEUE_LENGTH \in Nat
    BY Types, RelayAssumption DEF TypeInv
  <1>1. Leaves /\ uart' \in Seq(Packets) /\ Head(uart) = uart[1] /\ uart[1] \in Packets
    BY <1>0, TailIs DEF Leaves
  <1>2. Len(uart') <= UART_QUEUE_LENGTH /\ 1 \in 1 .. Len(uart)
    BY <1>0, <1>1 DEF Leaves
  <1>3. PacketsOK'
    BY <1>1 DEF Leaves, PacketsOK, TypeInv
  <1>4. QED
    BY <1>1, <1>2, <1>3 DEF PacketsOK, TypeInv

(* A step that leaves the sender's queue alone. *)
LEMMA SenderStill ==
  ASSUME TypeInv, tx'.q = tx.q
  PROVE  QueueOK' /\ Buf' = Buf /\ Sent' = Sent /\ Begun' = Begun /\ Staged' = Staged
  BY DEF TypeInv, QueueOK, Buf, Sent, Begun, Staged

LEMMA InputIs ==
  Input \in Packets /\ Input.kind = "INPUT" /\ Input.frame = NoFrame
  BY DEF Input, Packets

(* Transmit. *)
LEMMA TransmitIs ==
  ASSUME TypeInv, Transmit
  PROVE  LET p == uart[1] IN
         /\ Leaves /\ uart' \in Seq(Packets) /\ Len(uart') <= UART_QUEUE_LENGTH /\ PacketsOK'
         /\ p \in Packets /\ 1 \in 1 .. Len(uart)
         /\ (p.kind # "INPUT" => /\ p.frame \in Frames
                                 /\ (p.kind = "DATA" => p.at < p.frame.len))
         /\ UNCHANGED <<tx, pumping, resetting, next, lost, resets, refused, discarded>>
         /\ rx' \in RxStates /\ (rx'.expected.len > 0 => rx'.have < rx'.expected.len)
         /\ arrived' \in Arrivals /\ startLost' \in BOOLEAN
         /\ TakesInput(p) \/ TakesStart(p) \/ TakesOrphan(p) \/ TakesData(p) \/ TakesLast(p)
  <1>1. /\ uart # <<>> /\ uart' = Tail(uart) /\ Receive(Head(uart))
        /\ UNCHANGED <<tx, pumping, resetting, next, lost, resets, refused, discarded>>
    BY DEF Transmit
  <1>2. /\ Leaves /\ uart' \in Seq(Packets) /\ Len(uart') <= UART_QUEUE_LENGTH /\ PacketsOK'
        /\ Head(uart) = uart[1] /\ uart[1] \in Packets /\ 1 \in 1 .. Len(uart)
        /\ uart[1].kind # "INPUT" => /\ uart[1].frame \in Frames
                                     /\ (uart[1].kind = "DATA" => uart[1].at < uart[1].frame.len)
    BY <1>1, LeavesIs
  <1> DEFINE p == uart[1]
  <1>3. p \in Packets /\ (p.kind # "INPUT" => p.frame \in Frames) /\ Receive(p)
    BY <1>1, <1>2
  <1> HIDE DEF p
  <1>4. /\ rx' \in RxStates /\ (rx'.expected.len > 0 => rx'.have < rx'.expected.len)
        /\ arrived' \in Arrivals /\ startLost' \in BOOLEAN
        /\ TakesInput(p) \/ TakesStart(p) \/ TakesOrphan(p) \/ TakesData(p) \/ TakesLast(p)
    BY <1>3, ReceiveIs
  <1>5. QED
    BY <1>1, <1>2, <1>4 DEF p

LEMMA LostIs ==
  ASSUME TypeInv, TransmitLost
  PROVE  LET p == uart[1] IN
         /\ Leaves /\ uart' \in Seq(Packets) /\ Len(uart') <= UART_QUEUE_LENGTH /\ PacketsOK'
         /\ p.kind # "INPUT" /\ 1 \in 1 .. Len(uart) /\ lost' = lost + 1
         /\ (startLost' <=> startLost \/ p.kind = "START") /\ startLost' \in BOOLEAN
         /\ UNCHANGED <<tx, pumping, rx, resetting, next, resets, arrived, taken, refused, discarded>>
  <1>1. /\ uart # <<>> /\ uart' = Tail(uart) /\ Head(uart).kind # "INPUT" /\ lost' = lost + 1
        /\ startLost' = (startLost \/ Head(uart).kind = "START")
        /\ UNCHANGED <<tx, pumping, rx, resetting, next, resets, arrived, taken, refused, discarded>>
    BY DEF TransmitLost
  <1>2. /\ Leaves /\ uart' \in Seq(Packets) /\ Len(uart') <= UART_QUEUE_LENGTH /\ PacketsOK'
        /\ Head(uart) = uart[1] /\ 1 \in 1 .. Len(uart)
    BY <1>1, LeavesIs
  <1>3. startLost' \in BOOLEAN
    BY <1>1, Zenon
  <1>4. QED
    BY <1>1, <1>2, <1>3

LEMMA TypeNext == TypeInv /\ [Next]_vars => TypeInv'
  <1> SUFFICES ASSUME TypeInv, [Next]_vars PROVE TypeInv'
    OBVIOUS
  <1>0. TypeOK /\ QueueOK /\ PacketsOK
    BY DEF TypeInv
  <1>1. ASSUME NEW k \in FrameKinds, relay_to_peer(k) PROVE TypeInv'
    <2>1. /\ UNCHANGED <<pumping, uart, rx, resetting, lost, resets, arrived, startLost>>
          /\ next' = next + 1 /\ tx' \in [q : Queues, burst : Nat] /\ QueueOK'
      BY <1>1, OffersIs
    <2>2. TypeOK'
      BY <1>0, <2>1, Types, TypesNext
    <2>3. QED
      BY <1>0, <2>1, <2>2 DEF TypeInv, PacketsOK
  <1>2. CASE PumpBegin \/ PumpEnd
    <2>1. UNCHANGED <<uart, rx, resetting, next, lost, resets, arrived, startLost>>
          /\ pumping' \in BOOLEAN
      BY <1>2 DEF PumpBegin, PumpEnd, history
    <2>2. tx' \in [q : Queues, burst : Nat] /\ tx'.q = tx.q
      <3>1. tx' = [tx EXCEPT !.burst = 0] \/ tx' = tx
        BY <1>2 DEF PumpBegin, PumpEnd, dh_relay_tx_yield
      <3>2. QED
        BY <1>0, <3>1, Types
    <2>3. TypeOK'
      BY <1>0, <2>1, <2>2, Types, TypesNext
    <2>4. QED
      BY <1>0, <2>1, <2>2, <2>3, SenderStill DEF TypeInv, PacketsOK
  <1>3. CASE PumpPacket
    <2>1. /\ UNCHANGED <<rx, resetting, next, lost, resets, history>>
          /\ pumping' \in BOOLEAN /\ tx' \in [q : Queues, burst : Nat] /\ QueueOK'
          /\ \/ UNCHANGED <<uart, tx>>
             \/ \E p \in Packets :
                  /\ uart' = Append(uart, p) /\ Len(uart) < UART_QUEUE_LENGTH
                  /\ p.frame = Buf /\ p.at = Sent /\ Buf \in Frames /\ Sent < Buf.len
      BY <1>3, PumpsIs
    <2>2. uart' \in Seq(Packets) /\ Len(uart') <= UART_QUEUE_LENGTH /\ PacketsOK'
      <3>1. CASE UNCHANGED <<uart, tx>>
        BY <1>0, <3>1, Types DEF PacketsOK
      <3>2. CASE \E p \in Packets :
                   /\ uart' = Append(uart, p) /\ Len(uart) < UART_QUEUE_LENGTH
                   /\ p.frame = Buf /\ p.at = Sent /\ Buf \in Frames /\ Sent < Buf.len
        BY <3>2, JoinsIs
      <3>3. QED
        BY <2>1, <3>1, <3>2
    <2>3. TypeOK'
      BY <1>0, <2>1, <2>2, Types, TypesNext DEF history
    <2>4. QED
      BY <2>1, <2>2, <2>3 DEF TypeInv
  <1>4. CASE QueueInput
    <2>1. uart' = Append(uart, Input) /\ Len(uart) < UART_QUEUE_LENGTH
          /\ UNCHANGED <<tx, pumping, rx, resetting, next, lost, resets, arrived, startLost>>
      BY <1>4 DEF QueueInput, history
    <2>2. uart' \in Seq(Packets) /\ Len(uart') <= UART_QUEUE_LENGTH /\ PacketsOK'
      BY <2>1, InputIs, JoinsIs
    <2>3. TypeOK'
      BY <1>0, <2>1, <2>2, Types, TypesNext
    <2>4. QED
      BY <2>1, <2>2, <2>3, SenderStill DEF TypeInv
  <1>5. CASE Transmit
    <2>1. /\ uart' \in Seq(Packets) /\ Len(uart') <= UART_QUEUE_LENGTH /\ PacketsOK'
          /\ UNCHANGED <<tx, pumping, resetting, next, lost, resets>>
          /\ rx' \in RxStates /\ (rx'.expected.len > 0 => rx'.have < rx'.expected.len)
          /\ arrived' \in Arrivals /\ startLost' \in BOOLEAN
      BY <1>5, TransmitIs
    <2>2. TypeOK'
      BY <1>0, <2>1, Types, TypesNext
    <2>3. QED
      BY <2>1, <2>2, SenderStill DEF TypeInv
  <1>6. CASE TransmitLost
    <2>1. /\ uart' \in Seq(Packets) /\ Len(uart') <= UART_QUEUE_LENGTH /\ PacketsOK'
          /\ lost' = lost + 1 /\ startLost' \in BOOLEAN
          /\ UNCHANGED <<tx, pumping, rx, resetting, next, resets, arrived>>
      BY <1>6, LostIs
    <2>2. TypeOK'
      BY <1>0, <2>1, Types, TypesNext
    <2>3. QED
      BY <2>1, <2>2, SenderStill DEF TypeInv
  <1>7. CASE dh_relay_tx_reset
    <2>1. /\ UNCHANGED <<pumping, uart, rx, resetting, next, lost, arrived, startLost>>
          /\ resets' = resets + 1 /\ tx' \in [q : Queues, burst : Nat] /\ QueueOK'
      BY <1>7, TxResetIs
    <2>2. TypeOK'
      BY <1>0, <2>1, Types, TypesNext
    <2>3. QED
      BY <1>0, <2>1, <2>2 DEF TypeInv, PacketsOK
  <1>8. CASE dh_relay_rx_reset \/ RxResetHave
    <2>1. /\ UNCHANGED <<tx, pumping, uart, next, lost, arrived, startLost>>
          /\ resetting' \in BOOLEAN /\ resets' \in {resets, resets + 1}
          /\ rx' \in {[rx EXCEPT !.expected = NoFrame], [rx EXCEPT !.have = 0]}
      BY <1>8 DEF dh_relay_rx_reset, RxResetHave, history
    <2>2. rx' \in RxStates /\ (rx'.expected.len > 0 => rx'.have < rx'.expected.len)
      <3>1. rx \in RxStates
        BY <1>0, Types
      <3>2. QED
        BY <2>1, <3>1, FrameIs DEF RxStates
    <2>3. TypeOK'
      BY <1>0, <2>1, <2>2, Types, TypesNext
    <2>4. QED
      BY <1>0, <2>1, <2>3, SenderStill DEF TypeInv, PacketsOK
  <1>9. CASE UNCHANGED vars
    BY <1>9 DEF vars, TypeInv, TypeOK, QueueOK, PacketsOK, Buf, Sent, Begun, Staged
  <1>10. QED
    BY <1>1, <1>2, <1>3, <1>4, <1>5, <1>6, <1>7, <1>8, <1>9 DEF Next

LEMMA TypeInit == Init => TypeInv
  <1> SUFFICES ASSUME Init PROVE TypeInv
    OBVIOUS
  <1>1. dh_outq_init \in Queues /\ dh_outq_init.band["bulk"] = band_clear
        /\ dh_outq_init.stage["bulk"] = <<>> /\ dh_outq_init.band["priority"] = band_clear
        /\ dh_outq_init.stage["priority"] = <<>>
    BY FrameIs DEF dh_outq_init, Queues, BandIds, Causes
  <1>2. tx \in [q : Queues, burst : Nat] /\ tx.q = dh_outq_init
    BY <1>1 DEF Init, dh_relay_tx_init
  <1>3. rx \in RxStates /\ rx.expected = NoFrame
    BY InputIs DEF Init, dh_relay_rx_init, RxStates
  <1>4. TypeOK
    <2>1. uart = <<>> /\ uart \in Seq(Packets) /\ Len(uart) = 0 /\ UART_QUEUE_LENGTH \in Nat
      BY RelayAssumption DEF Init
    <2>2. arrived \in [id : Nat, intact : BOOLEAN, startLost : BOOLEAN]
      BY DEF Init
    <2>3. pumping \in BOOLEAN /\ resetting \in BOOLEAN /\ next \in Nat /\ lost \in Nat
          /\ resets \in Nat /\ startLost \in BOOLEAN
      BY DEF Init
    <2>4. rx.expected.len = 0
      BY <1>3, FrameIs
    <2>5. QED
      BY <1>2, <1>3, <2>1, <2>2, <2>3, <2>4 DEF TypeOK, RxStates
  <1>5. QueueOK
    BY <1>1, <1>2, FrameIs DEF QueueOK, Buf, Sent, Begun, Staged
  <1>6. QED
    BY <1>4, <1>5 DEF TypeInv, PacketsOK, Init

(* Every counter, queue and buffer of the relay keeps its type; the UART   *)
(* queue stays within its length and a frame being reassembled within the  *)
(* length its START gave.                                                  *)
THEOREM RelayTypeOK == Spec => []TypeOK
  <1>1. TypeInv => TypeOK
    BY DEF TypeInv
  <1>2. QED
    BY <1>1, TypeInit, TypeNext, PTL DEF Spec

-----------------------------------------------------------------------------
(* What arrives is what was sent. *)

\* No START stands behind packet i up to packet j.
Clear(i, j) == \A k \in 1 .. Len(uart) : i < k /\ k <= j => uart[k].kind # "START"

\* Between two STARTs the queue carries packets of one frame, in order,
WireOK ==
  \A j \in 1 .. Len(uart) : uart[j].kind = "DATA" =>
    \A i \in 1 .. Len(uart) : i < j /\ Clear(i, j) =>
      /\ uart[i].kind = "START" => uart[j].frame = uart[i].frame
      /\ uart[i].kind = "DATA" => uart[i].at < uart[j].at

\* and the sender goes on with the frame it last began.
TailOK ==
  Begun => \A i \in 1 .. Len(uart) : Clear(i, Len(uart)) =>
    /\ uart[i].kind = "START" => uart[i].frame = Buf
    /\ uart[i].kind = "DATA" => uart[i].at < Sent

\* The receiver may still take packet at of frame f without completing a
\* buffer that does not match: it is no further than at, and behind if spliced.
Upto(f, at) ==
  rx.expected = f /\ rx.have <= at /\ (rx.broken /\ rx.have > 0 => rx.have < at)

RxOK ==
  ~ startLost /\ rx.expected.len > 0 =>
    /\ \A j \in 1 .. Len(uart) :
         uart[j].kind = "DATA" /\ Clear(0, j) => Upto(uart[j].frame, uart[j].at)
    /\ Begun /\ Clear(0, Len(uart)) => Upto(Buf, Sent)

IntactInv == WireOK /\ TailOK /\ RxOK /\ ArrivesIntact

LEMMA ClearJoins ==
  ASSUME Len(uart) \in Nat, NEW p, Joins(p), NEW i \in Nat, NEW j \in Nat, Clear(i, j)'
  PROVE  /\ Clear(i, j)
         /\ j = Len(uart) + 1 => Clear(i, Len(uart))
         /\ p.kind = "START" => i > Len(uart) \/ j <= Len(uart)
  <1>1. ASSUME NEW k \in 1 .. Len(uart), i < k, k <= j PROVE uart[k].kind # "START"
    <2>1. k \in 1 .. Len(uart') /\ uart'[k] = uart[k]
      BY DEF Joins
    <2>2. QED
      BY <1>1, <2>1 DEF Clear
  <1>2. ASSUME j = Len(uart) + 1, NEW k \in 1 .. Len(uart), i < k PROVE uart[k].kind # "START"
    <2>1. k <= j
      BY <1>2
    <2>2. QED
      BY <1>1, <1>2, <2>1
  <1>3. ASSUME p.kind = "START", i <= Len(uart), j >= Len(uart) + 1 PROVE FALSE
    <2>1. Len(uart) + 1 \in 1 .. Len(uart') /\ uart'[Len(uart) + 1] = p /\ i < Len(uart) + 1
      BY <1>3 DEF Joins
    <2>2. QED
      BY <1>3, <2>1 DEF Clear
  <1>4. QED
    BY <1>1, <1>2, <1>3 DEF Clear

LEMMA ClearLeaves ==
  ASSUME Len(uart) \in Nat, Leaves, NEW i \in Nat, NEW j \in Nat, Clear(i, j)'
  PROVE  /\ Clear(i + 1, j + 1)
         /\ i = 0 /\ uart[1].kind # "START" => Clear(0, j + 1)
  <1>1. ASSUME NEW k \in 1 .. Len(uart), i + 1 < k, k <= j + 1 PROVE uart[k].kind # "START"
    <2>1. k - 1 \in 1 .. Len(uart') /\ i < k - 1 /\ k - 1 <= j
      BY <1>1 DEF Leaves
    <2>2. uart'[k - 1] = uart[k]
      BY <2>1 DEF Leaves
    <2>3. QED
      BY <2>1, <2>2 DEF Clear
  <1>2. ASSUME i = 0, uart[1].kind # "START", NEW k \in 1 .. Len(uart), k <= j + 1
        PROVE  uart[k].kind # "START"
    <2>1. CASE k = 1
      BY <1>2, <2>1
    <2>2. CASE k # 1
      <3>1. i + 1 < k
        BY <1>2, <2>2
      <3>2. QED
        BY <1>1, <1>2, <3>1
    <2>3. QED
      BY <2>1, <2>2
  <1>3. QED
    BY <1>1, <1>2 DEF Clear

LEMMA ClearStill ==
  ASSUME uart' = uart, NEW i, NEW j
  PROVE  Clear(i, j)' <=> Clear(i, j)
  BY DEF Clear

LEMMA WireJoins ==
  ASSUME Len(uart) \in Nat, WireOK, TailOK, NEW p, Joins(p),
         p.kind = "DATA" => Begun /\ p.frame = Buf /\ p.at = Sent
  PROVE  WireOK'
  <1> SUFFICES ASSUME NEW j \in 1 .. Len(uart'), uart'[j].kind = "DATA",
                      NEW i \in 1 .. Len(uart'), i < j, Clear(i, j)'
               PROVE  /\ uart'[i].kind = "START" => uart'[j].frame = uart'[i].frame
                      /\ uart'[i].kind = "DATA" => uart'[i].at < uart'[j].at
    BY DEF WireOK
  <1>1. i \in 1 .. Len(uart) /\ uart'[i] = uart[i] /\ (j \in 1 .. Len(uart) \/ j = Len(uart) + 1)
    BY DEF Joins
  <1>2. Clear(i, j) /\ (j = Len(uart) + 1 => Clear(i, Len(uart)))
    BY ClearJoins
  <1>3. CASE j \in 1 .. Len(uart)
    <2>1. uart'[j] = uart[j]
      BY <1>3 DEF Joins
    <2>2. QED
      BY <1>1, <1>2, <1>3, <2>1 DEF WireOK
  <1>4. CASE j = Len(uart) + 1
    <2>1. uart'[j] = p
      BY <1>4 DEF Joins
    <2>2. QED
      BY <1>1, <1>2, <1>4, <2>1 DEF TailOK
  <1>5. QED
    BY <1>1, <1>3, <1>4

LEMMA WireLeaves ==
  ASSUME Len(uart) \in Nat, WireOK, Leaves
  PROVE  WireOK'
  <1> SUFFICES ASSUME NEW j \in 1 .. Len(uart'), uart'[j].kind = "DATA",
                      NEW i \in 1 .. Len(uart'), i < j, Clear(i, j)'
               PROVE  /\ uart'[i].kind = "START" => uart'[j].frame = uart'[i].frame
                      /\ uart'[i].kind = "DATA" => uart'[i].at < uart'[j].at
    BY DEF WireOK
  <1>1. /\ i + 1 \in 1 .. Len(uart) /\ uart'[i] = uart[i + 1]
        /\ j + 1 \in 1 .. Len(uart) /\ uart'[j] = uart[j + 1] /\ i + 1 < j + 1
    BY DEF Leaves
  <1>2. Clear(i + 1, j + 1)
    BY ClearLeaves
  <1>3. QED
    BY <1>1, <1>2 DEF WireOK

LEMMA TailLeaves ==
  ASSUME Len(uart) \in Nat, TailOK, Leaves, Begun' = Begun, Buf' = Buf, Sent' = Sent
  PROVE  TailOK'
  <1> SUFFICES ASSUME Begun, NEW i \in 1 .. Len(uart'), Clear(i, Len(uart))'
               PROVE  /\ uart'[i].kind = "START" => uart'[i].frame = Buf
                      /\ uart'[i].kind = "DATA" => uart'[i].at < Sent
    BY DEF TailOK
  <1>1. /\ i + 1 \in 1 .. Len(uart) /\ uart'[i] = uart[i + 1] /\ Len(uart') \in Nat
        /\ Len(uart') + 1 = Len(uart)
    BY DEF Leaves
  <1>2. PICK n \in Nat : n = Len(uart')
    BY <1>1
  <1>3. Clear(i, n)'
    BY <1>2 DEF Clear
  <1>4. Clear(i + 1, n + 1)
    BY <1>3, ClearLeaves
  <1>5. QED
    BY <1>1, <1>2, <1>4 DEF TailOK

(* A packet of no frame joins: the sender's place does not move. *)
LEMMA TailInput ==
  ASSUME Len(uart) \in Nat, TailOK, NEW p, Joins(p), p.kind = "INPUT",
         Begun' = Begun, Buf' = Buf, Sent' = Sent
  PROVE  TailOK'
  <1> SUFFICES ASSUME Begun, NEW i \in 1 .. Len(uart'), Clear(i, Len(uart))'
               PROVE  /\ uart'[i].kind = "START" => uart'[i].frame = Buf
                      /\ uart'[i].kind = "DATA" => uart'[i].at < Sent
    BY DEF TailOK
  <1>1. CASE i \in 1 .. Len(uart)
    <2>1. uart'[i] = uart[i]
      BY <1>1 DEF Joins
    <2>2. Clear(i, Len(uart))
      BY <1>1 DEF Clear, Joins
    <2>3. QED
      BY <1>1, <2>1, <2>2 DEF TailOK
  <1>2. CASE i = Len(uart) + 1
    BY <1>2 DEF Joins
  <1>3. QED
    BY <1>1, <1>2 DEF Joins

(* The sender's next packet joins. *)
LEMMA TailPumps ==
  ASSUME TypeInv, TailOK, NEW p \in Packets, Joins(p), p.frame = Buf, p.at = Sent,
         \/ /\ ~ Begun /\ p.kind = "START" /\ Buf' = Buf
         \/ /\ Begun /\ p.kind = "DATA" /\ Buf' = Buf /\ Sent' = Sent + 1
         \/ ~ Begun'
  PROVE  TailOK'
  <1> SUFFICES ASSUME Begun', NEW i \in 1 .. Len(uart'), Clear(i, Len(uart))'
               PROVE  /\ uart'[i].kind = "START" => uart'[i].frame = Buf'
                      /\ uart'[i].kind = "DATA" => uart'[i].at < Sent'
    BY DEF TailOK
  <1>0. Len(uart) \in Nat /\ Sent \in Nat /\ uart \in Seq(Packets)
    BY Types, SenderIs DEF TypeInv
  <1>1. PICK n \in Nat : n = Len(uart') /\ n = Len(uart) + 1
    BY <1>0 DEF Joins
  <1>2. Clear(i, n)'
    BY <1>1 DEF Clear
  <1>3. Clear(i, Len(uart)) /\ (p.kind = "START" => i > Len(uart))
    BY <1>0, <1>1, <1>2, ClearJoins
  <1>4. CASE i \in 1 .. Len(uart)
    <2>1. uart'[i] = uart[i] /\ uart[i].at \in Nat
      <3>1. uart[i] \in Packets
        BY <1>0, <1>4
      <3>2. QED
        BY <1>4, <3>1 DEF Joins, Packets
    <2>2. p.kind # "START"
      BY <1>0, <1>3, <1>4
    <2>3. Begun /\ Buf' = Buf /\ Sent' = Sent + 1
      BY <2>2
    <2>4. QED
      BY <1>0, <1>3, <1>4, <2>1, <2>3 DEF TailOK
  <1>5. CASE i = Len(uart) + 1
    <2>1. uart'[i] = p
      BY <1>5 DEF Joins
    <2>2. QED
      BY <1>0, <2>1
  <1>6. QED
    BY <1>0, <1>1, <1>4, <1>5

(* The receiver is untouched while the queue grows. *)
LEMMA RxJoins ==
  ASSUME TypeInv, RxOK, NEW p \in Packets, Joins(p), UNCHANGED <<rx, startLost>>,
         \/ p.kind = "INPUT" /\ Begun' = Begun /\ Buf' = Buf /\ Sent' = Sent
         \/ p.kind = "START"
         \/ /\ p.kind = "DATA" /\ Begun /\ p.frame = Buf /\ p.at = Sent
            /\ ~ Begun' \/ (Buf' = Buf /\ Sent' = Sent + 1)
  PROVE  RxOK'
  <1> SUFFICES ASSUME ~ startLost, rx.expected.len > 0
               PROVE  /\ \A j \in 1 .. Len(uart') :
                           uart'[j].kind = "DATA" /\ Clear(0, j)' =>
                             Upto(uart'[j].frame, uart'[j].at)
                      /\ Begun' /\ Clear(0, Len(uart))' => Upto(Buf', Sent')
    BY DEF RxOK, Upto
  <1>0. Len(uart) \in Nat /\ Sent \in Nat /\ rx.have \in Nat
    BY Types, SenderIs DEF TypeInv, RxStates
  <1>1. ASSUME NEW j \in 1 .. Len(uart'), uart'[j].kind = "DATA", Clear(0, j)'
        PROVE  Upto(uart'[j].frame, uart'[j].at)
    <2>1. Clear(0, j) /\ (j = Len(uart) + 1 => Clear(0, Len(uart)))
      BY <1>0, <1>1, ClearJoins
    <2>2. CASE j \in 1 .. Len(uart)
      <3>1. uart'[j] = uart[j]
        BY <2>2 DEF Joins
      <3>2. QED
        BY <1>1, <2>1, <2>2, <3>1 DEF RxOK
    <2>3. CASE j = Len(uart) + 1
      <3>1. uart'[j] = p
        BY <2>3 DEF Joins
      <3>2. QED
        BY <1>1, <2>1, <2>3, <3>1 DEF RxOK
    <2>4. QED
      BY <1>0, <2>2, <2>3 DEF Joins
  <1>2. ASSUME Begun', Clear(0, Len(uart))' PROVE Upto(Buf', Sent')
    <2>1. PICK n \in Nat : n = Len(uart') /\ n = Len(uart) + 1
      BY <1>0 DEF Joins
    <2>2. Clear(0, n)'
      BY <1>2, <2>1 DEF Clear
    <2>3. Clear(0, Len(uart)) /\ p.kind # "START"
      BY <1>0, <2>1, <2>2, ClearJoins
    <2>4. Begun /\ Buf' = Buf /\ (Sent' = Sent \/ Sent' = Sent + 1)
      BY <1>2, <2>3
    <2>5. Upto(Buf, Sent)
      BY <2>3, <2>4 DEF RxOK
    <2>6. QED
      BY <1>0, <2>4, <2>5 DEF Upto
  <1>3. QED
    BY <1>1, <1>2

(* The front packet goes and the receiver does not see it: an input report,
   or a packet that was lost. *)
LEMMA RxMisses ==
  ASSUME TypeInv, RxOK, Leaves, UNCHANGED rx, Begun' = Begun, Buf' = Buf, Sent' = Sent,
         ~ startLost' => ~ startLost /\ uart[1].kind # "START"
  PROVE  RxOK'
  <1> SUFFICES ASSUME ~ startLost', rx.expected.len > 0
               PROVE  /\ \A j \in 1 .. Len(uart') :
                           uart'[j].kind = "DATA" /\ Clear(0, j)' =>
                             Upto(uart'[j].frame, uart'[j].at)
                      /\ Begun /\ Clear(0, Len(uart))' => Upto(Buf, Sent)
    BY DEF RxOK, Upto
  <1>0. Len(uart) \in Nat /\ ~ startLost /\ uart[1].kind # "START"
    BY Types DEF TypeInv
  <1>1. ASSUME NEW j \in 1 .. Len(uart'), uart'[j].kind = "DATA", Clear(0, j)'
        PROVE  Upto(uart'[j].frame, uart'[j].at)
    <2>1. Clear(0, j + 1)
      <3>1. j \in Nat
        BY <1>0 DEF Leaves
      <3>2. QED
        BY <1>0, <1>1, <3>1, ClearLeaves
    <2>2. j + 1 \in 1 .. Len(uart) /\ uart'[j] = uart[j + 1]
      BY DEF Leaves
    <2>3. QED
      BY <1>0, <1>1, <2>1, <2>2 DEF RxOK
  <1>2. ASSUME Begun, Clear(0, Len(uart))' PROVE Upto(Buf, Sent)
    <2>0. Len(uart') \in Nat /\ Len(uart') + 1 = Len(uart)
      BY <1>0 DEF Leaves
    <2>1. PICK n \in Nat : n = Len(uart') /\ n + 1 = Len(uart)
      BY <2>0
    <2>2. Clear(0, n)'
      BY <1>2, <2>1 DEF Clear
    <2>3. Clear(0, Len(uart))
      BY <1>0, <2>1, <2>2, ClearLeaves
    <2>4. QED
      BY <1>0, <1>2, <2>3 DEF RxOK
  <1>3. QED
    BY <1>1, <1>2

(* A START sets the receiver on the frame whose packets follow it. *)
LEMMA RxStarts ==
  ASSUME TypeInv, WireOK, TailOK, Leaves, TakesStart(uart[1]),
         Begun' = Begun, Buf' = Buf, Sent' = Sent
  PROVE  RxOK'
  <1>0. Len(uart) \in Nat /\ Sent \in Nat /\ uart \in Seq(Packets) /\ 1 \in 1 .. Len(uart)
    BY Types, SenderIs DEF TypeInv, Leaves
  <1>1. uart[1].kind = "START" /\ rx'.expected = uart[1].frame /\ rx'.have = 0 /\ ~ rx'.broken
    BY DEF TakesStart
  <1>2. ASSUME NEW j \in 1 .. Len(uart'), uart'[j].kind = "DATA", Clear(0, j)'
        PROVE  uart'[j].frame = uart[1].frame /\ uart'[j].at \in Nat
    <2>1. Clear(0 + 1, j + 1)
      BY <1>0, <1>2, ClearLeaves
    <2>2. j + 1 \in 1 .. Len(uart) /\ uart'[j] = uart[j + 1] /\ 1 < j + 1
      BY DEF Leaves
    <2>3. uart[j + 1].frame = uart[1].frame
      BY <1>0, <1>1, <1>2, <2>1, <2>2 DEF WireOK
    <2>4. uart[j + 1] \in Packets
      BY <1>0, <2>2
    <2>5. QED
      BY <2>2, <2>3, <2>4 DEF Packets
  <1>3. ASSUME Begun, Clear(0, Len(uart))' PROVE uart[1].frame = Buf
    <2>0. Len(uart') \in Nat /\ Len(uart') + 1 = Len(uart)
      BY <1>0 DEF Leaves
    <2>1. PICK n \in Nat : n = Len(uart') /\ n + 1 = Len(uart)
      BY <2>0
    <2>2. Clear(0, n)'
      BY <1>3, <2>1 DEF Clear
    <2>3. Clear(0 + 1, Len(uart))
      BY <1>0, <2>1, <2>2, ClearLeaves
    <2>4. QED
      BY <1>0, <1>1, <1>3, <2>3 DEF TailOK
  <1>4. ASSUME NEW j \in 1 .. Len(uart'), uart'[j].kind = "DATA", Clear(0, j)'
        PROVE  Upto(uart[j].frame, uart[j].at)'
    BY <1>1, <1>2, <1>4 DEF Upto
  <1>5. ASSUME Begun', Clear(0, Len(uart))' PROVE Upto(Buf, Sent)'
    BY <1>0, <1>1, <1>3, <1>5 DEF Upto
  <1>6. QED
    BY <1>4, <1>5 DEF RxOK

(* DATA moves the receiver one packet on, and the packets behind are further. *)
LEMMA RxCollects ==
  ASSUME TypeInv, WireOK, TailOK, RxOK, Leaves, TakesData(uart[1]),
         Begun' = Begun, Buf' = Buf, Sent' = Sent
  PROVE  RxOK'
  <1> DEFINE p == uart[1]
  <1>0. /\ Len(uart) \in Nat /\ Sent \in Nat /\ uart \in Seq(Packets) /\ 1 \in 1 .. Len(uart)
        /\ rx.have \in Nat
    BY Types, SenderIs DEF TypeInv, Leaves, RxStates
  <1>1. /\ p.kind = "DATA" /\ rx.expected.len > 0 /\ startLost' = startLost
        /\ rx'.expected = rx.expected /\ rx'.have = rx.have + 1 /\ (rx'.broken <=> Splices(p))
    BY DEF TakesData
  <1>2. p.at \in Nat
    <2>1. p \in Packets
      BY <1>0
    <2>2. QED
      BY <2>1 DEF Packets
  <1>3. Clear(0, 1)
    BY <1>0, <1>1 DEF Clear
  <1>4. ~ startLost => Upto(p.frame, p.at)
    BY <1>0, <1>1, <1>3 DEF RxOK
  <1> HIDE DEF p
  <1>5. ASSUME ~ startLost, NEW at \in Nat, p.at < at
        PROVE  rx'.have <= at /\ (rx'.broken /\ rx'.have > 0 => rx'.have < at)
    <2>1. rx.have <= p.at /\ (rx.broken /\ rx.have > 0 => rx.have < p.at) /\ p.frame = rx.expected
      BY <1>4, <1>5 DEF Upto
    <2>2. Splices(p) => rx.have < p.at
      BY <1>0, <1>2, <2>1 DEF Splices
    <2>3. QED
      BY <1>0, <1>1, <1>2, <1>5, <2>1, <2>2
  <1>6. ASSUME ~ startLost, NEW j \in 1 .. Len(uart'), uart'[j].kind = "DATA", Clear(0, j)'
        PROVE  Upto(uart[j].frame, uart[j].at)'
    <2>1. Clear(0 + 1, j + 1) /\ Clear(0, j + 1)
      BY <1>0, <1>1, <1>6, ClearLeaves DEF p
    <2>2. j + 1 \in 1 .. Len(uart) /\ uart'[j] = uart[j + 1] /\ 1 < j + 1
      BY DEF Leaves
    <2>3. p.at < uart[j + 1].at
      BY <1>0, <1>1, <1>6, <2>1, <2>2 DEF WireOK, p
    <2>4. uart[j + 1].at \in Nat
      <3>1. uart[j + 1] \in Packets
        BY <1>0, <2>2
      <3>2. QED
        BY <3>1 DEF Packets
    <2>5. rx.expected = uart[j + 1].frame
      BY <1>1, <1>6, <2>1, <2>2 DEF RxOK, Upto
    <2>6. QED
      BY <1>1, <1>5, <1>6, <2>2, <2>3, <2>4, <2>5 DEF Upto
  <1>7. ASSUME ~ startLost, Begun', Clear(0, Len(uart))' PROVE Upto(Buf, Sent)'
    <2>0. Len(uart') \in Nat /\ Len(uart') + 1 = Len(uart)
      BY <1>0 DEF Leaves
    <2>1. PICK n \in Nat : n = Len(uart') /\ n + 1 = Len(uart)
      BY <2>0
    <2>2. Clear(0, n)'
      BY <1>7, <2>1 DEF Clear
    <2>3. Clear(0 + 1, Len(uart)) /\ Clear(0, Len(uart))
      BY <1>0, <1>1, <2>1, <2>2, ClearLeaves DEF p
    <2>4. p.at < Sent
      BY <1>0, <1>1, <1>7, <2>3 DEF TailOK, p
    <2>5. rx.expected = Buf
      BY <1>1, <1>7, <2>3 DEF RxOK, Upto
    <2>6. QED
      BY <1>0, <1>1, <1>5, <1>7, <2>4, <2>5 DEF Upto
  <1>8. QED
    BY <1>1, <1>6, <1>7 DEF RxOK

(* A buffer completed without a lost START matches the frame it was begun for. *)
LEMMA LastIntact ==
  ASSUME TypeInv, RxOK, Leaves, TakesLast(uart[1]), ArrivesIntact
  PROVE  ArrivesIntact'
  <1> DEFINE p == uart[1]
  <1>0. /\ Len(uart) \in Nat /\ uart \in Seq(Packets) /\ 1 \in 1 .. Len(uart) /\ rx.have \in Nat
        /\ startLost \in BOOLEAN
    BY Types DEF TypeInv, Leaves, RxStates
  <1>1. p.kind = "DATA" /\ rx.expected.len > 0 /\ rx.have + 1 >= rx.expected.len
    BY DEF TakesLast
  <1>2. p.at \in Nat /\ p.at < p.frame.len /\ p.frame.len \in Nat
    <2>1. p \in Packets
      BY <1>0
    <2>2. p.frame \in Frames /\ p.at < p.frame.len
      BY <1>0, <1>1 DEF TypeInv, PacketsOK
    <2>3. QED
      BY <2>1, <2>2, FrameIs DEF Packets
  <1>3. Clear(0, 1)
    BY <1>0, <1>1 DEF Clear
  <1>4. ~ startLost => Upto(p.frame, p.at)
    BY <1>0, <1>1, <1>3 DEF RxOK
  <1>5. \/ UNCHANGED arrived
        \/ arrived'.startLost = startLost /\ (arrived'.intact <=> ~ Splices(p))
    BY DEF TakesLast
  <1> HIDE DEF p
  <1>6. ASSUME ~ startLost PROVE ~ Splices(p)
    <2>1. rx.expected = p.frame /\ rx.have <= p.at /\ (rx.broken /\ rx.have > 0 => rx.have < p.at)
      BY <1>4, <1>6 DEF Upto
    <2>2. rx.have = p.at
      BY <1>0, <1>1, <1>2, <2>1
    <2>3. QED
      BY <1>0, <2>1, <2>2 DEF Splices
  <1>7. CASE UNCHANGED arrived
    BY <1>7 DEF ArrivesIntact
  <1>8. CASE arrived'.startLost = startLost /\ (arrived'.intact <=> ~ Splices(p))
    BY <1>6, <1>8 DEF ArrivesIntact
  <1>9. QED
    BY <1>5, <1>7, <1>8

LEMMA IntactNext == TypeInv /\ IntactInv /\ [Next]_vars => IntactInv'
  <1> SUFFICES ASSUME TypeInv, IntactInv, [Next]_vars PROVE IntactInv'
    OBVIOUS
  <1>0. WireOK /\ TailOK /\ RxOK /\ ArrivesIntact /\ Len(uart) \in Nat /\ TypeOK
    BY Types DEF IntactInv, TypeInv
  \* The queue, the receiver and what it handed on stay; the sender's place too.
  <1>a. ASSUME UNCHANGED <<uart, rx, startLost, arrived>>,
               Begun' => Begun /\ Buf' = Buf /\ Sent' = Sent
        PROVE  IntactInv'
    <2>1. WireOK' /\ ArrivesIntact'
      BY <1>0, <1>a DEF WireOK, Clear, ArrivesIntact
    <2>2. TailOK'
      BY <1>0, <1>a DEF TailOK, Clear
    <2>3. RxOK'
      BY <1>0, <1>a DEF RxOK, Clear, Upto
    <2>4. QED
      BY <2>1, <2>2, <2>3 DEF IntactInv
  <1>1. ASSUME NEW k \in FrameKinds, relay_to_peer(k) PROVE IntactInv'
    <2>1. UNCHANGED <<uart, rx, startLost, arrived>> /\ Begun' = Begun /\ Sent' = Sent
          /\ (Buf' = Buf \/ Buf.len = 0)
      BY <1>1, OffersIs
    <2>2. Buf.len = 0 => ~ Begun
      BY DEF TypeInv, QueueOK
    <2>3. QED
      BY <1>a, <2>1, <2>2
  <1>2. CASE PumpBegin \/ PumpEnd
    <2>1. UNCHANGED <<uart, rx, arrived, startLost>> /\ tx'.q = tx.q
      <3>1. tx' = [tx EXCEPT !.burst = 0] \/ tx' = tx
        BY <1>2 DEF PumpBegin, PumpEnd, dh_relay_tx_yield
      <3>2. tx'.q = tx.q
        BY <1>0, <3>1, Types
      <3>3. QED
        BY <1>2, <3>2 DEF PumpBegin, PumpEnd, history
    <2>2. QED
      BY <1>a, <2>1, SenderStill
  <1>3. CASE PumpPacket
    <2>1. /\ UNCHANGED <<rx, arrived, startLost>>
          /\ \/ UNCHANGED <<uart, tx>>
             \/ \E p \in Packets :
                  /\ uart' = Append(uart, p) /\ Len(uart) < UART_QUEUE_LENGTH
                  /\ p.frame = Buf /\ p.at = Sent /\ Buf \in Frames /\ Sent < Buf.len
                  /\ \/ ~ Begun /\ p.kind = "START" /\ Buf' = Buf
                     \/ /\ Begun /\ p.kind = "DATA"
                        /\ \/ Buf' = Buf /\ Sent' = Sent + 1
                           \/ ~ Begun'
      BY <1>3, PumpsIs DEF history
    <2>2. CASE UNCHANGED <<uart, tx>>
      BY <1>a, <2>1, <2>2 DEF Begun, Buf, Sent
    <2>3. ASSUME NEW p \in Packets,
                 uart' = Append(uart, p), Len(uart) < UART_QUEUE_LENGTH,
                 p.frame = Buf, p.at = Sent, Buf \in Frames, Sent < Buf.len,
                 \/ ~ Begun /\ p.kind = "START" /\ Buf' = Buf
                 \/ /\ Begun /\ p.kind = "DATA"
                    /\ \/ Buf' = Buf /\ Sent' = Sent + 1
                       \/ ~ Begun'
          PROVE  IntactInv'
      <3>1. Joins(p)
        BY <2>3, JoinsIs
      <3>2. WireOK'
        BY <1>0, <2>3, <3>1, WireJoins
      <3>3. TailOK'
        BY <1>0, <2>3, <3>1, TailPumps
      <3>4. RxOK'
        BY <1>0, <2>1, <2>3, <3>1, RxJoins
      <3>5. ArrivesIntact'
        BY <1>0, <2>1 DEF ArrivesIntact
      <3>6. QED
        BY <3>2, <3>3, <3>4, <3>5 DEF IntactInv
    <2>4. QED
      BY <2>1, <2>2, <2>3
  <1>4. CASE QueueInput
    <2>1. uart' = Append(uart, Input) /\ Len(uart) < UART_QUEUE_LENGTH
          /\ UNCHANGED <<tx, rx, arrived, startLost>>
      BY <1>4 DEF QueueInput, history
    <2>2. Joins(Input) /\ Input \in Packets /\ Input.kind = "INPUT"
      BY <2>1, InputIs, JoinsIs
    <2>3. Begun' = Begun /\ Buf' = Buf /\ Sent' = Sent
      BY <2>1, SenderStill
    <2>4. WireOK' /\ TailOK' /\ RxOK'
      BY <1>0, <2>1, <2>2, <2>3, WireJoins, TailInput, RxJoins
    <2>5. QED
      BY <1>0, <2>1, <2>4 DEF IntactInv, ArrivesIntact
  <1>5. CASE Transmit
    <2> DEFINE p == uart[1]
    <2>1. /\ Leaves /\ UNCHANGED tx
          /\ TakesInput(p) \/ TakesStart(p) \/ TakesOrphan(p) \/ TakesData(p) \/ TakesLast(p)
          /\ (rx'.expected.len > 0 => rx'.have < rx'.expected.len)
      BY <1>5, TransmitIs
    <2>2. Begun' = Begun /\ Buf' = Buf /\ Sent' = Sent
      BY <2>1, SenderStill
    <2>3. WireOK' /\ TailOK'
      BY <1>0, <2>1, <2>2, WireLeaves, TailLeaves
    <2>4. CASE TakesInput(p)
      <3>1. p.kind = "INPUT" /\ UNCHANGED <<rx, arrived, startLost>>
        BY <2>4 DEF TakesInput
      <3>2. RxOK'
        BY <1>0, <2>1, <2>2, <3>1, RxMisses
      <3>3. QED
        BY <1>0, <2>3, <3>1, <3>2 DEF IntactInv, ArrivesIntact
    <2>5. CASE TakesStart(p)
      <3>1. RxOK'
        BY <1>0, <2>1, <2>2, <2>5, RxStarts
      <3>2. QED
        BY <1>0, <2>3, <2>5, <3>1 DEF IntactInv, ArrivesIntact, TakesStart
    <2>6. CASE TakesOrphan(p)
      <3>1. rx'.expected.len = 0 /\ UNCHANGED arrived
        BY <2>6 DEF TakesOrphan
      <3>2. RxOK'
        BY <3>1 DEF RxOK
      <3>3. QED
        BY <1>0, <2>3, <3>1, <3>2 DEF IntactInv, ArrivesIntact
    <2>7. CASE TakesData(p)
      <3>1. RxOK'
        BY <1>0, <2>1, <2>2, <2>7, RxCollects
      <3>2. QED
        BY <1>0, <2>3, <2>7, <3>1 DEF IntactInv, ArrivesIntact, TakesData
    <2>8. CASE TakesLast(p)
      <3>1. rx'.expected.len = 0
        BY <2>8, FrameIs DEF TakesLast
      <3>2. RxOK'
        BY <3>1 DEF RxOK
      <3>3. ArrivesIntact'
        BY <1>0, <2>1, <2>8, LastIntact
      <3>4. QED
        BY <2>3, <3>2, <3>3 DEF IntactInv
    <2>9. QED
      BY <2>1, <2>4, <2>5, <2>6, <2>7, <2>8
  <1>6. CASE TransmitLost
    <2>1. /\ Leaves /\ UNCHANGED <<tx, rx, arrived>>
          /\ (startLost' <=> startLost \/ uart[1].kind = "START")
      BY <1>6, LostIs
    <2>2. Begun' = Begun /\ Buf' = Buf /\ Sent' = Sent
      BY <2>1, SenderStill
    <2>3. WireOK' /\ TailOK'
      BY <1>0, <2>1, <2>2, WireLeaves, TailLeaves
    <2>4. RxOK'
      BY <1>0, <2>1, <2>2, RxMisses
    <2>5. QED
      BY <1>0, <2>1, <2>3, <2>4 DEF IntactInv, ArrivesIntact
  <1>7. CASE dh_relay_tx_reset
    BY <1>7, <1>a, TxResetIs
  <1>8. CASE dh_relay_rx_reset \/ RxResetHave
    <2>1. /\ UNCHANGED <<tx, uart, arrived, startLost>>
          /\ rx' \in {[rx EXCEPT !.expected = NoFrame], [rx EXCEPT !.have = 0]}
      BY <1>8 DEF dh_relay_rx_reset, RxResetHave, history
    <2>2. rx \in RxStates
      BY <1>0, Types
    <2>3. (rx'.expected.len = 0) \/ (rx'.expected = rx.expected /\ rx'.have = 0)
      BY <2>1, <2>2, FrameIs DEF RxStates
    <2>4. WireOK' /\ TailOK' /\ ArrivesIntact'
      BY <1>0, <2>1 DEF WireOK, TailOK, Clear, Begun, Buf, Sent, ArrivesIntact
    <2>5. RxOK'
      <3>1. Begun' = Begun /\ Buf' = Buf /\ Sent' = Sent /\ Sent \in Nat
        BY <1>0, <2>1, SenderStill, SenderIs
      <3>2. ASSUME NEW j \in 1 .. Len(uart) PROVE uart[j].at \in Nat
        <4>1. uart[j] \in Packets
          BY <1>0, <3>2, Types
        <4>2. QED
          BY <4>1 DEF Packets
      <3>3. CASE rx'.expected.len = 0
        BY <3>3 DEF RxOK
      <3>4. CASE rx'.expected = rx.expected /\ rx'.have = 0
        <4>1. ASSUME NEW j \in 1 .. Len(uart), ~ startLost, rx.expected.len > 0,
                     uart[j].kind = "DATA", Clear(0, j)
              PROVE  Upto(uart[j].frame, uart[j].at)'
          BY <1>0, <2>1, <3>2, <3>4, <4>1 DEF RxOK, Upto
        <4>2. ASSUME ~ startLost, rx.expected.len > 0, Begun, Clear(0, Len(uart))
              PROVE  Upto(Buf, Sent)'
          BY <1>0, <2>1, <3>1, <3>4, <4>2 DEF RxOK, Upto
        <4>3. QED
          BY <2>1, <3>1, <3>4, <4>1, <4>2 DEF RxOK, Clear
      <3>5. QED
        BY <2>3, <3>3, <3>4
    <2>6. QED
      BY <2>4, <2>5 DEF IntactInv
  <1>9. CASE UNCHANGED vars
    BY <1>9, <1>a DEF vars, Begun, Buf, Sent
  <1>10. QED
    BY <1>1, <1>2, <1>3, <1>4, <1>5, <1>6, <1>7, <1>8, <1>9 DEF Next

LEMMA IntactInit == Init => IntactInv
  <1> SUFFICES ASSUME Init PROVE IntactInv
    OBVIOUS
  <1>1. Len(uart) = 0 /\ rx.expected.len = 0 /\ arrived.intact
    BY FrameIs DEF Init, dh_relay_rx_init
  <1>2. QED
    BY <1>1 DEF IntactInv, WireOK, TailOK, RxOK, ArrivesIntact

(* A frame handed to the inbound ring is the frame that was offered unless *)
(* a START was lost, whatever else the link loses, however input reports   *)
(* mix with the frame's packets and whenever either board resets, the      *)
(* receiver's half-done reset included (dh_relay_rx_push).                 *)
THEOREM RelayArrivesIntact == Spec => []ArrivesIntact
  <1>1. TypeInv /\ IntactInv => ArrivesIntact
    BY DEF IntactInv
  <1>2. QED
    BY <1>1, TypeInit, TypeNext, IntactInit, IntactNext, PTL DEF Spec

-----------------------------------------------------------------------------
(* Frames travel in the order of their ids: taken, awaited, begun, owed. *)

\* Frame x was begun before every frame the sender has yet to begin,
Owes(x) ==
  /\ Buf.len > 0 /\ ~ Begun => x < Buf.id
  /\ \A i \in 1 .. Len(Staged) : x < Staged[i].id
  /\ x < next

\* and before every frame whose START is in the queue.
Ahead(x) ==
  /\ \A i \in 1 .. Len(uart) : uart[i].kind = "START" => x < uart[i].frame.id
  /\ Owes(x)

SendOrder ==
  /\ Buf.len > 0 => Buf.id < next /\ \A i \in 1 .. Len(Staged) : Buf.id < Staged[i].id
  /\ \A i \in 1 .. Len(Staged) :
       /\ Staged[i].id < next
       /\ \A j \in 1 .. Len(Staged) : i < j => Staged[i].id < Staged[j].id

WireOrder ==
  \A i \in 1 .. Len(uart) : uart[i].kind = "START" =>
    /\ Owes(uart[i].frame.id)
    /\ \A j \in 1 .. Len(uart) :
         i < j /\ uart[j].kind = "START" => uart[i].frame.id < uart[j].frame.id

TakenOrder ==
  /\ taken \in Seq(Nat)
  /\ rx.expected.len > 0 => Ahead(rx.expected.id)
  /\ \A t \in 1 .. Len(taken) :
       /\ Ahead(taken[t])
       /\ rx.expected.len > 0 => taken[t] < rx.expected.id
       /\ \A s \in 1 .. Len(taken) : t < s => taken[t] < taken[s]

OrderInv == SendOrder /\ WireOrder /\ TakenOrder

LEMMA OrderOffers ==
  ASSUME TypeInv, SendOrder, NEW k \in FrameKinds, relay_to_peer(k)
  PROVE  SendOrder' /\ \A x \in Nat : Owes(x) => Owes(x)'
  <1>0. /\ next \in Nat /\ Buf.len \in Nat /\ Buf.id \in Nat /\ Staged \in Seq(Frames)
        /\ Len(Staged) \in Nat /\ (Buf.len = 0 => Staged = <<>> /\ ~ Begun)
    BY Types, SenderIs DEF TypeInv, QueueOK
  <1>1. ASSUME NEW i \in 1 .. Len(Staged) PROVE Staged[i].id \in Nat
    <2>1. Staged[i] \in Frames
      BY <1>0
    <2>2. QED
      BY <2>1, FrameIs
  <1>2. /\ next' = next + 1 /\ Begun' = Begun
        /\ \/ Buf' = Buf /\ Staged' = Staged
           \/ /\ Buf.len > 0 /\ Buf' = Buf
              /\ \E f \in Frames : f.id = next /\ Staged' = Append(Staged, f)
           \/ Buf.len = 0 /\ Buf' \in Frames /\ Buf'.id = next /\ Staged' = Staged
    BY OffersIs
  <1>3. CASE Buf' = Buf /\ Staged' = Staged
    BY <1>0, <1>1, <1>2, <1>3 DEF SendOrder, Owes
  <1>4. ASSUME Buf.len > 0, Buf' = Buf,
               NEW f \in Frames, f.id = next, Staged' = Append(Staged, f)
        PROVE  SendOrder' /\ \A x \in Nat : Owes(x) => Owes(x)'
    <2>1. /\ Len(Staged') = Len(Staged) + 1 /\ Staged'[Len(Staged) + 1] = f
          /\ \A i \in 1 .. Len(Staged) : Staged'[i] = Staged[i]
      BY <1>0, <1>4, AppendIs
    <2>2. ASSUME NEW i \in 1 .. Len(Staged')
          PROVE  \/ i \in 1 .. Len(Staged) /\ Staged'[i] = Staged[i]
                 \/ i = Len(Staged) + 1 /\ Staged'[i].id = next
      BY <1>0, <1>4, <2>1
    <2>3. SendOrder'
      <3>1. Buf'.id < next' /\ \A i \in 1 .. Len(Staged') : Buf'.id < Staged'[i].id
        BY <1>0, <1>1, <1>2, <1>4, <2>2 DEF SendOrder
      <3>2. ASSUME NEW i \in 1 .. Len(Staged') PROVE Staged'[i].id < next'
        BY <1>0, <1>1, <1>2, <2>2 DEF SendOrder
      <3>3. ASSUME NEW i \in 1 .. Len(Staged'), NEW j \in 1 .. Len(Staged'), i < j
            PROVE  Staged'[i].id < Staged'[j].id
        <4>1. i \in 1 .. Len(Staged) /\ Staged'[i] = Staged[i] /\ Staged[i].id < next
          BY <1>0, <2>1, <2>2, <3>3 DEF SendOrder
        <4>2. CASE j \in 1 .. Len(Staged) /\ Staged'[j] = Staged[j]
          BY <3>3, <4>1, <4>2 DEF SendOrder
        <4>3. CASE Staged'[j].id = next
          BY <4>1, <4>3
        <4>4. QED
          BY <2>2, <4>2, <4>3
      <3>4. QED
        BY <3>1, <3>2, <3>3 DEF SendOrder
    <2>4. \A x \in Nat : Owes(x) => Owes(x)'
      BY <1>0, <1>1, <1>2, <1>4, <2>1, <2>2 DEF Owes
    <2>5. QED
      BY <2>3, <2>4
  <1>5. CASE Buf.len = 0 /\ Buf' \in Frames /\ Buf'.id = next /\ Staged' = Staged
    <2>1. Len(Staged) = 0
      BY <1>0, <1>5
    <2>2. QED
      BY <1>0, <1>2, <1>5, <2>1 DEF SendOrder, Owes
  <1>6. QED
    BY <1>2, <1>3, <1>4, <1>5

(* The frame at the front of the stage is loaded. *)
LEMMA OrderPromotes ==
  ASSUME TypeInv, SendOrder, Begun, next' = next, ~ Begun',
         \/ Buf' = NoFrame /\ Staged' = <<>>
         \/ Staged # <<>> /\ Buf' = Head(Staged) /\ Staged' = Tail(Staged)
  PROVE  SendOrder' /\ \A x \in Nat : Owes(x) => Owes(x)'
  <1>0. /\ next \in Nat /\ Staged \in Seq(Frames) /\ Len(Staged) \in Nat /\ NoFrame.len = 0
    BY Types, SenderIs, FrameIs DEF TypeInv
  <1>1. CASE Buf' = NoFrame /\ Staged' = <<>>
    <2>1. Buf'.len = 0 /\ Len(Staged') = 0
      BY <1>0, <1>1
    <2>2. QED
      BY <1>0, <2>1 DEF SendOrder, Owes
  <1>2. CASE Staged # <<>> /\ Buf' = Head(Staged) /\ Staged' = Tail(Staged)
    <2>1. /\ 1 \in 1 .. Len(Staged) /\ Buf' = Staged[1]
          /\ \A i \in 1 .. Len(Staged') : i + 1 \in 1 .. Len(Staged) /\ Staged'[i] = Staged[i + 1]
      BY <1>0, <1>2, TailIs
    <2>2. Len(Staged') \in Nat
      BY <1>0, <1>2
    <2>3. Buf'.id < next' /\ \A i \in 1 .. Len(Staged') : Buf'.id < Staged'[i].id
      <3>1. ASSUME NEW i \in 1 .. Len(Staged') PROVE Buf'.id < Staged'[i].id
        <4>1. i + 1 \in 1 .. Len(Staged) /\ Staged'[i] = Staged[i + 1] /\ 1 < i + 1
          BY <2>1
        <4>2. QED
          BY <2>1, <4>1 DEF SendOrder
      <3>2. QED
        BY <2>1, <3>1 DEF SendOrder
    <2>4. ASSUME NEW i \in 1 .. Len(Staged')
          PROVE  /\ Staged'[i].id < next'
                 /\ \A j \in 1 .. Len(Staged') : i < j => Staged'[i].id < Staged'[j].id
      <3>1. i + 1 \in 1 .. Len(Staged) /\ Staged'[i] = Staged[i + 1]
        BY <2>1
      <3>2. ASSUME NEW j \in 1 .. Len(Staged'), i < j PROVE Staged'[i].id < Staged'[j].id
        <4>1. j + 1 \in 1 .. Len(Staged) /\ Staged'[j] = Staged[j + 1] /\ i + 1 < j + 1
          BY <2>1, <3>2
        <4>2. QED
          BY <3>1, <4>1 DEF SendOrder
      <3>3. QED
        BY <3>1, <3>2 DEF SendOrder
    <2>5. SendOrder'
      BY <2>3, <2>4 DEF SendOrder
    <2>6. \A x \in Nat : Owes(x) => Owes(x)'
      BY <2>1 DEF Owes
    <2>7. QED
      BY <2>5, <2>6
  <1>3. QED
    BY <1>1, <1>2

(* What holds of the frames on the wire survives any step of the sender that
   only ever puts off what it owes. *)
LEMMA AheadStays ==
  ASSUME UNCHANGED uart, \A x \in Nat : Owes(x) => Owes(x)', NEW x \in Nat, Ahead(x)
  PROVE  Ahead(x)'
  BY DEF Ahead

LEMMA AheadJoins ==
  ASSUME Len(uart) \in Nat, NEW p, Joins(p), \A x \in Nat : Owes(x) => Owes(x)',
         NEW x \in Nat, Ahead(x), p.kind = "START" => x < p.frame.id
  PROVE  Ahead(x)'
  <1>1. Owes(x)'
    BY DEF Ahead
  <1>2. ASSUME NEW i \in 1 .. Len(uart'), uart'[i].kind = "START" PROVE x < uart'[i].frame.id
    <2>1. CASE i \in 1 .. Len(uart)
      BY <1>2, <2>1 DEF Joins, Ahead
    <2>2. CASE i = Len(uart) + 1
      BY <1>2, <2>2 DEF Joins
    <2>3. QED
      BY <2>1, <2>2 DEF Joins
  <1>3. QED
    BY <1>1, <1>2 DEF Ahead

LEMMA AheadLeaves ==
  ASSUME Leaves, NEW x, Ahead(x), UNCHANGED <<tx, next>>
  PROVE  Ahead(x)'
  <1>1. Owes(x)'
    BY DEF Ahead, Owes, Buf, Begun, Staged
  <1>2. ASSUME NEW i \in 1 .. Len(uart'), uart'[i].kind = "START" PROVE x < uart'[i].frame.id
    BY <1>2 DEF Leaves, Ahead
  <1>3. QED
    BY <1>1, <1>2 DEF Ahead

LEMMA StartIds ==
  ASSUME TypeInv, NEW i \in 1 .. Len(uart)
  PROVE  uart[i].frame.id \in Nat /\ uart[i].at \in Nat /\ uart[i] \in Packets
  <1>1. uart[i] \in Packets
    BY Types DEF TypeInv
  <1>2. uart[i].frame \in Frames \cup {NoFrame} /\ uart[i].at \in Nat
    BY <1>1 DEF Packets
  <1>3. QED
    BY <1>1, <1>2, FrameIs

LEMMA WireOrderJoins ==
  ASSUME TypeInv, WireOrder, NEW p \in Packets, Joins(p), \A x \in Nat : Owes(x) => Owes(x)',
         p.kind = "START" =>
            /\ Owes(p.frame.id)'
            /\ \A i \in 1 .. Len(uart) : uart[i].kind = "START" => uart[i].frame.id < p.frame.id
  PROVE  WireOrder'
  <1>0. Len(uart) \in Nat
    BY Types DEF TypeInv
  <1>1. ASSUME NEW i \in 1 .. Len(uart')
        PROVE  \/ i \in 1 .. Len(uart) /\ uart'[i] = uart[i]
               \/ i = Len(uart) + 1 /\ uart'[i] = p
    BY <1>0 DEF Joins
  <1>2. ASSUME NEW i \in 1 .. Len(uart'), uart'[i].kind = "START" PROVE Owes(uart[i].frame.id)'
    <2>1. CASE i \in 1 .. Len(uart) /\ uart'[i] = uart[i]
      <3>1. PICK x \in Nat : x = uart[i].frame.id
        BY <2>1, StartIds
      <3>2. Owes(x)
        BY <1>2, <2>1, <3>1 DEF WireOrder
      <3>3. Owes(x)'
        BY <3>2
      <3>4. QED
        BY <2>1, <3>1, <3>3 DEF Owes
    <2>2. CASE i = Len(uart) + 1 /\ uart'[i] = p
      <3>1. PICK x : x = p.frame.id
        OBVIOUS
      <3>2. Owes(x)'
        BY <1>2, <2>2, <3>1 DEF Owes
      <3>3. QED
        BY <2>2, <3>1, <3>2 DEF Owes
    <2>3. QED
      BY <1>1, <2>1, <2>2
  <1>3. ASSUME NEW i \in 1 .. Len(uart'), uart'[i].kind = "START",
               NEW j \in 1 .. Len(uart'), i < j, uart'[j].kind = "START"
        PROVE  uart'[i].frame.id < uart'[j].frame.id
    <2>1. i \in 1 .. Len(uart) /\ uart'[i] = uart[i]
      BY <1>0, <1>1, <1>3 DEF Joins
    <2>2. CASE j \in 1 .. Len(uart) /\ uart'[j] = uart[j]
      BY <1>3, <2>1, <2>2 DEF WireOrder
    <2>3. CASE uart'[j] = p
      BY <1>3, <2>1, <2>3
    <2>4. QED
      BY <1>1, <2>2, <2>3
  <1>4. QED
    BY <1>2, <1>3 DEF WireOrder

LEMMA WireOrderLeaves ==
  ASSUME TypeInv, WireOrder, Leaves, UNCHANGED <<tx, next>>
  PROVE  WireOrder'
  <1>1. ASSUME NEW i \in 1 .. Len(uart'), uart'[i].kind = "START"
        PROVE  /\ Owes(uart[i].frame.id)'
               /\ \A j \in 1 .. Len(uart') :
                    i < j /\ uart'[j].kind = "START" => uart'[i].frame.id < uart'[j].frame.id
    <2>1. i + 1 \in 1 .. Len(uart) /\ uart'[i] = uart[i + 1]
      BY DEF Leaves
    <2>2. Owes(uart[i + 1].frame.id)
      BY <1>1, <2>1 DEF WireOrder
    <2>3. Owes(uart[i].frame.id)'
      BY <2>1, <2>2 DEF Owes, Buf, Begun, Staged
    <2>4. ASSUME NEW j \in 1 .. Len(uart'), i < j, uart'[j].kind = "START"
          PROVE  uart'[i].frame.id < uart'[j].frame.id
      <3>1. j + 1 \in 1 .. Len(uart) /\ uart'[j] = uart[j + 1] /\ i + 1 < j + 1
        BY <2>4 DEF Leaves
      <3>2. QED
        BY <1>1, <2>1, <2>4, <3>1 DEF WireOrder
    <2>5. QED
      BY <2>3, <2>4
  <1>2. QED
    BY <1>1 DEF WireOrder

(* The receiver takes nothing: what is ahead stays ahead. *)
LEMMA TakenStays ==
  ASSUME TypeInv, TakenOrder, UNCHANGED taken,
         rx'.expected.len > 0 => rx'.expected = rx.expected,
         \A x \in Nat : Ahead(x) /\ ((rx.expected.len > 0 /\ x = rx.expected.id)
                                      \/ \E t \in 1 .. Len(taken) : x = taken[t])
                          => Ahead(x)'
  PROVE  TakenOrder'
  <1>0. rx.expected.id \in Nat
    BY Types, FrameIs DEF TypeInv, RxStates
  <1>1. ASSUME rx'.expected.len > 0 PROVE Ahead(rx.expected.id)'
    <2>1. PICK x \in Nat : x = rx.expected.id
      BY <1>0
    <2>2. Ahead(x) /\ rx.expected.len > 0 /\ rx'.expected = rx.expected
      BY <1>1, <2>1 DEF TakenOrder
    <2>3. Ahead(x)'
      BY <2>1, <2>2
    <2>4. QED
      BY <2>1, <2>2, <2>3 DEF Ahead, Owes
  <1>2. ASSUME NEW t \in 1 .. Len(taken) PROVE Ahead(taken[t])'
    <2>1. PICK x \in Nat : x = taken[t]
      BY <1>2 DEF TakenOrder
    <2>2. Ahead(x)
      BY <2>1 DEF TakenOrder
    <2>3. Ahead(x)'
      BY <2>1, <2>2
    <2>4. QED
      BY <2>1, <2>3 DEF Ahead, Owes
  <1>3. QED
    BY <1>1, <1>2 DEF TakenOrder

(* A START is awaited next, ahead of all that follow it. *)
LEMMA TakenStarts ==
  ASSUME TypeInv, WireOrder, TakenOrder, Leaves, TakesStart(uart[1]), UNCHANGED <<tx, next>>
  PROVE  TakenOrder'
  <1>0. 1 \in 1 .. Len(uart) /\ Len(uart) \in Nat
    BY Types DEF TypeInv, Leaves
  <1>1. uart[1].kind = "START" /\ taken' = taken /\ rx'.expected = uart[1].frame
    BY DEF TakesStart
  <1>2. Ahead(rx.expected.id)'
    <2>1. PICK x \in Nat : x = uart[1].frame.id
      BY <1>0, StartIds
    <2>2. Owes(x)'
      BY <1>0, <1>1, <2>1 DEF WireOrder, Owes, Buf, Begun, Staged
    <2>3. ASSUME NEW i \in 1 .. Len(uart'), uart'[i].kind = "START" PROVE x < uart'[i].frame.id
      <3>1. i + 1 \in 1 .. Len(uart) /\ uart'[i] = uart[i + 1] /\ 1 < i + 1
        BY DEF Leaves
      <3>2. QED
        BY <1>0, <1>1, <2>1, <2>3, <3>1 DEF WireOrder
    <2>4. QED
      BY <1>1, <2>1, <2>2, <2>3 DEF Ahead, Owes
  <1>3. ASSUME NEW t \in 1 .. Len(taken)
        PROVE  Ahead(taken[t])' /\ taken[t] < uart[1].frame.id
    <2>1. PICK x \in Nat : x = taken[t]
      BY <1>3 DEF TakenOrder
    <2>2. Ahead(x)
      BY <2>1 DEF TakenOrder
    <2>3. Ahead(x)'
      BY <2>2, AheadLeaves
    <2>4. QED
      BY <1>0, <1>1, <2>1, <2>2, <2>3 DEF Ahead, Owes
  <1>4. QED
    BY <1>1, <1>2, <1>3 DEF TakenOrder

(* The frame completed is behind those taken and ahead of those to come. *)
LEMMA TakenAppends ==
  ASSUME TypeInv, TakenOrder, Leaves, TakesLast(uart[1]), UNCHANGED <<tx, next>>
  PROVE  TakenOrder'
  <1>0. rx.expected.len > 0 /\ rx'.expected.len = 0 /\ taken \in Seq(Nat)
    BY FrameIs DEF TakesLast, TakenOrder
  <1>1. PICK e \in Nat : e = rx.expected.id /\ Ahead(e)
    BY <1>0, Types, FrameIs DEF TypeInv, RxStates, TakenOrder
  <1>2. Ahead(e)'
    BY <1>1, AheadLeaves
  <1>3. ASSUME NEW t \in 1 .. Len(taken), NEW x \in Nat, x = taken[t]
        PROVE  Ahead(x)' /\ x < e
    <2>1. Ahead(x) /\ x < e
      BY <1>0, <1>1, <1>3 DEF TakenOrder
    <2>2. QED
      BY <2>1, AheadLeaves
  <1>4. CASE UNCHANGED taken
    <2>1. ASSUME NEW t \in 1 .. Len(taken) PROVE Ahead(taken[t])'
      <3>1. PICK x \in Nat : x = taken[t]
        BY <1>0, <2>1
      <3>2. Ahead(x)'
        BY <1>3, <3>1
      <3>3. QED
        BY <1>4, <3>1, <3>2 DEF Ahead, Owes
    <2>2. QED
      BY <1>0, <1>4, <2>1 DEF TakenOrder
  <1>5. CASE taken' = Append(taken, e)
    <2>1. /\ taken' \in Seq(Nat) /\ Len(taken') = Len(taken) + 1 /\ Len(taken) \in Nat
          /\ taken'[Len(taken) + 1] = e /\ \A t \in 1 .. Len(taken) : taken'[t] = taken[t]
      BY <1>0, <1>5, AppendIs
    <2>2. ASSUME NEW t \in 1 .. Len(taken')
          PROVE  \/ t \in 1 .. Len(taken) /\ taken'[t] = taken[t]
                 \/ t = Len(taken) + 1 /\ taken'[t] = e
      BY <2>1
    <2>3. ASSUME NEW t \in 1 .. Len(taken') PROVE Ahead(taken[t])'
      <3>1. CASE t \in 1 .. Len(taken) /\ taken'[t] = taken[t]
        <4>1. PICK x \in Nat : x = taken[t]
          BY <1>0, <3>1
        <4>2. Ahead(x)'
          BY <1>3, <3>1, <4>1
        <4>3. QED
          BY <3>1, <4>1, <4>2 DEF Ahead, Owes
      <3>2. CASE taken'[t] = e
        BY <1>2, <3>2 DEF Ahead, Owes
      <3>3. QED
        BY <2>2, <3>1, <3>2
    <2>4. ASSUME NEW t \in 1 .. Len(taken'), NEW s \in 1 .. Len(taken'), t < s
          PROVE  taken'[t] < taken'[s]
      <3>1. t \in 1 .. Len(taken) /\ taken'[t] = taken[t]
        BY <2>1, <2>2, <2>4
      <3>2. CASE s \in 1 .. Len(taken) /\ taken'[s] = taken[s]
        BY <2>4, <3>1, <3>2 DEF TakenOrder
      <3>3. CASE taken'[s] = e
        <4>1. taken[t] \in Nat
          BY <1>0, <3>1
        <4>2. QED
          BY <1>3, <3>1, <3>3, <4>1
      <3>4. QED
        BY <2>2, <3>2, <3>3
    <2>5. QED
      BY <1>0, <2>1, <2>3, <2>4 DEF TakenOrder
  <1>6. QED
    BY <1>1, <1>4, <1>5 DEF TakesLast

LEMMA OrderNext == TypeInv /\ OrderInv /\ [Next]_vars => OrderInv'
  <1> SUFFICES ASSUME TypeInv, OrderInv, [Next]_vars PROVE OrderInv'
    OBVIOUS
  <1>0. SendOrder /\ WireOrder /\ TakenOrder /\ Len(uart) \in Nat /\ TypeOK /\ QueueOK
    BY Types DEF OrderInv, TypeInv
  \* The queue stays, the receiver takes nothing, the sender puts nothing forward.
  <1>a. ASSUME UNCHANGED <<uart, taken>>, SendOrder', \A x \in Nat : Owes(x) => Owes(x)',
               rx'.expected.len > 0 => rx'.expected = rx.expected
        PROVE  OrderInv'
    <2>1. WireOrder'
      <3>1. ASSUME NEW i \in 1 .. Len(uart), uart[i].kind = "START" PROVE Owes(uart[i].frame.id)'
        <4>1. PICK x \in Nat : x = uart[i].frame.id
          BY <3>1, StartIds
        <4>2. Owes(x)'
          BY <1>0, <1>a, <3>1, <4>1 DEF WireOrder
        <4>3. QED
          BY <1>a, <4>1, <4>2 DEF Owes
      <3>2. QED
        BY <1>0, <1>a, <3>1 DEF WireOrder
    <2>2. \A x \in Nat : Ahead(x) => Ahead(x)'
      BY <1>a, AheadStays
    <2>3. TakenOrder'
      BY <1>0, <1>a, <2>2, TakenStays
    <2>4. QED
      BY <1>a, <2>1, <2>3 DEF OrderInv
  \* The same sender.
  <1>b. ASSUME tx'.q = tx.q, next' = next
        PROVE  SendOrder' /\ \A x \in Nat : Owes(x) => Owes(x)'
    <2>1. Buf' = Buf /\ Begun' = Begun /\ Staged' = Staged
      BY <1>b, SenderStill
    <2>2. QED
      BY <1>0, <1>b, <2>1 DEF SendOrder, Owes
  <1>1. ASSUME NEW k \in FrameKinds, relay_to_peer(k) PROVE OrderInv'
    <2>1. UNCHANGED <<uart, rx, taken>>
      BY <1>1, OffersIs
    <2>2. SendOrder' /\ \A x \in Nat : Owes(x) => Owes(x)'
      BY <1>0, <1>1, OrderOffers
    <2>3. QED
      BY <1>a, <2>1, <2>2
  <1>2. CASE PumpBegin \/ PumpEnd
    <2>1. UNCHANGED <<uart, rx, next, taken>> /\ tx'.q = tx.q
      <3>1. tx' = [tx EXCEPT !.burst = 0] \/ tx' = tx
        BY <1>2 DEF PumpBegin, PumpEnd, dh_relay_tx_yield
      <3>2. tx'.q = tx.q
        BY <1>0, <3>1, Types
      <3>3. QED
        BY <1>2, <3>2 DEF PumpBegin, PumpEnd, history
    <2>2. QED
      BY <1>a, <1>b, <2>1
  <1>3. CASE PumpPacket
    <2>1. /\ UNCHANGED <<rx, next, taken>>
          /\ \/ UNCHANGED <<uart, tx>>
             \/ \E p \in Packets :
                  /\ uart' = Append(uart, p) /\ Len(uart) < UART_QUEUE_LENGTH
                  /\ p.frame = Buf /\ p.at = Sent /\ Buf \in Frames /\ Sent < Buf.len
                  /\ \/ ~ Begun /\ p.kind = "START" /\ Buf' = Buf /\ Begun' /\ Staged' = Staged
                     \/ /\ Begun /\ p.kind = "DATA"
                        /\ \/ Buf' = Buf /\ Begun' /\ Staged' = Staged
                           \/ ~ Begun' /\ Buf' = NoFrame /\ Staged' = <<>>
                           \/ /\ ~ Begun' /\ Staged # <<>>
                              /\ Buf' = Head(Staged) /\ Staged' = Tail(Staged)
      BY <1>3, PumpsIs DEF history
    <2>2. CASE UNCHANGED <<uart, tx>>
      BY <1>a, <1>b, <2>1, <2>2
    <2>3. ASSUME NEW p \in Packets,
                 uart' = Append(uart, p), Len(uart) < UART_QUEUE_LENGTH,
                 p.frame = Buf, p.at = Sent, Buf \in Frames, Sent < Buf.len,
                 \/ ~ Begun /\ p.kind = "START" /\ Buf' = Buf /\ Begun' /\ Staged' = Staged
                 \/ /\ Begun /\ p.kind = "DATA"
                    /\ \/ Buf' = Buf /\ Begun' /\ Staged' = Staged
                       \/ ~ Begun' /\ Buf' = NoFrame /\ Staged' = <<>>
                       \/ /\ ~ Begun' /\ Staged # <<>>
                          /\ Buf' = Head(Staged) /\ Staged' = Tail(Staged)
          PROVE  OrderInv'
      <3>1. Joins(p) /\ Buf.id \in Nat /\ Buf.len > 0
        BY <2>3, JoinsIs, FrameIs
      <3>2. SendOrder' /\ \A x \in Nat : Owes(x) => Owes(x)'
        <4>1. CASE Buf' = Buf /\ Begun' /\ Staged' = Staged
          BY <1>0, <2>1, <4>1 DEF SendOrder, Owes
        <4>2. CASE /\ Begun /\ ~ Begun'
                   /\ \/ Buf' = NoFrame /\ Staged' = <<>>
                      \/ Staged # <<>> /\ Buf' = Head(Staged) /\ Staged' = Tail(Staged)
          BY <1>0, <2>1, <4>2, OrderPromotes
        <4>3. QED
          BY <2>3, <4>1, <4>2
      <3>3. ASSUME p.kind = "START" PROVE Owes(p.frame.id)'
        <4>1. Begun' /\ Staged' = Staged /\ next' = next
          BY <2>1, <2>3, <3>3
        <4>2. QED
          BY <1>0, <2>3, <3>1, <4>1 DEF Owes, SendOrder
      <3>4. ASSUME p.kind = "START", NEW x, Owes(x) PROVE x < p.frame.id
        BY <2>3, <3>1, <3>4 DEF Owes
      <3>5. WireOrder'
        <4>1. ASSUME p.kind = "START", NEW i \in 1 .. Len(uart), uart[i].kind = "START"
              PROVE  uart[i].frame.id < p.frame.id
          BY <1>0, <3>4, <4>1 DEF WireOrder
        <4>2. QED
          BY <1>0, <3>1, <3>2, <3>3, <4>1, WireOrderJoins
      <3>6. TakenOrder'
        <4>1. \A x \in Nat : Ahead(x) => Ahead(x)'
          <5>1. ASSUME NEW x \in Nat, Ahead(x) PROVE Ahead(x)'
            <6>1. p.kind = "START" => x < p.frame.id
              BY <3>4, <5>1 DEF Ahead
            <6>2. QED
              BY <1>0, <3>1, <3>2, <5>1, <6>1, AheadJoins
          <5>2. QED
            BY <5>1
        <4>2. QED
          BY <1>0, <2>1, <4>1, TakenStays
      <3>7. QED
        BY <3>2, <3>5, <3>6 DEF OrderInv
    <2>4. QED
      BY <2>1, <2>2, <2>3
  <1>4. CASE QueueInput
    <2>1. uart' = Append(uart, Input) /\ Len(uart) < UART_QUEUE_LENGTH
          /\ UNCHANGED <<tx, rx, next, taken>>
      BY <1>4 DEF QueueInput, history
    <2>2. Joins(Input) /\ Input \in Packets /\ Input.kind = "INPUT"
      BY <2>1, InputIs, JoinsIs
    <2>3. SendOrder' /\ \A x \in Nat : Owes(x) => Owes(x)'
      BY <1>b, <2>1
    <2>4. WireOrder'
      BY <1>0, <2>2, <2>3, WireOrderJoins
    <2>5. \A x \in Nat : Ahead(x) => Ahead(x)'
      BY <1>0, <2>2, <2>3, AheadJoins
    <2>6. TakenOrder'
      BY <1>0, <2>1, <2>5, TakenStays
    <2>7. QED
      BY <2>3, <2>4, <2>6 DEF OrderInv
  <1>5. CASE Transmit
    <2> DEFINE p == uart[1]
    <2>1. /\ Leaves /\ UNCHANGED <<tx, next>>
          /\ TakesInput(p) \/ TakesStart(p) \/ TakesOrphan(p) \/ TakesData(p) \/ TakesLast(p)
      BY <1>5, TransmitIs
    <2>2. SendOrder' /\ WireOrder'
      BY <1>0, <1>b, <2>1, WireOrderLeaves
    <2>3. \A x \in Nat : Ahead(x) => Ahead(x)'
      BY <2>1, AheadLeaves
    <2>4. CASE TakesInput(p) \/ TakesOrphan(p) \/ TakesData(p)
      <3>1. taken' = taken /\ rx'.expected = rx.expected
        BY <2>4 DEF TakesInput, TakesOrphan, TakesData
      <3>2. TakenOrder'
        BY <1>0, <2>3, <3>1, TakenStays
      <3>3. QED
        BY <2>2, <3>2 DEF OrderInv
    <2>5. CASE TakesStart(p)
      BY <1>0, <2>1, <2>2, <2>5, TakenStarts DEF OrderInv
    <2>6. CASE TakesLast(p)
      BY <1>0, <2>1, <2>2, <2>6, TakenAppends DEF OrderInv
    <2>7. QED
      BY <2>1, <2>4, <2>5, <2>6
  <1>6. CASE TransmitLost
    <2>1. Leaves /\ UNCHANGED <<tx, rx, next, taken>>
      BY <1>6, LostIs
    <2>2. SendOrder' /\ WireOrder'
      BY <1>0, <1>b, <2>1, WireOrderLeaves
    <2>3. \A x \in Nat : Ahead(x) => Ahead(x)'
      BY <2>1, AheadLeaves
    <2>4. QED
      BY <1>0, <2>1, <2>2, <2>3, TakenStays DEF OrderInv
  <1>7. CASE dh_relay_tx_reset
    <2>1. UNCHANGED <<uart, rx, next, taken>> /\ Buf' = NoFrame /\ Staged' = <<>>
      BY <1>7, TxResetIs
    <2>2. Buf'.len = 0 /\ Len(Staged') = 0
      BY <2>1, FrameIs
    <2>3. SendOrder' /\ \A x \in Nat : Owes(x) => Owes(x)'
      BY <2>1, <2>2 DEF SendOrder, Owes
    <2>4. QED
      BY <1>a, <2>1, <2>3
  <1>8. CASE dh_relay_rx_reset \/ RxResetHave
    <2>1. /\ UNCHANGED <<tx, uart, next, taken>>
          /\ rx' \in {[rx EXCEPT !.expected = NoFrame], [rx EXCEPT !.have = 0]}
      BY <1>8 DEF dh_relay_rx_reset, RxResetHave, history
    <2>2. rx'.expected.len > 0 => rx'.expected = rx.expected
      <3>1. rx \in RxStates
        BY <1>0, Types
      <3>2. QED
        BY <2>1, <3>1, FrameIs DEF RxStates
    <2>3. QED
      BY <1>a, <1>b, <2>1, <2>2
  <1>9. CASE UNCHANGED vars
    BY <1>9, <1>a, <1>b DEF vars
  <1>10. QED
    BY <1>1, <1>2, <1>3, <1>4, <1>5, <1>6, <1>7, <1>8, <1>9 DEF Next

LEMMA OrderInit == Init => OrderInv
  <1> SUFFICES ASSUME Init PROVE OrderInv
    OBVIOUS
  <1>1. dh_outq_init.band["bulk"] = band_clear /\ dh_outq_init.stage["bulk"] = <<>>
    BY DEF dh_outq_init, BandIds
  <1>2. Buf.len = 0 /\ Len(Staged) = 0
    BY <1>1, FrameIs DEF Init, dh_relay_tx_init, Buf, Staged
  <1>3. Len(uart) = 0 /\ rx.expected.len = 0 /\ taken \in Seq(Nat) /\ Len(taken) = 0
    BY FrameIs DEF Init, dh_relay_rx_init
  <1>4. QED
    BY <1>2, <1>3 DEF OrderInv, SendOrder, WireOrder, TakenOrder

-----------------------------------------------------------------------------
(* While nothing is lost or reset, the packets form one unbroken chain from
   the sender's place in the frame it sends to the receiver's in the frame it
   collects. *)

\* A place in a frame: the frame and the packet due, or between two frames.
Between == <<NoFrame, 0>>
Into(p) == IF p.kind = "START" THEN Between ELSE <<p.frame, p.at>>
After(p) ==
  IF p.kind = "START" THEN <<p.frame, 0>>
  ELSE IF p.at + 1 < p.frame.len THEN <<p.frame, p.at + 1>>
  ELSE Between
RxAt == IF rx.expected.len > 0 THEN <<rx.expected, rx.have>> ELSE Between
TxAt == IF Begun THEN <<Buf, Sent>> ELSE Between

Gives(i) == IF i = 0 THEN RxAt ELSE After(uart[i])
Wants(j) == IF j = Len(uart) + 1 THEN TxAt ELSE Into(uart[j])
Relayed(i) == i \in 1 .. Len(uart) => uart[i].kind # "INPUT"
Quiet(i, j) == \A k \in 1 .. Len(uart) : i < k /\ k < j => uart[k].kind = "INPUT"

ChainOK ==
  \A i \in 0 .. Len(uart), j \in 1 .. Len(uart) + 1 :
    i < j /\ Relayed(i) /\ Relayed(j) /\ Quiet(i, j) => Gives(i) = Wants(j)

HeadOK == rx.expected.len > 0 /\ rx.have > 0 => rx.head.at = 0 /\ rx.head.frame = rx.expected

\* Where a frame is that was offered.
Queued(n) ==
  \/ Buf.len > 0 /\ n = Buf.id
  \/ \E i \in 1 .. Len(Staged) : n = Staged[i].id
OnWire(n) == \E i \in 1 .. Len(uart) : uart[i].kind # "INPUT" /\ n = uart[i].frame.id
Awaited(n) == rx.expected.len > 0 /\ n = rx.expected.id
Arrived(n) == \E t \in 1 .. Len(taken) : n = taken[t]
Found(n) == Queued(n) \/ OnWire(n) \/ Awaited(n) \/ n \in refused \/ Arrived(n)

Unbroken ==
  /\ ~ resetting /\ rx.orphans = 0 /\ rx.truncated = 0 /\ ChainOK /\ HeadOK
  /\ \A n \in 1 .. (next - 1) : Found(n)

LossInv == lost = 0 /\ resets = 0 => Unbroken

(* An input report joins: the chain passes it by. *)
LEMMA ChainInput ==
  ASSUME Len(uart) \in Nat, ChainOK, NEW p, Joins(p), p.kind = "INPUT", UNCHANGED <<tx, rx>>
  PROVE  ChainOK'
  <1>1. ASSUME NEW i \in 0 .. Len(uart'), NEW j \in 1 .. Len(uart') + 1,
               i < j, Relayed(i)', Relayed(j)', Quiet(i, j)'
        PROVE  Gives(i)' = Wants(j)'
    <2>0. Len(uart') = Len(uart) + 1
      BY DEF Joins
    <2>1. i \in 0 .. Len(uart) /\ j # Len(uart) + 1
      BY <1>1, <2>0 DEF Relayed, Joins
    <2>2. Relayed(i) /\ Gives(i)' = Gives(i)
      <3>1. Relayed(i)
        BY <1>1, <2>0, <2>1 DEF Relayed, Joins
      <3>2. Gives(i)' = Gives(i)
        <4>1. CASE i = 0
          BY <4>1 DEF Gives, RxAt
        <4>2. CASE i # 0
          <5>1. uart'[i] = uart[i]
            BY <2>1, <4>2 DEF Joins
          <5>2. QED
            BY <4>2, <5>1 DEF Gives, After
        <4>3. QED
          BY <4>1, <4>2
      <3>3. QED
        BY <3>1, <3>2
    <2>3. CASE j \in 1 .. Len(uart)
      <3>1. Relayed(j) /\ Wants(j)' = Wants(j)
        BY <1>1, <2>0, <2>3 DEF Relayed, Wants, Into, Joins
      <3>2. Quiet(i, j)
        BY <1>1, <2>0 DEF Quiet, Joins
      <3>3. QED
        BY <1>1, <2>1, <2>2, <2>3, <3>1, <3>2 DEF ChainOK
    <2>4. CASE j = Len(uart) + 2
      <3>1. Wants(j)' = TxAt /\ Wants(Len(uart) + 1) = TxAt
        BY <2>0, <2>4 DEF Wants, TxAt, Begun, Buf, Sent
      <3>2. Quiet(i, Len(uart) + 1) /\ Relayed(Len(uart) + 1)
        BY <1>1, <2>0, <2>4 DEF Quiet, Joins, Relayed
      <3>3. QED
        BY <1>1, <2>1, <2>2, <3>1, <3>2 DEF ChainOK
    <2>5. QED
      BY <2>0, <2>1, <2>3, <2>4
  <1>2. QED
    BY <1>1 DEF ChainOK

(* The packet due joins, and the sender moves to the place behind it. *)
LEMMA ChainJoins ==
  ASSUME Len(uart) \in Nat, ChainOK, NEW p, Joins(p), p.kind # "INPUT", UNCHANGED rx,
         Into(p) = TxAt, After(p) = TxAt'
  PROVE  ChainOK'
  <1>1. ASSUME NEW i \in 0 .. Len(uart'), NEW j \in 1 .. Len(uart') + 1,
               i < j, Relayed(i)', Relayed(j)', Quiet(i, j)'
        PROVE  Gives(i)' = Wants(j)'
    <2>0. Len(uart') = Len(uart) + 1
      BY DEF Joins
    <2>1. CASE i \in 0 .. Len(uart)
      <3>1. Relayed(i)
        BY <1>1, <2>0, <2>1 DEF Relayed, Joins
      <3>2. Gives(i)' = Gives(i)
        <4>1. CASE i = 0
          BY <4>1 DEF Gives, RxAt
        <4>2. CASE i # 0
          <5>1. uart'[i] = uart[i]
            BY <2>1, <4>2 DEF Joins
          <5>2. QED
            BY <4>2, <5>1 DEF Gives, After
        <4>3. QED
          BY <4>1, <4>2
      <3>3. Quiet(i, j)
        BY <1>1, <2>0 DEF Quiet, Joins
      <3>4. j # Len(uart) + 2
        <4>1. j = Len(uart) + 2 => uart'[Len(uart) + 1].kind = "INPUT"
          BY <1>1, <2>0, <2>1 DEF Quiet
        <4>2. QED
          BY <4>1 DEF Joins
      <3>5. CASE j \in 1 .. Len(uart)
        <4>1. Relayed(j) /\ Wants(j)' = Wants(j)
          BY <1>1, <2>0, <3>5 DEF Relayed, Wants, Into, Joins
        <4>2. QED
          BY <1>1, <2>1, <3>1, <3>2, <3>3, <3>5, <4>1 DEF ChainOK
      <3>6. CASE j = Len(uart) + 1
        <4>1. Wants(j)' = Into(p)
          <5>1. j # Len(uart') + 1 /\ uart'[j] = p
            BY <2>0, <3>6 DEF Joins
          <5>2. QED
            BY <5>1 DEF Wants, Into
        <4>2. Wants(j) = TxAt /\ Relayed(j) /\ j \in 1 .. Len(uart) + 1
          BY <3>6 DEF Wants, Relayed
        <4>3. QED
          BY <1>1, <2>1, <3>1, <3>2, <3>3, <4>1, <4>2 DEF ChainOK
      <3>7. QED
        BY <2>0, <3>4, <3>5, <3>6
    <2>2. CASE i = Len(uart) + 1
      <3>1. j = Len(uart') + 1 /\ uart'[i] = p /\ i # 0
        BY <1>1, <2>0, <2>2 DEF Joins
      <3>2. Gives(i)' = After(p) /\ Wants(j)' = TxAt'
        BY <3>1 DEF Gives, After, Wants
      <3>3. QED
        BY <3>2
    <2>3. QED
      BY <2>0, <2>1, <2>2
  <1>2. QED
    BY <1>1 DEF ChainOK

(* The front packet leaves, and the receiver is at the place behind it; an
   input report moves no one. *)
LEMMA ChainLeaves ==
  ASSUME Len(uart) \in Nat, ChainOK, Leaves, UNCHANGED tx,
         \/ uart[1].kind = "INPUT" /\ RxAt' = RxAt
         \/ uart[1].kind # "INPUT" /\ RxAt' = After(uart[1])
  PROVE  ChainOK'
  <1>1. ASSUME NEW i \in 0 .. Len(uart'), NEW j \in 1 .. Len(uart') + 1,
               i < j, Relayed(i)', Relayed(j)', Quiet(i, j)'
        PROVE  Gives(i)' = Wants(j)'
    <2>0. /\ Len(uart') = Len(uart) - 1 /\ Len(uart) >= 1 /\ i + 1 \in 0 .. Len(uart)
          /\ j + 1 \in 1 .. Len(uart) + 1 /\ i + 1 < j + 1
      BY <1>1 DEF Leaves
    <2>1. Relayed(j + 1) /\ Wants(j)' = Wants(j + 1)
      <3>1. CASE j \in 1 .. Len(uart')
        <4>1. /\ uart'[j] = uart[j + 1] /\ j # Len(uart') + 1 /\ j + 1 # Len(uart) + 1
          BY <2>0, <3>1 DEF Leaves
        <4>2. QED
          BY <1>1, <3>1, <4>1 DEF Relayed, Wants, Into
      <3>2. CASE j = Len(uart') + 1
        <4>1. j + 1 = Len(uart) + 1
          BY <2>0, <3>2
        <4>2. QED
          BY <3>2, <4>1 DEF Relayed, Wants, TxAt, Begun, Buf, Sent
      <3>3. QED
        BY <2>0, <3>1, <3>2
    <2>2. ASSUME NEW k \in 1 .. Len(uart), i + 1 < k, k < j + 1 PROVE uart[k].kind = "INPUT"
      <3>1. k - 1 \in 1 .. Len(uart') /\ i < k - 1 /\ k - 1 < j
        BY <2>0, <2>2
      <3>2. uart'[k - 1] = uart[k]
        BY <3>1 DEF Leaves
      <3>3. QED
        BY <1>1, <3>1, <3>2 DEF Quiet
    <2>3. Quiet(i + 1, j + 1)
      BY <2>2 DEF Quiet
    <2>4. CASE i > 0
      <3>1. uart'[i] = uart[i + 1] /\ i \in 1 .. Len(uart')
        BY <2>0, <2>4 DEF Leaves
      <3>2. Relayed(i + 1) /\ Gives(i)' = Gives(i + 1)
        BY <1>1, <2>0, <2>4, <3>1 DEF Relayed, Gives, After
      <3>3. QED
        BY <2>0, <2>1, <2>3, <3>2 DEF ChainOK
    <2>5. CASE i = 0 /\ uart[1].kind # "INPUT"
      <3>1. Relayed(i + 1) /\ Gives(i + 1) = After(uart[1]) /\ Gives(i)' = RxAt'
        BY <2>5 DEF Relayed, Gives
      <3>2. QED
        BY <2>0, <2>1, <2>3, <2>5, <3>1 DEF ChainOK
    <2>6. CASE i = 0 /\ uart[1].kind = "INPUT"
      <3>1. ASSUME NEW k \in 1 .. Len(uart), k < j + 1 PROVE uart[k].kind = "INPUT"
        <4>1. k = 1 \/ i + 1 < k
          BY <2>6
        <4>2. QED
          BY <2>2, <2>6, <3>1, <4>1
      <3>2. Quiet(0, j + 1) /\ Relayed(0) /\ 0 \in 0 .. Len(uart) /\ 0 < j + 1
        BY <2>0, <3>1 DEF Quiet, Relayed
      <3>3. Gives(0) = RxAt /\ Gives(i)' = RxAt'
        BY <2>6 DEF Gives
      <3>4. QED
        BY <2>0, <2>1, <2>6, <3>2, <3>3 DEF ChainOK
    <2>7. QED
      BY <2>4, <2>5, <2>6
  <1>2. QED
    BY <1>1 DEF ChainOK

(* The receiver is where the front packet wants it. *)
LEMMA FrontIs ==
  ASSUME TypeInv, ChainOK, Leaves, uart[1].kind # "INPUT"
  PROVE  /\ uart[1].kind = "START" => rx.expected.len = 0
         /\ uart[1].kind = "DATA" =>
              /\ rx.expected.len > 0 /\ rx.expected = uart[1].frame /\ rx.have = uart[1].at
  <1>0. /\ Len(uart) \in Nat /\ 1 \in 1 .. Len(uart) /\ rx.expected \in Frames \cup {NoFrame}
        /\ rx.expected.len \in Nat
    BY Types, FrameIs DEF TypeInv, Leaves, RxStates
  <1>1. Gives(0) = Wants(1)
    <2>1. 0 \in 0 .. Len(uart) /\ 1 \in 1 .. Len(uart) + 1 /\ 0 < 1
      BY <1>0
    <2>2. Relayed(0) /\ Relayed(1) /\ Quiet(0, 1)
      BY DEF Relayed, Quiet
    <2>3. QED
      BY <2>1, <2>2 DEF ChainOK
  <1>2. RxAt = Into(uart[1])
    BY <1>0, <1>1 DEF Gives, Wants
  <1>3. uart[1].frame \in Frames
    BY <1>0 DEF TypeInv, PacketsOK
  <1>4. uart[1].kind = "START" => rx.expected.len = 0
    BY <1>0, <1>2, FrameIs DEF RxAt, Into, Between
  <1>5. ASSUME uart[1].kind = "DATA"
        PROVE  rx.expected.len > 0 /\ rx.expected = uart[1].frame /\ rx.have = uart[1].at
    <2>1. RxAt = <<uart[1].frame, uart[1].at>>
      BY <1>2, <1>5 DEF Into
    <2>2. rx.expected.len > 0
      BY <1>0, <1>3, <2>1, FrameIs DEF RxAt, Between
    <2>3. QED
      BY <2>1, <2>2 DEF RxAt
  <1>6. QED
    BY <1>4, <1>5

LEMMA WireLeft ==
  ASSUME Len(uart) \in Nat, Leaves, NEW n, OnWire(n)
  PROVE  OnWire(n)' \/ (uart[1].kind # "INPUT" /\ n = uart[1].frame.id)
  <1>1. PICK i \in 1 .. Len(uart) : uart[i].kind # "INPUT" /\ n = uart[i].frame.id
    BY DEF OnWire
  <1>2. CASE i = 1
    BY <1>1, <1>2
  <1>3. CASE i # 1
    <2>1. i - 1 \in 1 .. Len(uart')
      BY <1>3 DEF Leaves
    <2>2. uart'[i - 1] = uart[i]
      BY <2>1 DEF Leaves
    <2>3. QED
      BY <1>1, <2>1, <2>2 DEF OnWire
  <1>4. QED
    BY <1>2, <1>3

LEMMA WireJoined ==
  ASSUME Len(uart) \in Nat, NEW p, Joins(p), NEW n, OnWire(n) \/ (p.kind # "INPUT" /\ n = p.frame.id)
  PROVE  OnWire(n)'
  <1>1. CASE OnWire(n)
    <2>1. PICK i \in 1 .. Len(uart) : uart[i].kind # "INPUT" /\ n = uart[i].frame.id
      BY <1>1 DEF OnWire
    <2>2. i \in 1 .. Len(uart') /\ uart'[i] = uart[i]
      BY DEF Joins
    <2>3. QED
      BY <2>1, <2>2 DEF OnWire
  <1>2. CASE p.kind # "INPUT" /\ n = p.frame.id
    <2>1. Len(uart) + 1 \in 1 .. Len(uart') /\ uart'[Len(uart) + 1] = p
      BY DEF Joins
    <2>2. QED
      BY <1>2, <2>1 DEF OnWire
  <1>3. QED
    BY <1>1, <1>2

(* The front packet reaches the receiver and the chain holds: nothing is an
   orphan or cut short, and the last packet of a frame hands it on. *)
LEMMA LossTransmit ==
  ASSUME TypeInv, TakenOrder, Unbroken, Transmit
  PROVE  Unbroken'
  <1> DEFINE p == uart[1]
  <1>0. /\ Len(uart) \in Nat /\ rx \in RxStates /\ rx.have \in Nat /\ rx.expected.len \in Nat
        /\ taken \in Seq(Nat) /\ rx.expected.id \in Nat
    BY Types, FrameIs DEF TypeInv, RxStates, TakenOrder
  <1>1. /\ Leaves /\ UNCHANGED <<tx, resetting, next, refused>> /\ 1 \in 1 .. Len(uart)
        /\ p.kind # "INPUT" => p.frame \in Frames /\ (p.kind = "DATA" => p.at < p.frame.len)
        /\ TakesInput(p) \/ TakesStart(p) \/ TakesOrphan(p) \/ TakesData(p) \/ TakesLast(p)
    BY TransmitIs
  <1>2. /\ p.kind = "START" => rx.expected.len = 0
        /\ p.kind = "DATA" => rx.expected.len > 0 /\ rx.expected = p.frame /\ rx.have = p.at
    BY <1>1, FrontIs DEF Unbroken
  <1>3. \A n : Queued(n)' <=> Queued(n)
    BY <1>1 DEF Queued, Buf, Staged
  <1>4. \A n : OnWire(n) => OnWire(n)' \/ (p.kind # "INPUT" /\ n = p.frame.id)
    BY <1>0, <1>1, WireLeft
  <1>5. p.kind # "INPUT" => p.frame.len \in Nat /\ p.frame.len > 0
    BY <1>1, FrameIs
  <1>6. ~ resetting /\ rx.orphans = 0 /\ rx.truncated = 0 /\ ChainOK /\ HeadOK
        /\ \A n \in 1 .. (next - 1) : Found(n)
    BY DEF Unbroken
  \* A frame that is on its way stays so, or is awaited, or has arrived.
  <1>a. ASSUME \A n \in Nat : Awaited(n) \/ Arrived(n) \/ (p.kind # "INPUT" /\ n = p.frame.id) =>
                                Awaited(n)' \/ Arrived(n)'
        PROVE  \A n \in 1 .. (next' - 1) : Found(n)'
    <2>1. ASSUME NEW n \in 1 .. (next - 1) PROVE Found(n)'
      <3>1. Queued(n) \/ OnWire(n) \/ Awaited(n) \/ n \in refused \/ Arrived(n)
        BY <1>6 DEF Found
      <3>2. n \in Nat
        OBVIOUS
      <3>3. Queued(n)' \/ OnWire(n)' \/ Awaited(n)' \/ n \in refused' \/ Arrived(n)'
        BY <1>1, <1>3, <1>4, <1>a, <3>1, <3>2
      <3>4. QED
        BY <3>3 DEF Found
    <2>2. QED
      BY <1>1, <2>1
  <1> HIDE DEF p
  <1>7. CASE TakesInput(p)
    <2>1. p.kind = "INPUT" /\ UNCHANGED <<rx, taken>>
      BY <1>7 DEF TakesInput
    <2>2. ChainOK'
      <3>1. RxAt' = RxAt
        BY <2>1 DEF RxAt
      <3>2. QED
        BY <1>0, <1>1, <1>6, <2>1, <3>1, ChainLeaves DEF p
    <2>3. \A n \in 1 .. (next' - 1) : Found(n)'
      <3>1. \A n \in Nat : Awaited(n) \/ Arrived(n) => Awaited(n)' \/ Arrived(n)'
        BY <2>1 DEF Awaited, Arrived
      <3>2. QED
        BY <1>a, <2>1, <3>1
    <2>4. QED
      BY <1>1, <1>6, <2>1, <2>2, <2>3 DEF Unbroken, HeadOK
  <1>8. CASE TakesStart(p)
    <2>1. /\ p.kind = "START" /\ UNCHANGED taken /\ rx'.expected = p.frame /\ rx'.have = 0
          /\ rx'.orphans = rx.orphans /\ (rx.expected.len = 0 => rx'.truncated = rx.truncated)
      BY <1>8 DEF TakesStart
    <2>2. ChainOK'
      <3>1. RxAt' = After(p)
        BY <1>5, <2>1 DEF RxAt, After
      <3>2. QED
        BY <1>0, <1>1, <1>6, <2>1, <3>1, ChainLeaves DEF p
    <2>3. \A n \in 1 .. (next' - 1) : Found(n)'
      <3>1. \A n \in Nat : Awaited(n) \/ Arrived(n) \/ n = p.frame.id => Awaited(n)' \/ Arrived(n)'
        BY <1>2, <1>5, <2>1 DEF Awaited, Arrived
      <3>2. QED
        BY <1>a, <3>1
    <2>4. QED
      BY <1>1, <1>2, <1>6, <2>1, <2>2, <2>3 DEF Unbroken, HeadOK
  <1>9. ~ TakesOrphan(p)
    BY <1>0, <1>2 DEF TakesOrphan
  <1>10. CASE TakesData(p)
    <2>1. /\ p.kind = "DATA" /\ UNCHANGED taken /\ rx'.expected = rx.expected
          /\ rx'.have = rx.have + 1 /\ rx.have + 1 < rx.expected.len
          /\ rx'.head = (IF rx.have = 0 THEN p ELSE rx.head)
          /\ rx'.orphans = rx.orphans /\ rx'.truncated = rx.truncated
      BY <1>10 DEF TakesData
    <2>2. rx.expected.len > 0 /\ rx.expected = p.frame /\ rx.have = p.at
      BY <1>2, <2>1
    <2>3. ChainOK'
      <3>1. RxAt' = After(p)
        BY <1>0, <2>1, <2>2 DEF RxAt, After
      <3>2. QED
        BY <1>0, <1>1, <1>6, <2>1, <3>1, ChainLeaves DEF p
    <2>4. HeadOK'
      BY <1>0, <1>6, <2>1, <2>2 DEF HeadOK
    <2>5. \A n \in 1 .. (next' - 1) : Found(n)'
      <3>1. \A n \in Nat : Awaited(n) \/ Arrived(n) \/ n = p.frame.id => Awaited(n)' \/ Arrived(n)'
        BY <2>1, <2>2 DEF Awaited, Arrived
      <3>2. QED
        BY <1>a, <3>1
    <2>6. QED
      BY <1>1, <1>6, <2>1, <2>3, <2>4, <2>5 DEF Unbroken
  <1>11. CASE TakesLast(p)
    <2> DEFINE head == IF rx.have = 0 THEN p ELSE rx.head
    <2>1. /\ p.kind = "DATA" /\ rx.have + 1 >= rx.expected.len /\ rx'.expected = NoFrame
          /\ rx'.orphans = rx.orphans /\ rx'.truncated = rx.truncated
          /\ \/ taken' = Append(taken, rx.expected.id)
             \/ head.at = 0 => ~ (head.frame.len = rx.expected.len
                                  /\ head.frame.tail = rx.expected.tail)
      BY <1>11 DEF TakesLast
    <2>2. rx.expected.len > 0 /\ rx.expected = p.frame /\ rx.have = p.at
      BY <1>2, <2>1
    <2>3. head.at = 0 /\ head.frame = rx.expected
      BY <1>0, <1>6, <2>2 DEF HeadOK
    <2>4. taken' = Append(taken, rx.expected.id)
      BY <2>1, <2>3
    <2>5. rx'.expected.len = 0
      BY <2>1, FrameIs
    <2>6. ChainOK'
      <3>1. RxAt' = After(p)
        BY <1>0, <2>1, <2>2, <2>5 DEF RxAt, After
      <3>2. QED
        BY <1>0, <1>1, <1>6, <2>1, <3>1, ChainLeaves DEF p
    <2>7. \A n \in 1 .. (next' - 1) : Found(n)'
      <3>1. /\ Len(taken') = Len(taken) + 1 /\ Len(taken) \in Nat
            /\ taken'[Len(taken) + 1] = rx.expected.id
            /\ \A t \in 1 .. Len(taken) : taken'[t] = taken[t]
        BY <1>0, <2>4, AppendIs
      <3>2. \A n : Arrived(n) => Arrived(n)'
        BY <3>1 DEF Arrived
      <3>3. \A n : n = rx.expected.id => Arrived(n)'
        <4>1. Len(taken) + 1 \in 1 .. Len(taken')
          BY <3>1
        <4>2. QED
          BY <3>1, <4>1 DEF Arrived
      <3>4. \A n \in Nat : Awaited(n) \/ Arrived(n) \/ n = p.frame.id => Awaited(n)' \/ Arrived(n)'
        BY <2>2, <3>2, <3>3 DEF Awaited
      <3>5. QED
        BY <1>a, <3>4
    <2>8. QED
      BY <1>1, <1>6, <2>1, <2>5, <2>6, <2>7 DEF Unbroken, HeadOK
  <1>12. QED
    BY <1>1, <1>7, <1>8, <1>9, <1>10, <1>11

LEMMA LossOffers ==
  ASSUME TypeInv, Unbroken, NEW k \in FrameKinds, relay_to_peer(k)
  PROVE  Unbroken'
  <1>0. /\ next \in Nat /\ Staged \in Seq(Frames) /\ Len(Staged) \in Nat
        /\ (Buf.len = 0 => Staged = <<>> /\ ~ Begun)
    BY Types, SenderIs DEF TypeInv, QueueOK
  <1>1. /\ UNCHANGED <<uart, rx, resetting, taken>> /\ next' = next + 1
        /\ Begun' = Begun /\ Sent' = Sent
        /\ \/ Buf' = Buf /\ Staged' = Staged /\ refused' = refused \cup {next}
           \/ /\ Buf.len > 0 /\ Buf' = Buf /\ refused' = refused
              /\ \E f \in Frames : f.id = next /\ Staged' = Append(Staged, f)
           \/ /\ Buf.len = 0 /\ Buf' \in Frames /\ Buf'.id = next /\ Staged' = Staged
              /\ refused' = refused
    BY OffersIs
  <1>2. TxAt' = TxAt
    <2>1. Begun => Buf' = Buf
      BY <1>0, <1>1
    <2>2. QED
      BY <1>1, <2>1 DEF TxAt
  <1>3. ChainOK'
    BY <1>1, <1>2 DEF Unbroken, ChainOK, Relayed, Quiet, Gives, Wants, RxAt
  <1>4. ASSUME NEW n, Found(n) \/ n = next PROVE Found(n)'
    <2>1. CASE Buf' = Buf /\ Staged' = Staged /\ refused' = refused \cup {next}
      BY <1>1, <1>4, <2>1 DEF Found, Queued, OnWire, Awaited, Arrived
    <2>2. ASSUME Buf.len > 0, Buf' = Buf, refused' = refused,
                 NEW f \in Frames, f.id = next, Staged' = Append(Staged, f)
          PROVE  Found(n)'
      <3>1. /\ Len(Staged') = Len(Staged) + 1 /\ Staged'[Len(Staged) + 1] = f
            /\ \A i \in 1 .. Len(Staged) : Staged'[i] = Staged[i]
        BY <1>0, <2>2, AppendIs
      <3>2. Queued(n) \/ n = next => Queued(n)'
        <4>1. CASE n = next
          <5>1. Len(Staged) + 1 \in 1 .. Len(Staged')
            BY <1>0, <3>1
          <5>2. QED
            BY <2>2, <3>1, <4>1, <5>1 DEF Queued
        <4>2. CASE Queued(n)
          BY <1>0, <2>2, <3>1, <4>2 DEF Queued
        <4>3. QED
          BY <4>1, <4>2
      <3>3. QED
        BY <1>1, <1>4, <2>2, <3>2 DEF Found, OnWire, Awaited, Arrived
    <2>3. CASE Buf.len = 0 /\ Buf' \in Frames /\ Buf'.id = next /\ Staged' = Staged
               /\ refused' = refused
      <3>1. Len(Staged) = 0 /\ Buf'.len > 0
        BY <1>0, <2>3, FrameIs
      <3>2. Queued(n) \/ n = next => Queued(n)'
        BY <2>3, <3>1 DEF Queued
      <3>3. QED
        BY <1>1, <1>4, <2>3, <3>2 DEF Found, OnWire, Awaited, Arrived
    <2>4. QED
      BY <1>1, <2>1, <2>2, <2>3
  <1>5. ASSUME NEW n \in 1 .. (next' - 1) PROVE Found(n)'
    <2>1. n \in 1 .. (next - 1) \/ n = next
      BY <1>0, <1>1
    <2>2. Found(n) \/ n = next
      BY <2>1 DEF Unbroken
    <2>3. QED
      BY <1>4, <2>2
  <1>6. QED
    BY <1>1, <1>3, <1>5 DEF Unbroken, HeadOK

LEMMA LossPumps ==
  ASSUME TypeInv, Unbroken, PumpPacket
  PROVE  Unbroken'
  <1>0. /\ Len(uart) \in Nat /\ Staged \in Seq(Frames) /\ Len(Staged) \in Nat /\ Sent \in Nat
    BY Types, SenderIs DEF TypeInv
  <1>1. /\ UNCHANGED <<rx, resetting, next, taken, refused>>
        /\ \/ UNCHANGED <<uart, tx>>
           \/ \E p \in Packets :
                /\ uart' = Append(uart, p) /\ Len(uart) < UART_QUEUE_LENGTH
                /\ p.frame = Buf /\ p.at = Sent /\ Buf \in Frames /\ Sent < Buf.len
                /\ \/ /\ ~ Begun /\ p.kind = "START" /\ Sent = 0
                      /\ Buf' = Buf /\ Sent' = 0 /\ Begun' /\ Staged' = Staged
                   \/ /\ Begun /\ p.kind = "DATA" /\ Sent + 1 < Buf.len
                      /\ Buf' = Buf /\ Sent' = Sent + 1 /\ Begun' /\ Staged' = Staged
                   \/ /\ Begun /\ p.kind = "DATA" /\ Sent + 1 = Buf.len /\ Staged = <<>>
                      /\ Buf' = NoFrame /\ Sent' = 0 /\ ~ Begun' /\ Staged' = <<>>
                   \/ /\ Begun /\ p.kind = "DATA" /\ Sent + 1 = Buf.len /\ Staged # <<>>
                      /\ Buf' = Head(Staged) /\ Sent' = 0 /\ ~ Begun' /\ Staged' = Tail(Staged)
    BY PumpsIs DEF history
  <1>2. CASE UNCHANGED <<uart, tx>>
    BY <1>1, <1>2 DEF Unbroken, ChainOK, HeadOK, Relayed, Quiet, Gives, Wants, RxAt, TxAt, Found,
                      Queued, OnWire, Awaited, Arrived, Begun, Buf, Sent, Staged
  <1>3. ASSUME NEW p \in Packets,
               uart' = Append(uart, p), Len(uart) < UART_QUEUE_LENGTH,
               p.frame = Buf, p.at = Sent, Buf \in Frames, Sent < Buf.len,
               \/ /\ ~ Begun /\ p.kind = "START" /\ Sent = 0
                  /\ Buf' = Buf /\ Sent' = 0 /\ Begun' /\ Staged' = Staged
               \/ /\ Begun /\ p.kind = "DATA" /\ Sent + 1 < Buf.len
                  /\ Buf' = Buf /\ Sent' = Sent + 1 /\ Begun' /\ Staged' = Staged
               \/ /\ Begun /\ p.kind = "DATA" /\ Sent + 1 = Buf.len /\ Staged = <<>>
                  /\ Buf' = NoFrame /\ Sent' = 0 /\ ~ Begun' /\ Staged' = <<>>
               \/ /\ Begun /\ p.kind = "DATA" /\ Sent + 1 = Buf.len /\ Staged # <<>>
                  /\ Buf' = Head(Staged) /\ Sent' = 0 /\ ~ Begun' /\ Staged' = Tail(Staged)
        PROVE  Unbroken'
    <2>1. Joins(p) /\ p.kind # "INPUT" /\ Buf.len > 0 /\ Buf.len \in Nat
      BY <1>3, JoinsIs, FrameIs
    <2>2. Into(p) = TxAt
      BY <1>3 DEF Into, TxAt
    <2>3. After(p) = TxAt'
      BY <1>0, <1>3, <2>1 DEF After, TxAt
    <2>4. ChainOK'
      BY <1>0, <1>1, <2>1, <2>2, <2>3, ChainJoins DEF Unbroken
    <2>5. \A n : OnWire(n) \/ n = Buf.id => OnWire(n)'
      BY <1>0, <1>3, <2>1, WireJoined
    <2>6. \A n : Queued(n) => Queued(n)' \/ n = Buf.id
      <3>1. CASE Buf' = Buf /\ Staged' = Staged
        BY <3>1 DEF Queued
      <3>2. CASE Staged = <<>>
        <4>1. Len(Staged) = 0
          BY <3>2
        <4>2. QED
          BY <4>1 DEF Queued
      <3>3. CASE Staged # <<>> /\ Buf' = Head(Staged) /\ Staged' = Tail(Staged)
        <4>1. /\ Buf' = Staged[1] /\ Staged[1] \in Frames /\ Len(Staged') = Len(Staged) - 1
              /\ \A i \in 1 .. Len(Staged') : Staged'[i] = Staged[i + 1]
          BY <1>0, <3>3, TailIs
        <4>2. Buf'.len > 0
          BY <4>1, FrameIs
        <4>3. ASSUME NEW n, NEW i \in 1 .. Len(Staged), n = Staged[i].id PROVE Queued(n)'
          <5>1. CASE i = 1
            BY <4>1, <4>2, <4>3, <5>1 DEF Queued
          <5>2. CASE i # 1
            <6>1. i - 1 \in 1 .. Len(Staged')
              BY <1>0, <4>1, <5>2
            <6>2. Staged'[i - 1] = Staged[i]
              BY <4>1, <6>1
            <6>3. QED
              BY <4>3, <6>1, <6>2 DEF Queued
          <5>3. QED
            BY <5>1, <5>2
        <4>4. QED
          BY <4>3 DEF Queued
      <3>4. QED
        BY <1>3, <3>1, <3>2, <3>3
    <2>7. ASSUME NEW n \in 1 .. (next - 1) PROVE Found(n)'
      <3>1. Queued(n) \/ OnWire(n) \/ Awaited(n) \/ n \in refused \/ Arrived(n)
        BY DEF Unbroken, Found
      <3>2. (Awaited(n)' <=> Awaited(n)) /\ (Arrived(n)' <=> Arrived(n))
        BY <1>1 DEF Awaited, Arrived
      <3>3. Queued(n)' \/ OnWire(n)' \/ Awaited(n)' \/ n \in refused' \/ Arrived(n)'
        BY <1>1, <2>5, <2>6, <3>1, <3>2
      <3>4. QED
        BY <3>3 DEF Found
    <2>8. QED
      BY <1>1, <2>4, <2>7 DEF Unbroken, HeadOK
  <1>4. QED
    BY <1>1, <1>2, <1>3

LEMMA LossNext == TypeInv /\ OrderInv /\ LossInv /\ [Next]_vars => LossInv'
  <1> SUFFICES ASSUME TypeInv, OrderInv, LossInv, [Next]_vars, lost' = 0, resets' = 0
               PROVE  Unbroken'
    BY DEF LossInv
  <1>0. TypeOK /\ Len(uart) \in Nat /\ lost \in Nat /\ resets \in Nat /\ TakenOrder
    BY Types DEF TypeInv, OrderInv
  <1>1. ASSUME NEW k \in FrameKinds, relay_to_peer(k) PROVE Unbroken'
    <2>1. lost = 0 /\ resets = 0
      BY <1>1, OffersIs
    <2>2. QED
      BY <1>1, <2>1, LossOffers DEF LossInv
  <1>2. CASE PumpBegin \/ PumpEnd
    <2>1. UNCHANGED <<uart, rx, resetting, next, lost, resets, taken, refused>> /\ tx'.q = tx.q
      <3>1. tx' = [tx EXCEPT !.burst = 0] \/ tx' = tx
        BY <1>2 DEF PumpBegin, PumpEnd, dh_relay_tx_yield
      <3>2. tx'.q = tx.q
        BY <1>0, <3>1, Types
      <3>3. QED
        BY <1>2, <3>2 DEF PumpBegin, PumpEnd, history
    <2>2. Unbroken
      BY <2>1 DEF LossInv
    <2>3. Begun' = Begun /\ Buf' = Buf /\ Sent' = Sent /\ Staged' = Staged
      BY <2>1, SenderStill
    <2>4. QED
      BY <2>1, <2>2, <2>3 DEF Unbroken, ChainOK, HeadOK, Relayed, Quiet, Gives, Wants, RxAt, TxAt,
                              Found, Queued, OnWire, Awaited, Arrived
  <1>3. CASE PumpPacket
    <2>1. lost = 0 /\ resets = 0
      BY <1>3, PumpsIs
    <2>2. QED
      BY <1>3, <2>1, LossPumps DEF LossInv
  <1>4. CASE QueueInput
    <2>1. uart' = Append(uart, Input) /\ Len(uart) < UART_QUEUE_LENGTH
          /\ UNCHANGED <<tx, rx, resetting, next, lost, resets, taken, refused>>
      BY <1>4 DEF QueueInput, history
    <2>2. Joins(Input) /\ Input.kind = "INPUT"
      BY <2>1, InputIs, JoinsIs
    <2>3. Unbroken
      BY <2>1 DEF LossInv
    <2>4. ChainOK'
      BY <1>0, <2>1, <2>2, <2>3, ChainInput DEF Unbroken
    <2>5. \A n : OnWire(n) => OnWire(n)'
      BY <1>0, <2>2, WireJoined
    <2>6. \A n : Found(n) => Found(n)'
      <3>1. ASSUME NEW n
            PROVE  /\ Queued(n)' <=> Queued(n)
                   /\ Awaited(n)' <=> Awaited(n)
                   /\ Arrived(n)' <=> Arrived(n)
        BY <2>1 DEF Queued, Awaited, Arrived, Buf, Staged
      <3>2. QED
        BY <2>1, <2>5, <3>1 DEF Found
    <2>7. QED
      BY <2>1, <2>3, <2>4, <2>6 DEF Unbroken, HeadOK
  <1>5. CASE Transmit
    <2>1. lost = 0 /\ resets = 0
      BY <1>5, TransmitIs
    <2>2. QED
      BY <1>0, <1>5, <2>1, LossTransmit DEF LossInv
  <1>6. CASE TransmitLost
    <2>1. lost' = lost + 1
      BY <1>6, LostIs
    <2>2. QED
      BY <1>0, <2>1
  <1>7. CASE dh_relay_tx_reset \/ dh_relay_rx_reset
    <2>1. resets' = resets + 1
      BY <1>7 DEF dh_relay_tx_reset, dh_relay_rx_reset
    <2>2. QED
      BY <1>0, <2>1
  <1>8. CASE RxResetHave
    <2>1. resetting /\ lost = 0 /\ resets = 0
      BY <1>8 DEF RxResetHave
    <2>2. QED
      BY <2>1 DEF LossInv, Unbroken
  <1>9. CASE UNCHANGED vars
    BY <1>9 DEF vars, LossInv, Unbroken, ChainOK, HeadOK, Relayed, Quiet, Gives, Wants, RxAt, TxAt,
                Found, Queued, OnWire, Awaited, Arrived, Begun, Buf, Sent, Staged
  <1>10. QED
    BY <1>1, <1>2, <1>3, <1>4, <1>5, <1>6, <1>7, <1>8, <1>9 DEF Next

LEMMA LossInit == Init => LossInv
  <1> SUFFICES ASSUME Init PROVE Unbroken
    BY DEF LossInv
  <1>1. dh_outq_init.band["bulk"] = band_clear
    BY DEF dh_outq_init, BandIds
  <1>2. ~ Begun
    BY <1>1, FrameIs DEF Init, dh_relay_tx_init, Begun
  <1>3. /\ Len(uart) = 0 /\ rx.expected.len = 0 /\ rx.orphans = 0 /\ rx.truncated = 0
        /\ ~ resetting /\ next = 1
    BY FrameIs DEF Init, dh_relay_rx_init
  <1>4. ChainOK
    <2>1. ASSUME NEW i \in 0 .. Len(uart), NEW j \in 1 .. Len(uart) + 1
          PROVE  Gives(i) = Wants(j)
      <3>1. i = 0 /\ j = Len(uart) + 1
        BY <1>3
      <3>2. QED
        BY <1>2, <1>3, <3>1 DEF Gives, Wants, RxAt, TxAt
    <2>2. QED
      BY <2>1 DEF ChainOK
  <1>5. QED
    BY <1>3, <1>4 DEF Unbroken, HeadOK

(* Found in the terms of the specification. *)
LEMMA FoundIs ==
  ASSUME TypeInv, NEW n, Found(n)
  PROVE  n \in Owed \cup InTransit \cup refused \cup {taken[i] : i \in 1 .. Len(taken)}
  <1>0. Staged \in Seq(Frames) /\ uart \in Seq(Packets)
    BY Types, SenderIs DEF TypeInv
  <1>1. CASE Queued(n)
    <2>1. n \in InBand(tx.q, "bulk")
      <3>1. CASE Buf.len > 0 /\ n = Buf.id
        BY <3>1 DEF InBand, Holds, Buf
      <3>2. ASSUME NEW i \in 1 .. Len(Staged), n = Staged[i].id PROVE n \in InBand(tx.q, "bulk")
        <4>1. i \in DOMAIN Staged
          BY <1>0, <3>2
        <4>2. QED
          BY <3>2, <4>1 DEF InBand, Staged
      <3>3. QED
        BY <1>1, <3>1, <3>2 DEF Queued
    <2>2. QED
      BY <2>1 DEF Owed, BandIds
  <1>2. CASE OnWire(n)
    <2>1. PICK i \in 1 .. Len(uart) : n = uart[i].frame.id
      BY <1>2 DEF OnWire
    <2>2. i \in DOMAIN uart
      BY <1>0, <2>1
    <2>3. QED
      BY <2>1, <2>2 DEF InTransit
  <1>3. CASE Awaited(n)
    BY <1>3 DEF Awaited, InTransit
  <1>4. CASE n \in refused
    BY <1>4
  <1>5. CASE Arrived(n)
    BY <1>5 DEF Arrived
  <1>6. QED
    BY <1>1, <1>2, <1>3, <1>4, <1>5 DEF Found

(* Frames arrive in the order they were offered, each at most once; and while   *)
(* the link loses nothing and neither board resets, no packet is an orphan, no  *)
(* frame is cut short, and every frame offered was refused and counted, is      *)
(* still on its way or has arrived, whatever the lengths, the size of the       *)
(* queues and the input that shares the UART (pump_relay, dh_relay_rx_push).    *)
THEOREM RelayNoHoles == Spec => []NoHoles
  <1>1. TypeInv /\ OrderInv /\ LossInv => NoHoles
    <2> SUFFICES ASSUME TypeInv, OrderInv, LossInv PROVE NoHoles
      OBVIOUS
    <2>1. DOMAIN taken = 1 .. Len(taken)
      BY DEF OrderInv, TakenOrder
    <2>2. \A i, j \in DOMAIN taken : i < j => taken[i] < taken[j]
      BY <2>1 DEF OrderInv, TakenOrder
    <2>3. ASSUME lost = 0, resets = 0
          PROVE  /\ rx.orphans = 0 /\ rx.truncated = 0
                 /\ 1 .. (next - 1) \subseteq Owed \cup InTransit \cup refused
                                                \cup {taken[i] : i \in DOMAIN taken}
      <3>1. Unbroken
        BY <2>3 DEF LossInv
      <3>2. ASSUME NEW n \in 1 .. (next - 1)
            PROVE  n \in Owed \cup InTransit \cup refused \cup {taken[i] : i \in DOMAIN taken}
        <4>1. Found(n)
          BY <3>1 DEF Unbroken
        <4>2. QED
          BY <2>1, <4>1, FoundIs
      <3>3. QED
        BY <3>1, <3>2 DEF Unbroken
    <2>4. QED
      BY <2>2, <2>3 DEF NoHoles
  <1>2. QED
    BY <1>1, TypeInit, TypeNext, OrderInit, OrderNext, LossInit, LossNext, PTL DEF Spec
=============================================================================
