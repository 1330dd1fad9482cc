------------------------------- MODULE Relay -------------------------------
(***************************************************************************)
(* The inter-board relay, one direction: the sending board's dh_relay_tx   *)
(* over its outbound queue (core/dh_relay.c, module DhOutq), the UART      *)
(* transmit queue it shares with keyboard and mouse reports (uart.c), the  *)
(* serial link, which loses the packets whose checksum fails, and the      *)
(* receiving board's reassembler dh_relay_rx.                              *)
(*                                                                         *)
(* channel_task (relay_to_peer, pump_relay) and process_uart_tx_task run   *)
(* one after the other on core 0; input reports join the queue from core   *)
(* 1 at any time.  The receiver pushes packets on core 1 while its core 0  *)
(* may be resetting the reassembler field by field.                        *)
(***************************************************************************)
EXTENDS DhOutq

CONSTANTS
    FrameKinds,         \* relayed frames: [len, tail] in 8-byte packets and bytes
    BURST_MAX,          \* DH_RELAY_BURST_MAX: bulk packets per pump
    UART_QUEUE_LENGTH,  \* packets the UART transmit queue holds
    MaxFrames,          \* bound: frames ever offered
    MaxLost,            \* bound: packets lost on the link
    MaxResets,          \* bound: times either board loses its helper
    MaxInput            \* bound: input packets in the queue at once

ASSUME RelayAssumption ==
    /\ FrameKinds \subseteq [len : Nat \ {0}, tail : Nat \ {0}]
    /\ BURST_MAX \in Nat \ {0} /\ UART_QUEUE_LENGTH \in Nat \ {0}
    /\ MaxFrames \in Nat /\ MaxLost \in Nat /\ MaxResets \in Nat /\ MaxInput \in Nat

VARIABLES
    tx,         \* the sender's dh_relay_tx: queue and burst count
    pumping,    \* core 0 is inside pump_relay's loop
    uart,       \* the sender's uart_tx_queue
    rx,         \* the receiver's dh_relay_rx
    resetting,  \* the receiver's core 0 is between dh_relay_rx_reset's stores
    next, lost, resets,
    (* History, read by no action: *)
    arrived,    \* the last frame handed to the inbound ring, and how
    startLost,  \* a START was lost since the last one received
    taken,      \* the frames handed on, in order
    refused,    \* ids refused at the offer
    discarded   \* ids a reset dropped

vars == <<tx, pumping, uart, rx, resetting, next, lost, resets, arrived, startLost,
          taken, refused, discarded>>

history == <<arrived, startLost, taken, refused, discarded>>
-----------------------------------------------------------------------------
Input == [kind |-> "INPUT", frame |-> NoFrame, at |-> 0]

\* Everything that can be in the UART queue.
Packets == [kind : {"START", "DATA", "INPUT"}, frame : Frames \cup {NoFrame}, at : Nat]

(***************************************************************************)
(* expected is the frame whose START set the length awaited, NoFrame for   *)
(* 0; head is the packet at the front of the buffer, where the header is   *)
(* read; broken records whether the buffer still matches expected.         *)
(***************************************************************************)
dh_relay_rx_init == [expected |-> NoFrame, have |-> 0, head |-> Input, broken |-> FALSE,
                     orphans |-> 0, truncated |-> 0]

dh_relay_tx_init == [q |-> dh_outq_init, burst |-> 0]

Init ==
    /\ tx = dh_relay_tx_init /\ pumping = FALSE /\ uart = <<>>
    /\ rx = dh_relay_rx_init /\ resetting = FALSE
    /\ next = 1 /\ lost = 0 /\ resets = 0
    /\ arrived = [id |-> 0, intact |-> TRUE, startLost |-> FALSE]
    /\ startLost = FALSE /\ taken = <<>> /\ refused = {} /\ discarded = {}

InBand(q, b) == (IF Holds(q, b) THEN {q.band[b].buf.id} ELSE {})
                  \cup {q.stage[b][i].id : i \in DOMAIN q.stage[b]}

Owed == UNION {InBand(tx.q, b) : b \in BandIds}

InTransit == {uart[i].frame.id : i \in DOMAIN uart}
               \cup (IF rx.expected.len > 0 THEN {rx.expected.id} ELSE {})
-----------------------------------------------------------------------------
(***************************************************************************)
(* relay_to_peer, for a bulk frame the helper authenticated: dh_relay_tx_  *)
(* offer either takes it or refuses it and counts it.                      *)
(***************************************************************************)
relay_to_peer(k) ==
    LET f == [id |-> next, band |-> "bulk", len |-> k.len, tail |-> k.tail, parses |-> TRUE]
    IN
    /\ ~ pumping
    /\ next <= MaxFrames
    /\ tx' = [tx EXCEPT !.q = dh_outq_offer(@, f)]
    /\ next' = next + 1
    /\ refused' = IF Admits(tx.q, f) THEN refused ELSE refused \cup {f.id}
    /\ UNCHANGED <<pumping, uart, rx, resetting, lost, resets, arrived, startLost, taken,
                   discarded>>

\* What the wire owes next, once the burst cap has had its say.
relay_owed(t) ==
    /\ owed_band(t.q) # "none"
    /\ owed_band(t.q) = "bulk" => t.burst < BURST_MAX

dh_relay_tx_peek(t) ==
    LET view == dh_outq_peek(t.q)
    IN [kind |-> IF view.preamble_owed THEN "START" ELSE "DATA",
        frame |-> view.frame, at |-> view.at]

dh_relay_tx_commit(t) ==
    LET view == dh_outq_peek(t.q)
    IN [q |-> IF view.preamble_owed THEN dh_outq_note_preamble(t.q, view)
              ELSE dh_outq_advance(t.q, view),
        burst |-> IF view.band = "bulk" THEN t.burst + 1 ELSE t.burst]

\* Mutant: a pass starts with the burst the last one ended with.
dh_relay_tx_yield_forgets(t) == t

dh_relay_tx_yield(t) == [t EXCEPT !.burst = 0]

RelayBusy == dh_outq_busy(tx.q)

\* pump_relay begins.
PumpBegin ==
    /\ ~ pumping
    /\ RelayBusy
    /\ pumping' = TRUE
    /\ tx' = dh_relay_tx_yield(tx)
    /\ UNCHANGED <<uart, rx, resetting, next, lost, resets, history>>

\* Mutant: the packet is committed although the queue refused it.
queue_uart_packet_drops(queue, packet) ==
    IF Len(queue) < UART_QUEUE_LENGTH THEN <<Append(queue, packet), TRUE>>
    ELSE <<queue, TRUE>>

\* queue_uart_packet: the queue it leaves, and whether the packet was taken.
queue_uart_packet(queue, packet) ==
    IF Len(queue) < UART_QUEUE_LENGTH THEN <<Append(queue, packet), TRUE>>
    ELSE <<queue, FALSE>>

\* One turn of its loop: enqueue and commit, or leave the packet owed.
PumpPacket ==
    LET r == queue_uart_packet(uart, dh_relay_tx_peek(tx)) IN
    /\ pumping
    /\ relay_owed(tx)
    /\ uart' = r[1]
    /\ tx' = IF r[2] THEN dh_relay_tx_commit(tx) ELSE tx
    /\ pumping' = r[2]
    /\ UNCHANGED <<rx, resetting, next, lost, resets, history>>

PumpEnd ==
    /\ pumping
    /\ ~ relay_owed(tx)
    /\ pumping' = FALSE
    /\ UNCHANGED <<tx, uart, rx, resetting, next, lost, resets, history>>

\* A keyboard or mouse report for the other board, from core 1.
QueueInput ==
    /\ Len(SelectSeq(uart, LAMBDA p : p.kind = "INPUT")) < MaxInput
    /\ Len(uart) < UART_QUEUE_LENGTH
    /\ uart' = Append(uart, Input)
    /\ UNCHANGED <<tx, pumping, rx, resetting, next, lost, resets, history>>
-----------------------------------------------------------------------------
(* dh_relay_rx_push, by packet kind. *)

\* Mutant: a START in mid-frame leaves what was already collected.
PushStart_keeps(r, p) ==
    [r EXCEPT !.expected = p.frame,
              !.truncated = IF r.expected.len > 0 THEN @ + 1 ELSE @]

\* A START abandons whatever was in progress and sets the length awaited.
PushStart(r, p) ==
    [r EXCEPT !.expected = p.frame, !.have = 0, !.broken = FALSE,
              !.truncated = IF r.expected.len > 0 THEN @ + 1 ELSE @]

PushOrphan(r) == [r EXCEPT !.orphans = @ + 1]

\* DATA lands behind what is already there.
PushData(r, p) ==
    LET fits == p.frame = r.expected /\ p.at = r.have
    IN [r EXCEPT !.have = @ + 1,
                 !.head = IF r.have = 0 THEN p ELSE @,
                 !.broken = ~ fits \/ (r.have > 0 /\ @)]

\* Mutant: the buffer is taken one packet late.
Fills_late(r, p) == r.expected.len > 0 /\ PushData(r, p).have > r.expected.len

Fills(r, p) == r.expected.len > 0 /\ PushData(r, p).have >= r.expected.len

(***************************************************************************)
(* The complete buffer decodes when its header announces the length the    *)
(* START gave.  Bytes from the middle of a frame, read as a header, may    *)
(* announce anything.                                                      *)
(***************************************************************************)
MayDecode(r) ==
    IF r.head.at = 0
      THEN {r.head.frame.len = r.expected.len /\ r.head.frame.tail = r.expected.tail}
      ELSE BOOLEAN

Retired(r) == [r EXCEPT !.expected = NoFrame, !.have = 0, !.broken = FALSE]

\* handle_channel_relay_msg: what core 1 does with a packet that arrived.
Receive(p) ==
    \/ /\ p.kind = "INPUT"
       /\ UNCHANGED <<rx, arrived, taken, startLost>>
    \/ /\ p.kind = "START"
       /\ rx' = PushStart(rx, p) /\ startLost' = FALSE
       /\ UNCHANGED <<arrived, taken>>
    \/ /\ p.kind = "DATA" /\ rx.expected.len = 0
       /\ rx' = PushOrphan(rx)
       /\ UNCHANGED <<arrived, taken, startLost>>
    \/ /\ p.kind = "DATA" /\ rx.expected.len > 0 /\ ~ Fills(rx, p)
       /\ rx' = PushData(rx, p)
       /\ UNCHANGED <<arrived, taken, startLost>>
    \/ /\ p.kind = "DATA" /\ Fills(rx, p)
       /\ \E decodes \in MayDecode(PushData(rx, p)) :
            IF decodes
              THEN /\ arrived' = [id |-> rx.expected.id, startLost |-> startLost,
                                  intact |-> ~ PushData(rx, p).broken]
                   /\ taken' = Append(taken, rx.expected.id)
              ELSE UNCHANGED <<arrived, taken>>
       /\ rx' = Retired(PushData(rx, p))
       /\ UNCHANGED startLost

\* process_uart_tx_task: one packet leaves and arrives,
Transmit ==
    /\ ~ pumping
    /\ uart # <<>>
    /\ uart' = Tail(uart)
    /\ Receive(Head(uart))
    /\ UNCHANGED <<tx, pumping, resetting, next, lost, resets, refused, discarded>>

\* or leaves and fails its checksum in process_packet.
TransmitLost ==
    /\ ~ pumping
    /\ uart # <<>>
    /\ Head(uart).kind # "INPUT"
    /\ lost < MaxLost
    /\ uart' = Tail(uart)
    /\ lost' = lost + 1
    /\ startLost' = (startLost \/ Head(uart).kind = "START")
    /\ UNCHANGED <<tx, pumping, rx, resetting, next, resets, arrived, taken, refused, discarded>>
-----------------------------------------------------------------------------
(* channel_lifecycle_link_lost, on either board. *)

\* The sender drops what it owes; what is in the UART queue still goes out.
dh_relay_tx_reset ==
    /\ ~ pumping
    /\ resets < MaxResets
    /\ RelayBusy
    /\ tx' = [q |-> dh_outq_reset(tx.q), burst |-> 0]
    /\ discarded' = discarded \cup Owed
    /\ resets' = resets + 1
    /\ UNCHANGED <<pumping, uart, rx, resetting, next, lost, arrived, startLost, taken, refused>>

\* The receiver stores expected and then have, while core 1 may be pushing.  A
\* store that lands inside a push ends as one before or after it does: with no
\* frame expected, whatever have is left at, since only a START makes it count.
dh_relay_rx_reset ==
    /\ ~ resetting
    /\ resets < MaxResets
    /\ resetting' = TRUE
    /\ rx' = [rx EXCEPT !.expected = NoFrame]
    /\ discarded' = IF rx.expected.len > 0 THEN discarded \cup {rx.expected.id} ELSE discarded
    /\ resets' = resets + 1
    /\ UNCHANGED <<tx, pumping, uart, next, lost, arrived, startLost, taken, refused>>

RxResetHave ==
    /\ resetting
    /\ resetting' = FALSE
    /\ rx' = [rx EXCEPT !.have = 0]
    /\ UNCHANGED <<tx, pumping, uart, next, lost, resets, history>>

Next ==
    \/ \E k \in FrameKinds : relay_to_peer(k)
    \/ PumpBegin \/ PumpPacket \/ PumpEnd \/ QueueInput
    \/ Transmit \/ TransmitLost
    \/ dh_relay_tx_reset \/ dh_relay_rx_reset \/ RxResetHave

Spec == Init /\ [][Next]_vars

(***************************************************************************)
(* Both tasks run on every pass of core 0's loop.  Input from core 1 may   *)
(* fill the queue again and again, but not for ever just before the pump.  *)
(***************************************************************************)
Fairness ==
    /\ WF_vars(PumpBegin) /\ WF_vars(PumpPacket) /\ WF_vars(PumpEnd)
    /\ SF_vars(Transmit) /\ SF_vars(PumpPacket /\ tx' # tx)
    /\ WF_vars(RxResetHave)

FairSpec == Spec /\ Fairness
-----------------------------------------------------------------------------
\* The types of the relay's state, the UART queue within its length.
TypeOK ==
    /\ tx \in [q : Queues, burst : Nat] /\ pumping \in BOOLEAN /\ resetting \in BOOLEAN
    /\ uart \in Seq(Packets) /\ Len(uart) <= UART_QUEUE_LENGTH
    /\ rx \in [expected : Frames \cup {NoFrame}, have : Nat, head : Packets,
               broken : BOOLEAN, orphans : Nat, truncated : Nat]
    /\ rx.expected.len > 0 => rx.have < rx.expected.len
    /\ next \in Nat /\ lost \in Nat /\ resets \in Nat /\ startLost \in BOOLEAN
    /\ arrived \in [id : Nat, intact : BOOLEAN, startLost : BOOLEAN]

(***************************************************************************)
(* A frame handed to the inbound ring is byte for byte the frame that was  *)
(* offered, unless a START packet was lost: the kinds of the packets make  *)
(* up for sequence numbers (dh_relay_rx_push), even when either board      *)
(* resets in mid-frame and the receiver's reset races its reassembler.     *)
(***************************************************************************)
ArrivesIntact == arrived.intact \/ arrived.startLost

(***************************************************************************)
(* Frames arrive in the order they were offered, each at most once; and    *)
(* while the link loses nothing and neither board resets, every frame      *)
(* offered was refused and counted, is still owed or in transit, or has    *)
(* arrived: a full UART queue costs a retry and never a hole in a frame    *)
(* (pump_relay, dh_relay_tx_commit).                                       *)
(***************************************************************************)
NoHoles ==
    /\ \A i, j \in DOMAIN taken : i < j => taken[i] < taken[j]
    /\ lost = 0 /\ resets = 0 =>
          /\ rx.orphans = 0 /\ rx.truncated = 0
          /\ 1 .. (next - 1) \subseteq Owed \cup InTransit \cup refused
                                        \cup {taken[i] : i \in DOMAIN taken}

(***************************************************************************)
(* Whatever is owed leaves the board in the end, although each pass may    *)
(* send no more than BURST_MAX bulk packets and input competes for the     *)
(* same queue (dh_relay_tx_yield).                                         *)
(***************************************************************************)
RelayDrains == \A n \in 1 .. MaxFrames : (n \in Owed) ~> (n \notin Owed)
=============================================================================
