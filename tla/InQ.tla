-------------------------------- MODULE InQ --------------------------------
(***************************************************************************)
(* The inbound handoff from the peer board, core/dh_inq.c: a ring with no  *)
(* lock, written by core 1 (handle_channel_relay_msg) and read by core 0   *)
(* (pump_inbound, channel_lifecycle_link_lost).  head and tail are free-   *)
(* running bytes, so the widths here are the code's own.                   *)
(*                                                                         *)
(* Each core's steps are cut where the other can be seen to run: core 1    *)
(* checks for room, copies the frame and publishes it; core 0 peeks, tags  *)
(* the frame through a pointer into the slot, and releases it, or resets   *)
(* the ring by loading tail and storing it to head.                        *)
(***************************************************************************)
EXTENDS Integers, Sequences

CONSTANTS
    MaxFrames,   \* bound: frames core 1 ever publishes
    UINT32_MAX   \* where dropped saturates

ASSUME InqAssumption == MaxFrames \in Nat /\ UINT32_MAX \in Nat

DH_INQ_DEPTH == 4

UINT8 == 256

VARIABLES
    head, tail,  \* the free-running slot counters, core 0's and core 1's
    slot,        \* what each slot holds; 0 while a copy is under way
    writer,      \* core 1: "idle", "copying" or "staged"
    dropped,     \* frames the ring could not take
    reader,      \* core 0: "idle", "holding" or "resetting"
    at,          \* the slot core 0 peeked
    seen,        \* the tail core 0 loaded in dh_inq_reset
    next,        \* the number of the next frame to be taken in
    peeked       \* history: the frame core 0 saw when it peeked

vars == <<head, tail, slot, writer, dropped, reader, at, seen, next, peeked>>

core1 == <<tail, slot, writer, dropped, next>>
core0 == <<head, reader, at, seen, peeked>>
-----------------------------------------------------------------------------
Byte == 0 .. UINT8 - 1

Slots == 0 .. DH_INQ_DEPTH - 1

inq_slot_at(counter) == counter % DH_INQ_DEPTH

dh_inq_pending(h, t) == (t - h) % UINT8

\* The frames a consumer would find, oldest first.
Parked == [i \in 1 .. dh_inq_pending(head, tail) |-> slot[inq_slot_at((head + i - 1) % UINT8)]]

Init ==
    /\ head = 0 /\ tail = 0 /\ slot = [s \in Slots |-> 0]
    /\ writer = "idle" /\ dropped = 0
    /\ reader = "idle" /\ at = 0 /\ seen = 0
    /\ next = 1 /\ peeked = 0
-----------------------------------------------------------------------------
(* Core 1. *)

\* Mutant: the ring takes one frame more than it has slots.
HasRoom_off_by_one == dh_inq_pending(head, tail) <= DH_INQ_DEPTH

HasRoom == dh_inq_pending(head, tail) < DH_INQ_DEPTH

dh_inq_stage ==
    /\ writer = "idle"
    /\ next <= MaxFrames
    /\ HasRoom
    /\ writer' = "copying"
    /\ slot' = [slot EXCEPT ![inq_slot_at(tail)] = 0]
    /\ UNCHANGED <<tail, dropped, next, core0>>

\* Refused: the ring is full or, which may happen at any time, the frame is
\* longer than a slot.
StageRefused ==
    /\ writer = "idle"
    /\ dropped < UINT32_MAX
    /\ dropped' = dropped + 1
    /\ UNCHANGED <<tail, slot, writer, next, core0>>

StageCopied ==
    /\ writer = "copying"
    /\ writer' = "staged"
    /\ slot' = [slot EXCEPT ![inq_slot_at(tail)] = next]
    /\ UNCHANGED <<tail, dropped, next, core0>>

dh_inq_publish ==
    /\ writer = "staged"
    /\ writer' = "idle"
    /\ tail' = (tail + 1) % UINT8
    /\ next' = next + 1
    /\ UNCHANGED <<slot, dropped, core0>>
-----------------------------------------------------------------------------
(* Core 0. *)

dh_inq_peek ==
    /\ reader = "idle"
    /\ dh_inq_pending(head, tail) # 0
    /\ reader' = "holding"
    /\ at' = inq_slot_at(head)
    /\ peeked' = slot[at']
    /\ UNCHANGED <<head, seen, core1>>

\* Tagged and queued, or refused: either way the slot goes back.
dh_inq_release ==
    /\ reader = "holding"
    /\ reader' = "idle"
    /\ head' = IF dh_inq_pending(head, tail) = 0 THEN head ELSE (head + 1) % UINT8
    /\ at' = 0 /\ peeked' = 0
    /\ UNCHANGED <<seen, core1>>

dh_inq_reset ==
    /\ reader = "idle"
    /\ dh_inq_pending(head, tail) # 0 \/ writer # "idle"
    /\ reader' = "resetting"
    /\ seen' = tail
    /\ UNCHANGED <<head, at, peeked, core1>>

\* Mutant: both indices start again from zero.
ResetStore_zeroes ==
    /\ reader = "resetting"
    /\ reader' = "idle"
    /\ head' = 0 /\ tail' = 0 /\ seen' = 0
    /\ UNCHANGED <<slot, writer, dropped, next, at, peeked>>

\* The consumer moves its own index up to the producer's, and nothing else.
ResetStore ==
    /\ reader = "resetting"
    /\ reader' = "idle"
    /\ head' = seen /\ seen' = 0
    /\ UNCHANGED <<at, peeked, core1>>

Core1 == dh_inq_stage \/ StageRefused \/ StageCopied \/ dh_inq_publish

Core0 == dh_inq_peek \/ dh_inq_release \/ dh_inq_reset \/ ResetStore

Next == Core1 \/ Core0

Spec == Init /\ [][Next]_vars
-----------------------------------------------------------------------------
\* The types of the ring and of the two cores' places in it.
TypeOK ==
    /\ head \in Byte /\ tail \in Byte /\ seen \in Byte
    /\ slot \in [Slots -> Nat] /\ at \in Slots
    /\ writer \in {"idle", "copying", "staged"}
    /\ reader \in {"idle", "holding", "resetting"}
    /\ dropped \in Nat /\ next \in Nat \ {0} /\ peeked \in Nat
    /\ dh_inq_pending(head, tail) <= DH_INQ_DEPTH

(***************************************************************************)
(* The frame core 0 is tagging stays where it is until it is released: the *)
(* producer only ever writes to slots behind it, also when the ring is     *)
(* full and when the counters wrap (dh_inq_stage).                         *)
(***************************************************************************)
HeldStable == reader = "holding" => slot[at] = peeked /\ peeked # 0

H == INSTANCE Handoff WITH parked <- Parked, put <- next - 1, Capacity <- DH_INQ_DEPTH

(***************************************************************************)
(* The ring implements the handoff dh_inq.h describes: a bounded queue     *)
(* taken in order, with no frame lost, torn, repeated or resurrected,      *)
(* however the two cores interleave.                                       *)
(***************************************************************************)
ImplementsHandoff == H!Spec
=============================================================================
