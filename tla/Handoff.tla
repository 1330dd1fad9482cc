------------------------------ MODULE Handoff ------------------------------
(***************************************************************************)
(* What the inbound handoff between the two cores promises (core/dh_inq.h):*)
(* a bounded queue of whole frames, each put once and taken in the order   *)
(* they were put, from which the consumer may drop the oldest ones and     *)
(* nothing else is lost.  Frames are numbered as they are put.             *)
(***************************************************************************)
EXTENDS Integers, Sequences

CONSTANT Capacity  \* frames parked at once

VARIABLES parked,  \* the frames a consumer would find, oldest first
          put      \* the number of the last frame put

Init == parked = <<>> /\ put = 0

Put ==
    /\ Len(parked) < Capacity
    /\ put' = put + 1
    /\ parked' = Append(parked, put')

Take ==
    /\ parked # <<>>
    /\ parked' = Tail(parked)
    /\ UNCHANGED put

\* The consumer's session ended: what was parked when it looked goes.
Drop ==
    /\ \E n \in 1 .. Len(parked) : parked' = SubSeq(parked, n + 1, Len(parked))
    /\ UNCHANGED put

Next == Put \/ Take \/ Drop

Spec == Init /\ [][Next]_<<parked, put>>
=============================================================================
