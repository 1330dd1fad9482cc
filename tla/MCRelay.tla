------------------------------ MODULE MCRelay ------------------------------
(* The relay on a small instance. *)
EXTENDS Relay

\* A frame that fits a slot behind the first, and one that does not.
Kinds == {[len |-> 1, tail |-> 1], [len |-> 2, tail |-> 1]}
=============================================================================
