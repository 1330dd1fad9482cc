------------------------------- MODULE MCXfer -------------------------------
(* A clipboard transfer on a small instance. *)
EXTENDS Xfer

AllKinds == {"eager", "lazy", "big"}
EagerOnly == {"eager"}
EitherEnd == {1, ID_MOD - 1}
=============================================================================
