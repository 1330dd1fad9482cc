----------------------------- MODULE MCSession -----------------------------
(* A session on a small instance; nothing but a change tells policies apart. *)
EXTENDS Session, TLC

PolicySymmetry == Permutations(Policies)
=============================================================================
