----------------------------- MODULE MCPairing -----------------------------
(* Two helpers, which nothing tells apart, and a clock that wraps as soon as a window has run out. *)
EXTENDS Pairing, TLC

HelperSymmetry == Permutations(Helpers)
=============================================================================
