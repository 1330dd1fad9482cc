------------------------------- MODULE MCInQ -------------------------------
(* The handoff ring past the wrap of its counters. *)
EXTENDS InQ
=============================================================================
