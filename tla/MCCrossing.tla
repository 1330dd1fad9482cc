----------------------------- MODULE MCCrossing -----------------------------
(***************************************************************************)
(* Crossing with the mouse on either board.  Three moves let a placement,  *)
(* a query and an arrival overlap with one of their own kind; ids do not   *)
(* come round within them, as 255 do not within the life of an answer.     *)
(***************************************************************************)
EXTENDS Crossing
=============================================================================
