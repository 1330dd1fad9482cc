----------------------------- MODULE MCFirmware -----------------------------
(***************************************************************************)
(* Firmware over three pages of two words, the last one unsummed.  The     *)
(* peer board starts with another image at this board's version, so that   *)
(* its role decides, and may be given a newer one.                         *)
(***************************************************************************)
EXTENDS Firmware

RunsOld == [version |-> 1, checksum |-> "old"]
RunsPeer == {[version |-> 1, checksum |-> "peer"]}
RunsNew == [version |-> 2, checksum |-> "new"]
=============================================================================
