---------------------------- MODULE MCFPVArchive ----------------------------
(***************************************************************************)
(* Instances of FPVArchive for TLC.                                         *)
(***************************************************************************)
EXTENDS FPVArchive

CONSTANTS r1, x, none

Bands == {1, 2, 3}   \* 2 may be the same as 1 and as 3
OneSerial == {x}
OneReceiver == {r1}
=============================================================================
