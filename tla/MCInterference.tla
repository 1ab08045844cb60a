--------------------------- MODULE MCInterference ---------------------------
(***************************************************************************)
(* Instances of Interference for TLC: the sets of faults of its runs.       *)
(***************************************************************************)
EXTENDS Interference

AllButLost == FaultKinds \ {"lost"}
OnlyLost == {"lost"}
OnlyLink == {"link"}
RowIdsTwo == 1..2
RowIdsThree == 1..3
=============================================================================
