---------------------------- MODULE MCUnattended ----------------------------
(***************************************************************************)
(* Instances of Unattended for TLC.                                         *)
(***************************************************************************)
EXTENDS Unattended, TLC

CONSTANTS c1, c2

TwoClients == {c1, c2}
OneClient == {c1}
ClientSymmetry == Permutations(TwoClients)
=============================================================================
