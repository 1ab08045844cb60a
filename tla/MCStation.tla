----------------------------- MODULE MCStation ------------------------------
(***************************************************************************)
(* Instances of the station's other parts for TLC: the constants are model   *)
(* values and bounds, all given in the configuration.                       *)
(***************************************************************************)
EXTENDS Station
==============================================================================
