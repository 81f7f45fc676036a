------------------------------ MODULE MCFleet ------------------------------
(* Model values for Fleet.                                                 *)
EXTENDS Fleet, TLC

PluginSymmetry == Permutations(Plugins)
=============================================================================
