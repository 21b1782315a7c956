----------------------------- MODULE MCTrinity -----------------------------
(* Model checking TrinitySystem.  Transaction ids are chosen by CHOOSE and  *)
(* are left out of the symmetry.                                            *)
EXTENDS TrinitySystem, TLC

Symmetry == Permutations(Ids) \cup Permutations(Keys) \cup Permutations(Telemetry)
=============================================================================
