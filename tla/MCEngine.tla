------------------------------ MODULE MCEngine ------------------------------
(* Instances of the engine for TLC.                                        *)
EXTENDS EngineRefinement, EngineInvariants, TLC

(* Calls of one kind are interchangeable, and so are keys.                 *)
CallSymmetry ==
  Permutations(Ops) \cup Permutations(Keys) \cup Permutations(Flushes)
    \cup Permutations(Closes) \cup Permutations(Maintenances)
=============================================================================
