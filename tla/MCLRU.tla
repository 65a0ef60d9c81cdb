-------------------------------- MODULE MCLRU --------------------------------
(***************************************************************************)
(* Instances of LRU for TLC.                                               *)
(***************************************************************************)
EXTENDS LRU, TLC

MCKeys == 1..3
Symmetry == Permutations(Nodes) \cup Permutations(Holders) \cup Permutations(Values)
=============================================================================
