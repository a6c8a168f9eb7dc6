----------------------- MODULE MCLocalStorageDatabase -----------------------
(* Instances of LocalStorageDatabase for TLC.                              *)
EXTENDS LocalStorageDatabase, TLC

Symmetry == Permutations(Keys) \cup Permutations(Values)
=============================================================================
