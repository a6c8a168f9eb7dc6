-------------------- MODULE MCLocalStorageDatabaseTracker --------------------
(* Small instances of LocalStorageDatabaseTracker for TLC.                 *)
EXTENDS LocalStorageDatabaseTracker, TLC

Symmetry == Permutations(Origins)
=============================================================================
