--------------------------- MODULE MCLocalStorage ---------------------------
(* Small instances of LocalStorage for TLC.                                *)
EXTENDS LocalStorage, TLC

\* Every string is one character long; an unsigned has 4 bits.
UnitLength == [s \in Keys \cup Values |-> 1]
FourBits == 16
NoQuota == FourBits - 1
OneItem == 4              \* bytes for one key and its value

First == CHOOSE p \in Procs : TRUE
TwoMaps == [p \in Procs |-> IF p = First THEN 2 ELSE 1]
OneMap == [p \in Procs |-> 1]

Symmetry == Permutations(Procs) \cup Permutations(Keys) \cup Permutations(Values)
=============================================================================
