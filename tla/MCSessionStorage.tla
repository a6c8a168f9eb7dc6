-------------------------- MODULE MCSessionStorage --------------------------
(* Small instances of SessionStorage for TLC.                              *)
EXTENDS SessionStorage, TLC

\* Every string is one character long; an unsigned has 4 bits.
UnitLength == [s \in Keys \cup Values |-> 1]
FourBits == 16
NoQuota == FourBits - 1

Symmetry == Permutations(Values)
=============================================================================
