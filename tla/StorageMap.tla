----------------------------- MODULE StorageMap -----------------------------
(***************************************************************************)
(* WebCore::StorageMap: the items of one storage area together with the    *)
(* running total m_currentLength that quota checks use.                    *)
(*                                                                         *)
(* A map is a record of its items and its length.  An item is Absent, a    *)
(* value, or Null: m_map can hold a key whose value is the null String,    *)
(* which contains() and length() count and getItem() cannot tell from an   *)
(* absent key.  Lengths are unsigned, modulo UIntSize; Length gives the    *)
(* length of keys and values, and the null String has length 0.            *)
(***************************************************************************)
EXTENDS Integers, FiniteSets, FiniteSetsExt

CONSTANTS Keys, Values, Null, Absent,
          Length,        \* length of each key and value
          UIntSize,      \* number of values of an unsigned (2^32)
          quotaSize      \* m_quotaSize in bytes

ASSUME StringsAssumption == Null \notin Values /\ Absent \notin Values \cup {Null}
ASSUME LengthAssumption ==
  UIntSize \in Nat \ {0} /\ Length \in [Keys \cup Values -> 0 .. UIntSize - 1]
ASSUME QuotaAssumption == quotaSize \in 0 .. UIntSize - 1

noQuota == UIntSize - 1

Items == [Keys -> Values \cup {Null, Absent}]
StorageMaps == [items : Items, length : 0 .. UIntSize - 1]

Create == [items |-> [k \in Keys |-> Absent], length |-> 0]

LengthOf(string) == IF string = Null THEN 0 ELSE Length[string]

Contains(m, k) == m.items[k] # Absent
GetItem(m, k) == IF Contains(m, k) THEN m.items[k] ELSE Null
Size(m) == Cardinality({k \in Keys : Contains(m, k)})

\* The new length, computed in steps that may each wrap around.
Add(x, y) == (x + y) % UIntSize
Subtract(x, y) == (x - y) % UIntSize

AfterValue(m, v) == Add(m.length, LengthOf(v))
AfterOld(m, k, v) == Subtract(AfterValue(m, v), LengthOf(GetItem(m, k)))
KeyLength(m, k) == IF GetItem(m, k) = Null THEN LengthOf(k) ELSE 0
NewLength(m, k, v) == Add(AfterOld(m, k, v), KeyLength(m, k))

Overflows(m, k, v) ==
  \/ AfterValue(m, v) < m.length
  \/ AfterOld(m, k, v) > AfterValue(m, v)
  \/ NewLength(m, k, v) < AfterOld(m, k, v)

QuotaException(m, k, v, quota) ==
  /\ quota # noQuota
  /\ Overflows(m, k, v) \/ NewLength(m, k, v) > quota \div 2

\* setItem on a map with one reference; unchanged if it raises the exception.
SetItem(m, k, v, quota) ==
  IF QuotaException(m, k, v, quota) THEN m
  ELSE [items |-> [m.items EXCEPT ![k] = v], length |-> NewLength(m, k, v)]

SetItemIgnoringQuota(m, k, v) == SetItem(m, k, v, noQuota)

\* Mutant: the key's length stays in the total.
RemoveValueOnly(m, k) ==
  [items |-> [m.items EXCEPT ![k] = Absent],
   length |-> Subtract(m.length, LengthOf(GetItem(m, k)))]

\* The key's length is taken off only when the value was not null.
RemoveItem(m, k) ==
  LET old == GetItem(m, k)
      afterKey == IF old = Null THEN m.length ELSE Subtract(m.length, LengthOf(k))
  IN  [items |-> [m.items EXCEPT ![k] = Absent],
       length |-> Subtract(afterKey, LengthOf(old))]

TotalLength(items) ==
  MapThenSumSet(LAMBDA k : LengthOf(k) + LengthOf(items[k]),
                {k \in Keys : items[k] # Absent}) % UIntSize

\* importItems into a new map.
ImportItems(items) == [items |-> items, length |-> TotalLength(items)]

ExactLength(m) == m.length = TotalLength(m.items)
=============================================================================
