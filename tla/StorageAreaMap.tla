--------------------------- MODULE StorageAreaMap ---------------------------
(***************************************************************************)
(* The web process's cached copy of a storage area, StorageAreaMap, as a   *)
(* record of its members and one operator per method that changes them.    *)
(*                                                                         *)
(* Pages read and write the cache; every local change is also sent to the  *)
(* UI process.  Until the UI process acknowledges it the key is counted in *)
(* m_pendingValueChanges, and changes of other processes to that key are   *)
(* ignored.  m_currentSeed tells acknowledgements of the current contents  *)
(* from those of contents that have been reset since.                      *)
(***************************************************************************)
EXTENDS StorageMap

CONSTANT NoMap          \* m_storageMap is null: nothing loaded

ASSUME NoMapAssumption == NoMap \notin StorageMaps

AreaMaps == [map : StorageMaps \cup {NoMap}, seed : Nat, pending : [Keys -> Nat],
             pendingClear : BOOLEAN, pendingGetValues : BOOLEAN]

WithoutValues(seed) ==
  [map |-> NoMap, seed |-> seed, pending |-> [k \in Keys |-> 0],
   pendingClear |-> FALSE, pendingGetValues |-> FALSE]

NewAreaMap == WithoutValues(0)

ResetValues(a) == WithoutValues(a.seed + 1)

\* Mutant: only the map is dropped.
ClearMapOnly(a) == [a EXCEPT !.map = NoMap]

ClearCache(a) == ResetValues(a)

\* The end of loadValuesIfNeeded, with the values of the GetValues reply.
LoadValues(a, items) ==
  [a EXCEPT !.map = ImportItems(items), !.pendingGetValues = TRUE]
-----------------------------------------------------------------------------
(* Changes made by pages of this process, on a loaded map.                 *)

\* Neither a quota exception nor an unchanged value is sent.
SetIsSent(a, k, v) == ~QuotaException(a.map, k, v, quotaSize) /\ GetItem(a.map, k) # v

LocalSetItem(a, k, v) ==
  [a EXCEPT !.map = SetItem(a.map, k, v, quotaSize), !.pending[k] = @ + 1]

RemoveIsSent(a, k) == GetItem(a.map, k) # Null

LocalRemoveItem(a, k) ==
  [a EXCEPT !.map = RemoveItem(a.map, k), !.pending[k] = @ + 1]

LocalClear(a) ==
  [ResetValues(a) EXCEPT !.map = Create, !.pendingClear = TRUE]
-----------------------------------------------------------------------------
(* Acknowledgements.                                                       *)

DidGetValues(a, seed) ==
  IF a.seed # seed THEN a ELSE [a EXCEPT !.pendingGetValues = FALSE]

RemovePending(a, k) == [a EXCEPT !.pending[k] = IF @ > 0 THEN @ - 1 ELSE 0]

\* Mutant: a change refused for quota stays in the cache.
DidSetItemAnyway(a, seed, k, quotaError) ==
  IF a.seed # seed THEN a ELSE RemovePending(a, k)

DidSetItem(a, seed, k, quotaError) ==
  IF a.seed # seed THEN a
  ELSE IF quotaError THEN ResetValues(a) ELSE RemovePending(a, k)

DidRemoveItem(a, seed, k) == IF a.seed # seed THEN a ELSE RemovePending(a, k)

\* Mutant: the acknowledgement of an earlier clear ends the latest one.
DidAnyClear(a, seed) == [a EXCEPT !.pendingClear = FALSE]

DidClear(a, seed) ==
  IF a.seed # seed THEN a ELSE [a EXCEPT !.pendingClear = FALSE]
-----------------------------------------------------------------------------
(* Changes made by other processes.                                        *)

\* A clear keeps the keys with a pending value, but stores the null String
\* for them.
KeptByClear(a) == {k \in Keys : a.pending[k] > 0 /\ GetItem(a.map, k) # Null}

ApplyClear(a) ==
  [a EXCEPT !.map =
     [items |-> [k \in Keys |-> IF k \in KeptByClear(a) THEN Null ELSE Absent],
      length |-> MapThenSumSet(LengthOf, KeptByClear(a)) % UIntSize]]

\* Mutant: a change is applied to a key that has a local change pending.
ShouldApplyLoaded(a, k) == a.map # NoMap

ShouldApplyChangeForKey(a, k) == a.map # NoMap /\ a.pending[k] = 0

\* Mutant: changes made before a local clear are applied after it.
ApplyDuringClear(a, k, v) ==
  IF a.pendingGetValues THEN a
  ELSE IF k = Null THEN ApplyClear(a)
  ELSE IF ~ShouldApplyChangeForKey(a, k) THEN a
  ELSE IF v = Null THEN [a EXCEPT !.map = RemoveItem(a.map, k)]
  ELSE [a EXCEPT !.map = SetItemIgnoringQuota(a.map, k, v)]

\* A null key means clear, a null value removal.
ApplyChange(a, k, v) ==
  IF a.pendingClear \/ a.pendingGetValues THEN a
  ELSE IF k = Null THEN ApplyClear(a)
  ELSE IF ~ShouldApplyChangeForKey(a, k) THEN a
  ELSE IF v = Null THEN [a EXCEPT !.map = RemoveItem(a.map, k)]
  ELSE [a EXCEPT !.map = SetItemIgnoringQuota(a.map, k, v)]
=============================================================================
