--------------------- MODULE LocalStorageDatabaseProofs ---------------------
(***************************************************************************)
(* Proofs about LocalStorageDatabase for every set of keys and values,     *)
(* every batch size, with and without crashes, and about                   *)
(* LocalStorageDatabaseTracker for every set of origins, with refused      *)
(* steps and crashes between any two steps.                                *)
(***************************************************************************)
EXTENDS LocalStorageDatabase, LocalStorageDatabaseTracker, TLAPS

\* The prover of a step that names none.
USE ZenonT(60)

\* Without a LocalStorageDatabase nothing is open and nothing is pending, and
\* before the import the area is empty and has no database.
Idle ==
  /\ ~hasDatabase => /\ ~isOpen /\ ~failedToOpen /\ ~didScheduleUpdate
                     /\ ~shouldClearItems /\ changedItems = NoChanges
  /\ ~didImportItems => ~hasDatabase /\ storageMap = Empty
  /\ didImportItems => areaAlive
  /\ ~file.exists => file.table = Empty

\* A pending clear has an update scheduled for it, unless an open failed.
ClearIsScheduled == ~CanFail /\ shouldClearItems => didScheduleUpdate

\* A scheduled update has something to write.
ScheduledToWrite == didScheduleUpdate => shouldClearItems \/ ChangedKeys # {}

\* The inductive invariant.
IInv ==
  /\ TypeOK
  /\ PendingChangesAreScheduled
  /\ MemoryIsDiskPlusPending
  /\ Idle
  /\ ClearIsScheduled
  /\ ScheduledToWrite

Files == [exists : BOOLEAN, table : Maps, legacy : BOOLEAN]
-----------------------------------------------------------------------------
(* Facts about the operators.                                              *)

\* Empty and NoChanges are well typed, and a file that does not exist is one.
LEMMA ConstantTypes ==
  /\ Empty \in Maps
  /\ NoChanges \in [Keys -> Values \cup {Null, NoChange}]
  /\ NoFile \in Files
BY DEF Empty, Maps, NoChanges, NoFile, Files

\* The fields of a file that does not exist.
LEMMA NoFileFields == NoFile \in Files /\ NoFile.table = Empty /\ ~NoFile.exists
BY ConstantTypes DEF NoFile

\* Writing changes to a table gives a table.
LEMMA WrittenType ==
  ASSUME NEW table \in Maps, NEW clear \in BOOLEAN,
         NEW items \in [Keys -> Values \cup {Null, NoChange}]
  PROVE  Written(table, clear, items) \in Maps
BY NoChangeAssumption DEF Written, Maps

\* Opening yields a well-typed outcome, keeps the items of the file unless
\* SQLite fails, and leaves nothing in a file that does not exist.
LEMMA OpenOutcome ==
  ASSUME TypeOK, Idle, NEW strategy, NEW o \in OpenDatabase(strategy)
  PROVE  /\ o.open \in BOOLEAN
         /\ o.failed \in BOOLEAN
         /\ o.file \in Files
         /\ ~o.file.exists => o.file.table = Empty
         /\ ~CanFail => o.file.table = file.table
         /\ ~CanFail /\ file.exists => o.open
         /\ ~CanFail /\ strategy # "SkipIfNonExistent" => o.open
         /\ strategy = "SkipIfNonExistent" /\ o.file.exists => file.exists
<1> DEFINE skipped == [open |-> FALSE, failed |-> failedToOpen, file |-> file]
<1> DEFINE opened == [open |-> TRUE, failed |-> failedToOpen,
                      file |-> File(file.table, FALSE)]
<1> DEFINE noOpen == [open |-> FALSE, failed |-> TRUE, file |-> file]
<1> DEFINE noTable == [open |-> TRUE, failed |-> TRUE,
                       file |-> File(file.table, file.legacy)]
<1> DEFINE dropped == [open |-> TRUE, failed |-> failedToOpen,
                       file |-> File(Empty, FALSE)]
<1>1. /\ file \in Files
      /\ failedToOpen \in BOOLEAN
      /\ ~file.exists => file.table = Empty
  BY DEF TypeOK, Idle, Files
<1>2. \/ o = skipped /\ ~file.exists /\ strategy = "SkipIfNonExistent"
      \/ o = opened /\ (file.exists \/ strategy # "SkipIfNonExistent")
      \/ /\ o \in {noOpen, noTable, dropped} /\ CanFail
         /\ file.exists \/ strategy # "SkipIfNonExistent"
  BY DEF OpenDatabase, OpenFailures
<1>3. CASE o = skipped /\ ~file.exists /\ strategy = "SkipIfNonExistent"
  BY <1>1, <1>3
<1>4. CASE o = opened /\ (file.exists \/ strategy # "SkipIfNonExistent")
  BY <1>1, <1>4 DEF Files, File
<1>5. CASE o = noOpen /\ CanFail /\ (file.exists \/ strategy # "SkipIfNonExistent")
  BY <1>1, <1>5
<1>6. CASE o = noTable /\ CanFail /\ (file.exists \/ strategy # "SkipIfNonExistent")
  BY <1>1, <1>6 DEF Files, File
<1>7. CASE o = dropped /\ CanFail /\ (file.exists \/ strategy # "SkipIfNonExistent")
  BY <1>1, <1>7, ConstantTypes DEF Files, File
<1> QED
  BY <1>2, <1>3, <1>4, <1>5, <1>6, <1>7

\* The same for a database that is opened only if it is not open yet, as
\* before a write.
LEMMA OpenIfNeededOutcome ==
  ASSUME TypeOK, Idle, NEW o \in OpenIfNeeded
  PROVE  /\ o.open \in BOOLEAN
         /\ o.failed \in BOOLEAN
         /\ o.file \in Files
         /\ ~o.file.exists => o.file.table = Empty
         /\ ~CanFail => o.open /\ o.file.table = file.table
<1>1. CASE isOpen
  <2>1. o = [open |-> TRUE, failed |-> failedToOpen, file |-> file]
    BY <1>1 DEF OpenIfNeeded
  <2> QED
    BY <2>1 DEF TypeOK, Idle, Files
<1>2. CASE ~isOpen
  <2>1. o \in OpenDatabase("CreateIfNonExistent")
    BY <1>2 DEF OpenIfNeeded
  <2> QED
    BY <2>1, OpenOutcome, SMTT(30)
<1> QED
  BY <1>1, <1>2

\* A write yields a well-typed outcome; unless SQLite fails it writes all of
\* items and leaves no clear pending.
LEMMA WriteOutcome ==
  ASSUME TypeOK, Idle, NEW items \in [Keys -> Values \cup {Null, NoChange}],
         NEW w \in UpdateWithChangedItems(items)
  PROVE  /\ w.open \in BOOLEAN
         /\ w.failed \in BOOLEAN
         /\ w.clear \in BOOLEAN
         /\ w.file \in Files
         /\ ~w.file.exists => w.file.table = Empty
         /\ ~CanFail => /\ w.open
                        /\ w.clear = FALSE
                        /\ w.file.table = Written(file.table, shouldClearItems, items)
<1> DEFINE After(o, table) == [open |-> TRUE, failed |-> o.failed, clear |-> FALSE,
                               file |-> File(table, o.file.legacy)]
<1>1. PICK o \in OpenIfNeeded :
        w \in IF o.open THEN WriteItems(o, items)
              ELSE {[open |-> FALSE, failed |-> o.failed, clear |-> shouldClearItems,
                     file |-> o.file]}
  BY DEF UpdateWithChangedItems
<1>2. /\ o.open \in BOOLEAN
      /\ o.failed \in BOOLEAN
      /\ o.file \in Files
      /\ ~o.file.exists => o.file.table = Empty
      /\ ~CanFail => o.open /\ o.file.table = file.table
  BY <1>1, OpenIfNeededOutcome
<1>3. CASE ~o.open
  <2>1. w = [open |-> FALSE, failed |-> o.failed, clear |-> shouldClearItems,
             file |-> o.file]
    BY <1>1, <1>3
  <2>2. CanFail /\ shouldClearItems \in BOOLEAN
    BY <1>2, <1>3 DEF TypeOK
  <2> QED
    BY <1>2, <2>1, <2>2
<1>4. CASE o.open
  <2>1. \/ w = After(o, Written(o.file.table, shouldClearItems, items))
        \/ /\ CanFail
           /\ \/ \E S \in SUBSET Keys :
                   w = After(o, Written(o.file.table, shouldClearItems,
                                        OnlyKeys(items, S)))
              \/ w = After(o, o.file.table)
    BY <1>1, <1>4 DEF WriteItems
  <2>2. /\ o.file.table \in Maps
        /\ o.file.legacy \in BOOLEAN
        /\ shouldClearItems \in BOOLEAN
    BY <1>2 DEF Files, TypeOK
  <2>3. \A S \in SUBSET Keys : OnlyKeys(items, S) \in [Keys -> Values \cup {Null, NoChange}]
    BY DEF OnlyKeys
  <2>4. PICK table \in Maps :
          /\ w = After(o, table)
          /\ ~CanFail => table = Written(o.file.table, shouldClearItems, items)
    BY <2>1, <2>2, <2>3, WrittenType
  <2> QED
    BY <1>2, <2>2, <2>4 DEF File, Files
<1> QED
  BY <1>2, <1>3, <1>4

\* Nothing pending, nothing written.
LEMMA WrittenNothing ==
  ASSUME NEW table \in Maps
  PROVE  Written(table, FALSE, NoChanges) = table
BY DEF Written, NoChanges, Maps

\* Importing gives a well-typed map; unless SQLite fails, it is what the file
\* holds with the pending changes, and the items of the file stay as they are.
LEMMA ImportOutcome ==
  ASSUME IInv, NEW o \in OpenAndImport
  PROVE  /\ o.open \in BOOLEAN
         /\ o.failed \in BOOLEAN
         /\ o.map \in Maps
         /\ o.file \in Files
         /\ ~o.file.exists => o.file.table = Empty
         /\ ~CanFail => /\ o.file.table = file.table
                        /\ o.map = Written(file.table, shouldClearItems, changedItems)
         /\ o.file.exists => file.exists
<1>1. CASE didImportItems
  <2>1. o = [open |-> isOpen, failed |-> failedToOpen, map |-> storageMap, file |-> file]
    BY <1>1 DEF OpenAndImport
  <2> QED
    BY <1>1, <2>1 DEF IInv, TypeOK, Idle, MemoryIsDiskPlusPending, Files
<1>2. CASE ~didImportItems
  <2>1. PICK p \in OpenDatabase("SkipIfNonExistent") :
          \E m \in (IF p.open THEN {ImportItems(storageMap, p.file.table)} ELSE {})
                   \cup (IF ~p.open \/ CanFail THEN {storageMap} ELSE {}) :
            o = [open |-> p.open, failed |-> p.failed, map |-> m, file |-> p.file]
    BY <1>2 DEF OpenAndImport
  <2>2. PICK m : /\ o = [open |-> p.open, failed |-> p.failed, map |-> m, file |-> p.file]
                 /\ \/ p.open /\ m = ImportItems(storageMap, p.file.table)
                    \/ (~p.open \/ CanFail) /\ m = storageMap
    BY <2>1
  <2>3. /\ p.open \in BOOLEAN
        /\ p.failed \in BOOLEAN
        /\ p.file \in Files
        /\ ~p.file.exists => p.file.table = Empty
        /\ ~CanFail => p.file.table = file.table
        /\ ~CanFail /\ file.exists => p.open
        /\ p.file.exists => file.exists
    BY <2>1, OpenOutcome, IInv DEF IInv
  <2>4. /\ storageMap = Empty
        /\ file \in Files
        /\ ~file.exists => file.table = Empty
        /\ Written(file.table, shouldClearItems, changedItems) = file.table
    <3>1. /\ storageMap = Empty
          /\ file \in Files
          /\ ~file.exists => file.table = Empty
          /\ shouldClearItems = FALSE
          /\ changedItems = NoChanges
      BY <1>2 DEF IInv, TypeOK, Idle, Files
    <3> QED
      BY <3>1, WrittenNothing DEF Files
  <2>5. ImportItems(Empty, p.file.table) = p.file.table
    BY <2>3 DEF ImportItems, Empty, Files, Maps
  <2>6. m \in Maps /\ (~CanFail => m = file.table)
    BY <2>2, <2>3, <2>4, <2>5, ConstantTypes DEF Files
  <2> QED
    BY <2>2, <2>3, <2>4, <2>6
<1> QED
  BY <1>1, <1>2

\* Closing leaves a well-typed file; unless SQLite fails, it holds the items
\* with all pending changes.
LEMMA CloseOutcome ==
  ASSUME IInv, NEW f \in Close
  PROVE  /\ f \in Files
         /\ ~f.exists => f.table = Empty
         /\ ~CanFail => f.table = Written(file.table, shouldClearItems, changedItems)
         /\ f.exists /\ ~file.exists => shouldClearItems \/ ChangedKeys # {}
<1>1. /\ file \in Files
      /\ file.table \in Maps
      /\ ~file.exists => file.table = Empty
  BY DEF IInv, TypeOK, Idle, Files
<1>2. CASE ~hasDatabase
  <2>1. f = file /\ shouldClearItems = FALSE /\ changedItems = NoChanges
    BY <1>2 DEF Close, IInv, Idle, TypeOK
  <2> QED
    BY <1>1, <2>1, WrittenNothing
<1>3. CASE hasDatabase
  <2>1. PICK w \in FlushOnClose :
          \/ w.open /\ w.file.table = Empty /\ f = NoFile
          \/ f = w.file
    BY <1>3 DEF Close
  <2>2. CASE didScheduleUpdate
    <3>1. PICK u \in UpdateWithChangedItems(changedItems) :
            w = [open |-> u.open, file |-> u.file]
      BY <2>1, <2>2 DEF FlushOnClose
    <3>2. /\ u.file \in Files
          /\ ~u.file.exists => u.file.table = Empty
          /\ ~CanFail => u.file.table = Written(file.table, shouldClearItems, changedItems)
      BY <3>1, WriteOutcome DEF IInv, TypeOK
    <3>3. shouldClearItems \/ ChangedKeys # {}
      BY <2>2 DEF IInv, ScheduledToWrite
    <3>4. (f = NoFile /\ u.file.table = Empty) \/ f = u.file
      BY <2>1, <3>1
    <3>5. CASE f = NoFile /\ u.file.table = Empty
      BY <3>2, <3>5, NoFileFields
    <3> QED
      BY <3>2, <3>3, <3>4, <3>5
  <2>3. CASE ~didScheduleUpdate
    <3>1. w = [open |-> isOpen, file |-> file]
      BY <2>1, <2>3 DEF FlushOnClose
    <3>2. ~CanFail => Written(file.table, shouldClearItems, changedItems) = file.table
      <4>1. changedItems = NoChanges
        BY <2>3 DEF IInv, PendingChangesAreScheduled, ChangedKeys, NoChanges, TypeOK
      <4>2. ~CanFail => shouldClearItems = FALSE
        BY <2>3 DEF IInv, ClearIsScheduled, TypeOK
      <4> QED
        BY <1>1, <4>1, <4>2, WrittenNothing
    <3>3. (f = NoFile /\ file.table = Empty) \/ f = file
      BY <2>1, <3>1
    <3>4. CASE f = NoFile /\ file.table = Empty
      BY <3>2, <3>4, NoFileFields
    <3> QED
      BY <1>1, <3>2, <3>3, <3>4
  <2> QED
    BY <2>2, <2>3 DEF IInv, TypeOK
<1> QED
  BY <1>2, <1>3
-----------------------------------------------------------------------------
(* How pending changes compose with what is on disk.                       *)

\* A pending clear without later changes empties the table.
LEMMA WrittenClear ==
  ASSUME NEW table \in Maps
  PROVE  Written(table, TRUE, NoChanges) = Empty
BY DEF Written, NoChanges, Empty
-----------------------------------------------------------------------------
(* Preservation of the invariant, one lemma for each kind of step.         *)

\* The initial states satisfy the invariant.
LEMMA InitInv == Init => IInv
<1> SUFFICES ASSUME Init PROVE IInv
  OBVIOUS
<1>1. file \in Files /\ (~file.exists => file.table = Empty)
  BY NoFileFields DEF Init, Files
<1>2. TypeOK
  BY <1>1, ConstantTypes DEF Init, TypeOK, Files
<1>3. ChangedKeys = {}
  BY DEF Init, ChangedKeys, NoChanges
<1> QED
  BY <1>1, <1>2, <1>3
  DEF Init, IInv, PendingChangesAreScheduled, MemoryIsDiskPlusPending, Idle,
      ClearIsScheduled, ScheduledToWrite

\* An operation that only opens the database and imports its items.
LEMMA ItemsStep == IInv /\ Items => IInv'
<1> SUFFICES ASSUME IInv, Items PROVE IInv'
  OBVIOUS
<1>1. PICK o \in OpenAndImport : Imported(o) /\ storageMap' = o.map
  BY DEF Items
<1>2. UNCHANGED updateVars
  BY DEF Items
<1>3. /\ o.open \in BOOLEAN
      /\ o.failed \in BOOLEAN
      /\ o.map \in Maps
      /\ o.file \in Files
      /\ ~o.file.exists => o.file.table = Empty
      /\ ~CanFail => /\ o.file.table = file.table
                     /\ o.map = Written(file.table, shouldClearItems, changedItems)
  BY <1>1, ImportOutcome
<1>4. TypeOK'
  BY <1>1, <1>2, <1>3 DEF IInv, TypeOK, Imported, updateVars, Files
<1>5. MemoryIsDiskPlusPending'
  BY <1>1, <1>2, <1>3 DEF MemoryIsDiskPlusPending, Imported, updateVars
<1>6. PendingChangesAreScheduled' /\ ClearIsScheduled' /\ ScheduledToWrite'
  BY <1>1, <1>2
  DEF IInv, PendingChangesAreScheduled, ClearIsScheduled, ScheduledToWrite,
      ChangedKeys, Imported, updateVars
<1>7. Idle'
  BY <1>1, <1>2, <1>3 DEF Items, Idle, Imported, updateVars
<1> QED
  BY <1>4, <1>5, <1>6, <1>7 DEF IInv

\* After scheduling, one update is scheduled.
LEMMA Scheduled ==
  ASSUME TypeOK, PendingChangesAreScheduled, ScheduleDatabaseUpdate
  PROVE  didScheduleUpdate' = TRUE /\ terminationDisabled' = TRUE /\ timers' = 1
<1>1. terminationDisabled' = TRUE
  <2>1. terminationDisabled \/ ~didScheduleUpdate
    BY DEF PendingChangesAreScheduled
  <2>2. terminationDisabled' = (terminationDisabled \/ ~didScheduleUpdate)
    BY DEF ScheduleDatabaseUpdate
  <2> QED
    BY <2>1, <2>2
<1>2. timers' = 1
  BY SMTT(30) DEF TypeOK, PendingChangesAreScheduled, ScheduleDatabaseUpdate
<1> QED
  BY <1>1, <1>2 DEF ScheduleDatabaseUpdate

\* setItem and removeItem: the changed item is pending afterwards.
LEMMA ItemChangeStep ==
  ASSUME IInv, areaAlive, NEW k \in Keys, NEW v \in Values \cup {Null},
         NEW o \in OpenAndImport, Imported(o),
         storageMap' = [o.map EXCEPT ![k] = v], ItemDidChange(k, v)
  PROVE  IInv'
<1>1. /\ o.open \in BOOLEAN
      /\ o.failed \in BOOLEAN
      /\ o.map \in Maps
      /\ o.file \in Files
      /\ ~o.file.exists => o.file.table = Empty
      /\ ~CanFail => /\ o.file.table = file.table
                     /\ o.map = Written(file.table, shouldClearItems, changedItems)
  BY ImportOutcome
<1>2. TypeOK'
  BY <1>1, SMTT(30) DEF IInv, TypeOK, Imported, ItemDidChange, ScheduleDatabaseUpdate, Maps, Files
<1>3. MemoryIsDiskPlusPending'
  <2> SUFFICES ASSUME ~CanFail
               PROVE  storageMap' = Written(file'.table, shouldClearItems', changedItems')
    BY DEF MemoryIsDiskPlusPending
  <2>1. /\ file.table \in Maps
        /\ shouldClearItems \in BOOLEAN
        /\ changedItems \in [Keys -> Values \cup {Null, NoChange}]
    BY DEF IInv, TypeOK
  <2>2. /\ file'.table = file.table
        /\ shouldClearItems' = shouldClearItems
        /\ changedItems' = [changedItems EXCEPT ![k] = v]
    BY <1>1 DEF Imported, ItemDidChange
  <2>3. storageMap' = [Written(file.table, shouldClearItems, changedItems) EXCEPT ![k] = v]
    BY <1>1
  <2>4. Written(file.table, shouldClearItems, [changedItems EXCEPT ![k] = v])
          = [Written(file.table, shouldClearItems, changedItems) EXCEPT ![k] = v]
    BY <2>1, NoChangeAssumption DEF Written
  <2> QED
    BY <2>2, <2>3, <2>4
<1>4. k \in ChangedKeys'
  BY NoChangeAssumption DEF IInv, TypeOK, ChangedKeys, ItemDidChange
<1>5. PendingChangesAreScheduled' /\ ClearIsScheduled' /\ ScheduledToWrite'
  BY <1>4, Scheduled
  DEF IInv, PendingChangesAreScheduled, ClearIsScheduled, ScheduledToWrite,
      Imported, ItemDidChange
<1>6. Idle'
  BY <1>1 DEF Idle, Imported
<1> QED
  BY <1>2, <1>3, <1>5, <1>6 DEF IInv

\* clear: the clear is pending afterwards, and nothing else.
LEMMA ClearStep == IInv /\ Clear => IInv'
<1> SUFFICES ASSUME IInv, Clear PROVE IInv'
  OBVIOUS
<1>1. PICK o \in OpenAndImport : Imported(o)
  BY DEF Clear
<1>2. /\ o.open \in BOOLEAN
      /\ o.failed \in BOOLEAN
      /\ o.file \in Files
      /\ ~o.file.exists => o.file.table = Empty
  BY <1>1, ImportOutcome
<1>3. TypeOK'
  BY <1>1, <1>2, ConstantTypes, SMTT(30)
  DEF IInv, TypeOK, Clear, Imported, ClearItems, ScheduleDatabaseUpdate, Files
<1>4. MemoryIsDiskPlusPending'
  BY <1>3, WrittenClear DEF MemoryIsDiskPlusPending, TypeOK, Clear, ClearItems
<1>5. ChangedKeys' = {}
  BY DEF Clear, ClearItems, ChangedKeys, NoChanges
<1>6. PendingChangesAreScheduled' /\ ClearIsScheduled' /\ ScheduledToWrite'
  BY <1>1, <1>5, Scheduled
  DEF IInv, PendingChangesAreScheduled, ClearIsScheduled, ScheduledToWrite,
      Clear, Imported, ClearItems
<1>7. Idle'
  BY <1>1, <1>2 DEF Idle, Clear, Imported
<1> QED
  BY <1>3, <1>4, <1>6, <1>7 DEF IInv

\* An update that writes everything leaves nothing pending.
LEMMA UpdateAllStep == IInv /\ UpdateAll => IInv'
<1> SUFFICES ASSUME IInv, UpdateAll PROVE IInv'
  OBVIOUS
<1>1. PICK w \in UpdateWithChangedItems(changedItems) :
        /\ isOpen' = w.open
        /\ failedToOpen' = w.failed
        /\ shouldClearItems' = w.clear
        /\ file' = w.file
  BY DEF UpdateAll
<1>2. /\ w.open \in BOOLEAN
      /\ w.failed \in BOOLEAN
      /\ w.clear \in BOOLEAN
      /\ w.file \in Files
      /\ ~w.file.exists => w.file.table = Empty
      /\ ~CanFail => /\ w.clear = FALSE
                     /\ w.file.table = Written(file.table, shouldClearItems, changedItems)
  BY <1>1, WriteOutcome DEF IInv, TypeOK
<1>3. timers = 1 /\ didScheduleUpdate /\ hasDatabase
  BY SMTT(30) DEF IInv, TypeOK, PendingChangesAreScheduled, UpdateAll
<1>4. TypeOK'
  <2>1. /\ changedItems' = NoChanges
        /\ didScheduleUpdate' = FALSE
        /\ timers' = 0
        /\ terminationDisabled' = FALSE
        /\ UNCHANGED <<areaVars, staleTimer>>
    BY <1>3, SMTT(30) DEF UpdateAll
  <2> QED
    BY <1>1, <1>2, <2>1, ConstantTypes DEF IInv, TypeOK, areaVars, Files
<1>5. MemoryIsDiskPlusPending'
  <2> SUFFICES ASSUME ~CanFail, didImportItems
               PROVE  storageMap' = Written(file'.table, shouldClearItems', changedItems')
    BY DEF MemoryIsDiskPlusPending, UpdateAll, areaVars
  <2>1. Written(file'.table, shouldClearItems', changedItems') = file'.table
    BY <1>1, <1>2, <1>4, WrittenNothing DEF UpdateAll, TypeOK
  <2> QED
    BY <1>1, <1>2, <2>1 DEF IInv, MemoryIsDiskPlusPending, UpdateAll, areaVars
<1>6. ChangedKeys' = {}
  BY DEF UpdateAll, ChangedKeys, NoChanges
<1>7. PendingChangesAreScheduled' /\ ClearIsScheduled' /\ ScheduledToWrite'
  BY <1>1, <1>2, <1>3, <1>6, SMTT(30)
  DEF PendingChangesAreScheduled, ClearIsScheduled, ScheduledToWrite, UpdateAll
<1>8. Idle'
  BY <1>1, <1>2, <1>3 DEF IInv, Idle, UpdateAll, areaVars
<1> QED
  BY <1>4, <1>5, <1>7, <1>8 DEF IInv

\* A batch leaves the remaining items pending, and at least one remains.
LEMMA UpdateBatchStep == IInv /\ UpdateBatch => IInv'
<1> SUFFICES ASSUME IInv, UpdateBatch PROVE IInv'
  OBVIOUS
<1>1. PICK S \in SUBSET ChangedKeys :
        /\ Cardinality(S) = maximumItemsToUpdate
        /\ changedItems' = OnlyKeys(changedItems, Keys \ S)
        /\ \E w \in UpdateWithChangedItems(OnlyKeys(changedItems, S)) :
             /\ isOpen' = w.open
             /\ failedToOpen' = w.failed
             /\ shouldClearItems' = w.clear
             /\ file' = w.file
  BY DEF UpdateBatch
<1>2. PICK w \in UpdateWithChangedItems(OnlyKeys(changedItems, S)) :
        /\ isOpen' = w.open
        /\ failedToOpen' = w.failed
        /\ shouldClearItems' = w.clear
        /\ file' = w.file
  BY <1>1
<1>3. S \in SUBSET Keys
  BY <1>1 DEF ChangedKeys
<1>4. /\ OnlyKeys(changedItems, S) \in [Keys -> Values \cup {Null, NoChange}]
      /\ OnlyKeys(changedItems, Keys \ S) \in [Keys -> Values \cup {Null, NoChange}]
  BY <1>3 DEF OnlyKeys, IInv, TypeOK
<1>5. /\ w.open \in BOOLEAN
      /\ w.failed \in BOOLEAN
      /\ w.clear \in BOOLEAN
      /\ w.file \in Files
      /\ ~w.file.exists => w.file.table = Empty
      /\ ~CanFail => /\ w.clear = FALSE
                     /\ w.file.table = Written(file.table, shouldClearItems,
                                                OnlyKeys(changedItems, S))
  BY <1>2, <1>4, WriteOutcome DEF IInv
<1>6. timers = 1 /\ didScheduleUpdate /\ hasDatabase
  BY SMTT(30) DEF IInv, TypeOK, PendingChangesAreScheduled, UpdateBatch
<1>7. TypeOK'
  <2>1. /\ didScheduleUpdate' = TRUE
        /\ timers' = 1
        /\ terminationDisabled' = TRUE
        /\ UNCHANGED <<areaVars, staleTimer>>
    BY <1>6, SMTT(30) DEF UpdateBatch
  <2> QED
    BY <1>1, <1>2, <1>4, <1>5, <2>1 DEF IInv, TypeOK, areaVars, Files
<1>8. MemoryIsDiskPlusPending'
  <2> SUFFICES ASSUME ~CanFail, didImportItems
               PROVE  storageMap' = Written(file'.table, shouldClearItems', changedItems')
    BY DEF MemoryIsDiskPlusPending, UpdateBatch, areaVars
  <2>1. /\ file.table \in Maps
        /\ shouldClearItems \in BOOLEAN
        /\ changedItems \in [Keys -> Values \cup {Null, NoChange}]
    BY DEF IInv, TypeOK
  <2>2. Written(Written(file.table, shouldClearItems, OnlyKeys(changedItems, S)),
                FALSE, OnlyKeys(changedItems, Keys \ S))
          = Written(file.table, shouldClearItems, changedItems)
    BY <1>3, <2>1, NoChangeAssumption DEF Written, OnlyKeys
  <2> QED
    BY <1>1, <1>2, <1>5, <2>2 DEF IInv, MemoryIsDiskPlusPending, UpdateBatch, areaVars
<1>9. ChangedKeys' # {}
  <2>1. PICK k \in ChangedKeys : k \notin S
    <3>1. Cardinality(S) # Cardinality(ChangedKeys)
      BY <1>1, BatchAssumption, SMTT(30) DEF UpdateBatch
    <3> QED
      BY <1>1, <3>1, SMTT(30)
  <2> QED
    BY <1>1, <2>1 DEF ChangedKeys, OnlyKeys
<1>10. PendingChangesAreScheduled' /\ ClearIsScheduled' /\ ScheduledToWrite'
  BY <1>6, <1>9, SMTT(30)
  DEF PendingChangesAreScheduled, ClearIsScheduled, ScheduledToWrite, UpdateBatch,
      areaVars
<1>11. Idle'
  BY <1>2, <1>5, <1>6 DEF IInv, Idle, UpdateBatch, areaVars
<1> QED
  BY <1>7, <1>8, <1>10, <1>11 DEF IInv

\* The process ending while a write is under way leaves the items of the file
\* as they were, or none if a clear was pending.
LEMMA CutShortOutcome ==
  ASSUME IInv, NEW f \in CutShort
  PROVE  /\ f \in Files
         /\ ~f.exists => f.table = Empty
         /\ ~CanFail => f.table = file.table \/ (shouldClearItems /\ f.table = Empty)
         /\ shouldClearItems \/ ChangedKeys # {}
<1>1. didScheduleUpdate
  BY DEF CutShort
<1>2. PICK o \in OpenIfNeeded :
        f = o.file \/ (shouldClearItems /\ f = File(Empty, o.file.legacy))
  <2>1. PICK o \in OpenIfNeeded :
          f \in {o.file} \cup (IF shouldClearItems /\ o.open
                               THEN {File(Empty, o.file.legacy)} ELSE {})
    BY <1>1 DEF CutShort
  <2>2. CASE shouldClearItems /\ o.open
    BY <2>1, <2>2
  <2>3. CASE ~(shouldClearItems /\ o.open)
    BY <2>1, <2>3
  <2> QED
    BY <2>2, <2>3
<1>3. /\ o.file \in Files
      /\ ~o.file.exists => o.file.table = Empty
      /\ ~CanFail => o.file.table = file.table
  BY <1>2, OpenIfNeededOutcome DEF IInv
<1>4. shouldClearItems \/ ChangedKeys # {}
  BY <1>1 DEF IInv, ScheduledToWrite
<1>5. CASE f = o.file
  BY <1>3, <1>4, <1>5
<1>6. CASE shouldClearItems /\ f = File(Empty, o.file.legacy)
  BY <1>3, <1>4, <1>6, ConstantTypes DEF File, Files
<1> QED
  BY <1>2, <1>5, <1>6

\* A step after which the area has no LocalStorageDatabase.
LEMMA DatabaseGoneStep ==
  ASSUME DatabaseGone, storageMap' = Empty, staleTimer' \in BOOLEAN,
         areaAlive' \in BOOLEAN, didImportItems' \in BOOLEAN,
         didImportItems' => areaAlive',
         file' \in Files, ~file'.exists => file'.table = Empty,
         ~CanFail /\ didImportItems' => file'.table = Empty
  PROVE  IInv'
<1>1. TypeOK'
  BY ConstantTypes DEF TypeOK, DatabaseGone, Files
<1>2. ChangedKeys' = {}
  BY DEF DatabaseGone, ChangedKeys, NoChanges
<1>3. Written(Empty, FALSE, NoChanges) = Empty
  BY ConstantTypes, WrittenNothing
<1>4. MemoryIsDiskPlusPending'
  BY <1>3 DEF DatabaseGone, MemoryIsDiskPlusPending
<1> QED
  BY <1>1, <1>2, <1>4
  DEF IInv, PendingChangesAreScheduled, Idle, ClearIsScheduled, ScheduledToWrite,
      DatabaseGone

\* Destroying the area.
LEMMA DestroyAreaStep == IInv /\ DestroyArea => IInv'
<1> SUFFICES ASSUME IInv, DestroyArea PROVE IInv'
  OBVIOUS
<1>1. file' \in Files /\ (~file'.exists => file'.table = Empty)
  BY CloseOutcome DEF DestroyArea
<1>2. staleTimer' \in BOOLEAN
  BY DEF DestroyArea
<1> QED
  BY <1>1, <1>2, DatabaseGoneStep DEF DestroyArea

\* Deleting the entries of the origin.
LEMMA DeleteEntriesStep == IInv /\ DeleteEntries => IInv'
<1> SUFFICES ASSUME IInv, DeleteEntries PROVE IInv'
  OBVIOUS
<1>1. file' = NoFile \/ (CanFail /\ file' \in Close)
  <2>1. file' \in {NoFile} \cup (IF CanFail THEN Close ELSE {})
    BY DEF DeleteEntries
  <2>2. CASE CanFail
    BY <2>1, <2>2
  <2>3. CASE ~CanFail
    BY <2>1, <2>3
  <2> QED
    BY <2>2, <2>3
<1>2. /\ file' \in Files
      /\ ~file'.exists => file'.table = Empty
      /\ ~CanFail => file'.table = Empty
  BY <1>1, CloseOutcome, NoFileFields
<1>3. staleTimer' \in BOOLEAN
  BY DEF DeleteEntries
<1>4. /\ areaAlive' \in BOOLEAN
      /\ didImportItems' \in BOOLEAN
      /\ didImportItems' => areaAlive'
  BY DEF DeleteEntries, IInv, TypeOK, Idle
<1> QED
  BY <1>2, <1>3, <1>4, DatabaseGoneStep DEF DeleteEntries

\* A crash.
LEMMA CrashStep == IInv /\ Crash => IInv'
<1> SUFFICES ASSUME IInv, Crash PROVE IInv'
  OBVIOUS
<1>1. file' \in Files /\ (~file'.exists => file'.table = Empty)
  BY CutShortOutcome DEF Crash, IInv, TypeOK, Idle, Files
<1> QED
  BY <1>1, DatabaseGoneStep DEF Crash

\* The steps that touch neither the database nor the file.
LEMMA OtherSteps ==
  IInv /\ (CreateArea \/ UpdateClosed \/ UNCHANGED vars) => IInv'
<1> SUFFICES ASSUME IInv, CreateArea \/ UpdateClosed \/ UNCHANGED vars PROVE IInv'
  OBVIOUS
<1> USE DEF IInv, TypeOK, PendingChangesAreScheduled, MemoryIsDiskPlusPending, Idle,
            ClearIsScheduled, ScheduledToWrite, ChangedKeys, updateVars
<1>1. CASE CreateArea
  BY <1>1, ConstantTypes DEF CreateArea
<1>2. CASE UpdateClosed
  BY <1>2 DEF UpdateClosed, areaVars
<1>3. CASE UNCHANGED vars
  BY <1>3 DEF vars
<1> QED
  BY <1>1, <1>2, <1>3

\* Every step preserves the invariant.
LEMMA NextInv == IInv /\ [Next]_vars => IInv'
<1> SUFFICES ASSUME IInv, [Next]_vars PROVE IInv'
  OBVIOUS
<1>1. ASSUME NEW k \in Keys, NEW v \in Values, SetItem(k, v) PROVE IInv'
  BY <1>1, ItemChangeStep DEF SetItem
<1>2. ASSUME NEW k \in Keys, RemoveItem(k) PROVE IInv'
  BY <1>2, ItemChangeStep DEF RemoveItem
<1> QED
  BY <1>1, <1>2, ItemsStep, ClearStep, UpdateAllStep, UpdateBatchStep,
     DestroyAreaStep, DeleteEntriesStep, CrashStep, OtherSteps
  DEF Next, AreaOperation

\* The invariant holds throughout.
THEOREM Invariance == Spec => []IInv
BY InitInv, NextInv, PTL DEF Spec

\* The members of the area and of its database keep their types.
THEOREM TypeCorrect == Spec => []TypeOK
BY Invariance, PTL DEF IInv

\* scheduleDatabaseUpdate and updateDatabase: exactly one callback is under
\* way whenever changes are pending, also when SQLite fails.
THEOREM SchedulingCorrect == Spec => []PendingChangesAreScheduled
BY Invariance, PTL DEF IInv

\* Memory equals disk plus pending changes, unless SQLite fails.
THEOREM WriteBehindCorrect == Spec => []MemoryIsDiskPlusPending
BY Invariance, PTL DEF IInv
-----------------------------------------------------------------------------
\* One step of FileCreatedOnlyToWrite.
LEMMA FileCreatedStep ==
  ASSUME IInv, [Next]_vars, file'.exists, ~file.exists
  PROVE  shouldClearItems \/ ChangedKeys # {}
<1>1. ASSUME NEW o \in OpenAndImport, Imported(o) PROVE FALSE
  BY <1>1, ImportOutcome DEF Imported
<1>2. CASE Items \/ Clear \/ (\E k \in Keys, v \in Values : SetItem(k, v))
           \/ (\E k \in Keys : RemoveItem(k))
  BY <1>1, <1>2 DEF Items, Clear, SetItem, RemoveItem
<1>3. CASE UpdateAll \/ UpdateBatch
  <2>1. timers > 0
    BY <1>3 DEF UpdateAll, UpdateBatch
  <2> QED
    BY <2>1, SMTT(30) DEF IInv, TypeOK, PendingChangesAreScheduled, ScheduledToWrite
<1>4. CASE CreateArea \/ UpdateClosed \/ UNCHANGED vars
  BY <1>4 DEF CreateArea, UpdateClosed, vars
<1>5. CASE DestroyArea
  BY <1>5, CloseOutcome DEF DestroyArea
<1>6. CASE DeleteEntries
  <2>1. file' = NoFile \/ file' \in Close
    BY <1>6 DEF DeleteEntries
  <2> QED
    BY <2>1, CloseOutcome, NoFileFields
<1>7. CASE Crash
  BY <1>7, CutShortOutcome DEF Crash
<1> QED
  BY <1>2, <1>3, <1>4, <1>5, <1>6, <1>7 DEF Next, AreaOperation

\* importItems, updateDatabase and close: a file is created only to hold
\* pending changes.
THEOREM NoEmptyFiles == Spec => FileCreatedOnlyToWrite
<1>1. IInv /\ [Next]_vars
        => [file'.exists /\ ~file.exists => shouldClearItems \/ ChangedKeys # {}]_vars
  BY FileCreatedStep
<1> QED
  BY <1>1, Invariance, PTL DEF Spec, FileCreatedOnlyToWrite
-----------------------------------------------------------------------------
(* The refinement of DurableMap, for an SQLite that does not fail.         *)

\* What clients see is the file with the pending changes.
LEMMA ContentsIsWritten ==
  ASSUME IInv, ~CanFail
  PROVE  /\ Contents = Written(file.table, shouldClearItems, changedItems)
         /\ Contents \in Maps
         /\ file.table \in Maps
<1>1. CASE didImportItems
  BY <1>1 DEF Contents, IInv, MemoryIsDiskPlusPending, TypeOK
<1>2. CASE ~didImportItems
  <2>1. /\ file.table \in Maps
        /\ shouldClearItems = FALSE
        /\ changedItems = NoChanges
    BY <1>2 DEF IInv, Idle, TypeOK
  <2> QED
    BY <1>2, <2>1, WrittenNothing DEF Contents
<1> QED
  BY <1>1, <1>2

\* A step that keeps the contents and writes pending changes is a Flush.
LEMMA FlushStep ==
  ASSUME IInv, IInv', ~CanFail, Contents' = Contents,
         \A k \in Keys : \/ file'.table[k] = file.table[k]
                         \/ file'.table[k] = Contents[k]
                         \/ (shouldClearItems /\ file'.table[k] = Null),
         shouldClearItems' => shouldClearItems
  PROVE  Durable!Flush
<1>1. ASSUME NEW k \in Keys
      PROVE  /\ Contents'[k] \in Survivors'[k]
             /\ Survivors'[k] \subseteq Survivors[k] \cup {Contents'[k]}
  BY DEF Survivors
<1> QED
  BY <1>1 DEF Durable!Flush, Durable!SurvivorsFollow

\* The initial states are those of a durable map.
LEMMA DurableInit ==
  ASSUME Init, ~CanFail
  PROVE  Durable!Init
<1>1. IInv /\ shouldClearItems = FALSE /\ Contents = file.table
  BY InitInv DEF Init, Contents
<1>2. Contents \in Durable!Maps
  BY <1>1, ContentsIsWritten DEF Maps, Durable!Maps
<1>3. Survivors = [k \in Keys |-> {Contents[k]}]
  BY <1>1 DEF Survivors
<1> QED
  BY <1>2, <1>3 DEF Durable!Init

\* setItem and removeItem change one key of the durable map.
LEMMA DurableChange ==
  ASSUME IInv, IInv', ~CanFail, NEW k \in Keys, NEW v \in Values \cup {Null},
         NEW o \in OpenAndImport, Imported(o),
         storageMap' = [o.map EXCEPT ![k] = v], ItemDidChange(k, v)
  PROVE  Durable!Change
<1>1. /\ o.file.table = file.table
      /\ o.map = Contents
  BY ImportOutcome, ContentsIsWritten
<1>2. /\ Contents' = [Contents EXCEPT ![k] = v]
      /\ file'.table = file.table
      /\ shouldClearItems' = shouldClearItems
  BY <1>1 DEF Contents, Imported, ItemDidChange
<1>3. ASSUME NEW j \in Keys
      PROVE  /\ Contents'[j] \in Survivors'[j]
             /\ Survivors'[j] \subseteq Survivors[j] \cup {Contents'[j]}
  BY <1>2, SMTT(30) DEF Survivors
<1> QED
  BY <1>2, <1>3 DEF Durable!Change, Durable!SurvivorsFollow

\* clear empties the durable map.
LEMMA DurableClear ==
  ASSUME IInv, IInv', ~CanFail, Clear
  PROVE  Durable!Clear
<1>1. PICK o \in OpenAndImport : Imported(o)
  BY DEF Clear
<1>2. file'.table = file.table
  BY <1>1, ImportOutcome DEF Imported
<1>3. Contents' = Empty
  BY <1>1 DEF Contents, Clear, Imported
<1>4. ASSUME NEW j \in Keys
      PROVE  /\ Contents'[j] \in Survivors'[j]
             /\ Survivors'[j] \subseteq Survivors[j] \cup {Contents'[j]}
  BY <1>2, <1>3 DEF Survivors, Empty
<1> QED
  BY <1>3, <1>4 DEF Durable!Clear, Durable!SurvivorsFollow, Durable!Empty, Empty

\* Importing and creating the area change nothing.
LEMMA DurableStutter ==
  ASSUME IInv, IInv', ~CanFail, Items \/ CreateArea \/ UpdateClosed \/ UNCHANGED vars
  PROVE  UNCHANGED <<Contents, Survivors>>
<1>1. CASE Items
  <2>1. PICK o \in OpenAndImport : Imported(o) /\ storageMap' = o.map
    BY <1>1 DEF Items
  <2>2. /\ o.file.table = file.table
        /\ o.map = Contents
    BY <2>1, ImportOutcome, ContentsIsWritten
  <2>3. Contents' = Contents
    BY <2>1, <2>2 DEF Contents, Imported
  <2>4. file'.table = file.table /\ shouldClearItems' = shouldClearItems
    BY <1>1, <2>1, <2>2 DEF Items, Imported, updateVars
  <2> QED
    BY <2>3, <2>4 DEF Survivors
<1>2. CASE CreateArea
  <2>1. ~didImportItems /\ ~didImportItems'
    BY <1>2 DEF CreateArea, IInv, Idle
  <2> QED
    BY <1>2, <2>1 DEF CreateArea, Contents, Survivors, updateVars
<1>3. CASE UpdateClosed
  BY <1>3 DEF UpdateClosed, Contents, Survivors, areaVars, updateVars
<1>4. CASE UNCHANGED vars
  BY <1>4 DEF vars, Contents, Survivors
<1> QED
  BY <1>1, <1>2, <1>3, <1>4

\* A database update flushes the durable map.
LEMMA DurableUpdate ==
  ASSUME IInv, IInv', ~CanFail, UpdateAll \/ UpdateBatch
  PROVE  Durable!Flush
<1>1. PICK S \in SUBSET Keys :
        \E w \in UpdateWithChangedItems(OnlyKeys(changedItems, S)) :
          shouldClearItems' = w.clear /\ file' = w.file
  <2>1. CASE UpdateAll
    <3>1. OnlyKeys(changedItems, Keys) = changedItems
      BY DEF OnlyKeys, IInv, TypeOK
    <3> QED
      BY <2>1, <3>1 DEF UpdateAll
  <2>2. CASE UpdateBatch
    BY <2>2 DEF UpdateBatch, ChangedKeys
  <2> QED
    BY <2>1, <2>2
<1>2. PICK w \in UpdateWithChangedItems(OnlyKeys(changedItems, S)) :
        shouldClearItems' = w.clear /\ file' = w.file
  BY <1>1
<1>3. OnlyKeys(changedItems, S) \in [Keys -> Values \cup {Null, NoChange}]
  BY DEF OnlyKeys, IInv, TypeOK
<1>4. /\ shouldClearItems' = FALSE
      /\ file'.table = Written(file.table, shouldClearItems, OnlyKeys(changedItems, S))
  BY <1>2, <1>3, WriteOutcome DEF IInv
<1>5. UNCHANGED areaVars
  BY DEF UpdateAll, UpdateBatch
<1>6. didImportItems
  BY SMTT(30) DEF UpdateAll, UpdateBatch, IInv, TypeOK, PendingChangesAreScheduled, Idle
<1>7. Contents' = Contents
  BY <1>5, <1>6 DEF Contents, areaVars
<1>8. Contents = Written(file.table, shouldClearItems, changedItems)
  BY ContentsIsWritten
<1>9. ASSUME NEW k \in Keys
      PROVE  \/ file'.table[k] = file.table[k]
             \/ file'.table[k] = Contents[k]
             \/ (shouldClearItems /\ file'.table[k] = Null)
  BY <1>4, <1>8 DEF Written, OnlyKeys
<1> QED
  BY <1>4, <1>7, <1>9, FlushStep

\* Destroying the area flushes the durable map: close() loses nothing.
LEMMA DurableDestroy ==
  ASSUME IInv, IInv', ~CanFail, DestroyArea
  PROVE  Durable!Flush
<1>1. file'.table = Contents
  BY CloseOutcome, ContentsIsWritten DEF DestroyArea
<1>2. Contents' = Contents /\ shouldClearItems' = FALSE
  BY <1>1 DEF Contents, DestroyArea, DatabaseGone
<1> QED
  BY <1>1, <1>2, FlushStep

\* Deleting the entries deletes the durable map's items for good.
LEMMA DurableDelete ==
  ASSUME IInv, IInv', ~CanFail, DeleteEntries
  PROVE  Durable!Delete
<1>1. file' = NoFile
  BY DEF DeleteEntries
<1>2. Contents' = Empty /\ file'.table = Empty /\ shouldClearItems' = FALSE
  BY <1>1, NoFileFields DEF Contents, DeleteEntries, DatabaseGone
<1>3. Survivors' = [k \in Keys |-> {Null}]
  BY <1>2 DEF Survivors, Empty
<1> QED
  BY <1>2, <1>3 DEF Durable!Delete, Durable!Empty, Empty

\* A crash sets keys back to surviving values.
LEMMA DurableCrash ==
  ASSUME IInv, IInv', ~CanFail, Crash
  PROVE  Durable!Crash
<1>1. \/ file'.table = file.table
      \/ (shouldClearItems /\ file'.table = Empty)
  BY CutShortOutcome DEF Crash
<1>2. Contents' = file'.table /\ shouldClearItems' = FALSE
  BY DEF Contents, Crash, DatabaseGone
<1>3. \A k \in Keys : Contents'[k] \in Survivors[k]
  BY <1>1, <1>2 DEF Survivors, Empty
<1>4. Survivors' = [k \in Keys |-> {Contents'[k]}]
  BY <1>2 DEF Survivors
<1>5. Contents' \in Durable!Maps
  BY <1>2 DEF IInv, TypeOK, Maps, Durable!Maps
<1> QED
  BY <1>3, <1>4, <1>5 DEF Durable!Crash, Crash

\* LocalStorageDatabase implements the durable map: close() writes all
\* pending changes, and a crash loses no more than the pending ones.
THEOREM Refinement == ~CanFail => (Spec => ImplementsDurableMap)
<1> SUFFICES ASSUME ~CanFail PROVE Spec => ImplementsDurableMap
  OBVIOUS
<1>1. Init => Durable!Init
  BY DurableInit
<1>2. IInv /\ IInv' /\ [Next]_vars => [Durable!Next]_(Durable!vars)
  <2> SUFFICES ASSUME IInv, IInv', [Next]_vars
               PROVE  Durable!Next \/ UNCHANGED <<Contents, Survivors>>
    BY DEF Durable!vars
  <2>1. ASSUME NEW k \in Keys, NEW v \in Values, SetItem(k, v) PROVE Durable!Change
    BY <2>1, DurableChange DEF SetItem
  <2>2. ASSUME NEW k \in Keys, RemoveItem(k) PROVE Durable!Change
    BY <2>2, DurableChange DEF RemoveItem
  <2> QED
    BY <2>1, <2>2, DurableClear, DurableStutter, DurableUpdate, DurableDestroy,
       DurableDelete, DurableCrash
    DEF Next, AreaOperation, Durable!Next
<1> QED
  BY <1>1, <1>2, Invariance, PTL DEF Spec, ImplementsDurableMap, Durable!Spec

\* Nothing but the end of the process loses anything, closing and destroying
\* the area included.
THEOREM LossOnlyByCrash == ~CanFail => (Spec => OnlyCrashLoses)
<1> SUFFICES ASSUME ~CanFail PROVE Spec => OnlyCrashLoses
  OBVIOUS
<1>1. IInv /\ IInv' /\ [Next]_vars =>
        [~Crash => Durable!Change \/ Durable!Clear \/ Durable!Delete \/ Durable!Flush]_vars
  <2> SUFFICES ASSUME IInv, IInv', Next, ~Crash
               PROVE  Durable!Change \/ Durable!Clear \/ Durable!Delete \/ Durable!Flush
    OBVIOUS
  <2>1. ASSUME NEW k \in Keys, NEW v \in Values, SetItem(k, v) PROVE Durable!Change
    BY <2>1, DurableChange DEF SetItem
  <2>2. ASSUME NEW k \in Keys, RemoveItem(k) PROVE Durable!Change
    BY <2>2, DurableChange DEF RemoveItem
  <2>3. ASSUME UNCHANGED <<Contents, Survivors>> PROVE Durable!Flush
    BY <2>3 DEF Durable!Flush, Durable!SurvivorsFollow, Survivors
  <2> QED
    BY <2>1, <2>2, <2>3, DurableClear, DurableStutter, DurableUpdate, DurableDestroy,
       DurableDelete
    DEF Next, AreaOperation
<1> QED
  BY <1>1, Invariance, PTL DEF Spec, OnlyCrashLoses

-----------------------------------------------------------------------------
(***************************************************************************)
(* LocalStorageDatabaseTracker.                                            *)
(***************************************************************************)
\* How far the tracked origins may lag behind the files at each step of an
\* operation none of whose steps was refused.
Tracking ==
  /\ step \in {"idle", "remove"} => files \subseteq origins /\ origins = rows
  /\ step = "import" => files \ todo \subseteq origins /\ origins = rows
  /\ step = "add" => files \ {origin} \subseteq origins /\ origins = rows
  /\ step = "unlink" => files \subseteq origins /\ rows = origins \ {origin}
  /\ step = "forget" => files \subseteq rows /\ rows = origins \ {origin}
  /\ step = "deleteFiles" => files \subseteq todo /\ origins = {}

\* What an operation in progress may rely on.
Shape ==
  /\ trackerIsOpen => trackerExists
  /\ step = "down" => ~trackerIsOpen /\ connected = {}
  /\ step = "import" => connected = {}
  /\ step = "add" => origin \in Origins
  /\ step = "deleteFiles" => connected = {} /\ trackerIsOpen
  /\ step \in {"remove", "unlink", "forget"} => origin \in Origins /\ origin \notin connected
  /\ step \in {"unlink", "forget"} => trackerIsOpen
  /\ connected \subseteq files

\* The inductive invariant.
TrackerInv == TrackerTypeOK /\ Shape /\ (~faulted => Tracking)

LEMMA InitTrackerInv == TrackerInit => TrackerInv
  BY OriginsAssumption DEF TrackerInit, TrackerInv, TrackerTypeOK, Shape, Tracking, Done, Task, Steps

LEMMA ImportKeeps == TrackerInv /\ Import => TrackerInv'
<1> SUFFICES ASSUME TrackerInv, Import PROVE TrackerInv'
  OBVIOUS
<1>1. TrackerTypeOK'
  BY OriginsAssumption, TrackerCanFailAssumption
     DEF Import, OpenTrackerDatabase, Outcomes, TrackerInv, TrackerTypeOK, Shape, Done, Task, Steps
<1>2. Shape'
  BY OriginsAssumption, TrackerCanFailAssumption
     DEF Import, OpenTrackerDatabase, Outcomes, TrackerInv, TrackerTypeOK, Shape, Done, Task, Steps
<1>3. ~faulted' => Tracking'
  BY OriginsAssumption, TrackerCanFailAssumption
     DEF Import, OpenTrackerDatabase, Outcomes, TrackerInv, TrackerTypeOK, Shape, Tracking, Done, Task, Steps
<1> QED
  BY <1>1, <1>2, <1>3 DEF TrackerInv

LEMMA TrackerCrashKeeps == TrackerInv /\ TrackerCrash => TrackerInv'
<1> SUFFICES ASSUME TrackerInv, TrackerCrash PROVE TrackerInv'
  OBVIOUS
<1>1. TrackerTypeOK'
  BY OriginsAssumption
     DEF TrackerCrash, TrackerInv, TrackerTypeOK, Shape, Done, Task, Steps
<1>2. Shape'
  BY OriginsAssumption
     DEF TrackerCrash, TrackerInv, TrackerTypeOK, Shape, Done, Task, Steps
<1>3. ~faulted' => Tracking'
  BY OriginsAssumption
     DEF TrackerCrash, TrackerInv, TrackerTypeOK, Shape, Tracking, Done, Task, Steps
<1> QED
  BY <1>1, <1>2, <1>3 DEF TrackerInv

\* A row was inserted for o, and m_origins has it, unless a step was refused.
LEMMA AddDatabaseAdds ==
  ASSUME TrackerInv, NEW o \in Origins, AddDatabase(o), ~faulted'
  PROVE  origins' = origins \cup {o} /\ rows' = rows \cup {o} /\ ~faulted
  BY TrackerCanFailAssumption DEF AddDatabase, OpenTrackerDatabase, Outcomes, TrackerInv, TrackerTypeOK

LEMMA ImportFileKeeps == TrackerInv /\ ImportFile => TrackerInv'
<1> SUFFICES ASSUME TrackerInv, ImportFile PROVE TrackerInv'
  OBVIOUS
<1>1. TrackerTypeOK'
  BY OriginsAssumption, TrackerCanFailAssumption
     DEF ImportFile, AddDatabase, OpenTrackerDatabase, Outcomes, TrackerInv, TrackerTypeOK, Shape, Task, Steps
<1>2. Shape'
  BY OriginsAssumption, TrackerCanFailAssumption
     DEF ImportFile, AddDatabase, OpenTrackerDatabase, Outcomes, TrackerInv, TrackerTypeOK, Shape, Task, Steps
<1>3. ~faulted' => Tracking'
  <2> SUFFICES ASSUME ~faulted' PROVE Tracking'
    OBVIOUS
  <2>1. PICK o \in todo :
          /\ Task("import", NoOrigin, todo \ {o})
          /\ IF o \in origins THEN UNCHANGED <<trackerIsOpen, trackerExists, origins, rows, faulted>>
             ELSE AddDatabase(o)
    BY DEF ImportFile
  <2>2. step = "import" /\ step' = "import" /\ todo' = todo \ {o} /\ files' = files
    BY <2>1 DEF ImportFile, Task
  <2>3. CASE o \in origins
    BY <2>1, <2>2, <2>3, SMTT(30) DEF TrackerInv, Tracking
  <2>4. CASE o \notin origins
    <3>1. origins' = origins \cup {o} /\ rows' = rows \cup {o} /\ ~faulted
      BY <2>1, <2>4, AddDatabaseAdds DEF TrackerInv, TrackerTypeOK
    <3> QED
      BY <2>2, <3>1 DEF TrackerInv, Tracking
  <2> QED
    BY <2>3, <2>4
<1> QED
  BY <1>1, <1>2, <1>3 DEF TrackerInv

LEMMA ImportDoneKeeps == TrackerInv /\ ImportDone => TrackerInv'
<1> SUFFICES ASSUME TrackerInv, ImportDone PROVE TrackerInv'
  OBVIOUS
<1>1. TrackerTypeOK'
  BY OriginsAssumption
     DEF ImportDone, TrackerInv, TrackerTypeOK, Shape, Done, Task, Steps
<1>2. Shape'
  BY OriginsAssumption
     DEF ImportDone, TrackerInv, TrackerTypeOK, Shape, Done, Task, Steps
<1>3. ~faulted' => Tracking'
  BY OriginsAssumption
     DEF ImportDone, TrackerInv, TrackerTypeOK, Shape, Tracking, Done, Task, Steps
<1> QED
  BY <1>1, <1>2, <1>3 DEF TrackerInv

LEMMA OpenOriginKeeps == TrackerInv /\ (\E o \in Origins : OpenOriginDatabase(o)) => TrackerInv'
<1> SUFFICES ASSUME TrackerInv, (\E o \in Origins : OpenOriginDatabase(o)) PROVE TrackerInv'
  OBVIOUS
<1>1. TrackerTypeOK'
  BY OriginsAssumption, SMTT(30)
     DEF OpenOriginDatabase, TrackerInv, TrackerTypeOK, Shape, Done, Task, Steps
<1>2. Shape'
  BY OriginsAssumption, SMTT(30)
     DEF OpenOriginDatabase, TrackerInv, TrackerTypeOK, Shape, Done, Task, Steps
<1>3. ~faulted' => Tracking'
  BY OriginsAssumption, SMTT(30)
     DEF OpenOriginDatabase, TrackerInv, TrackerTypeOK, Shape, Tracking, Done, Task, Steps
<1> QED
  BY <1>1, <1>2, <1>3 DEF TrackerInv

LEMMA DidOpenKeeps == TrackerInv /\ DidOpenDatabaseWithOrigin => TrackerInv'
<1> SUFFICES ASSUME TrackerInv, DidOpenDatabaseWithOrigin PROVE TrackerInv'
  OBVIOUS
<1>1. TrackerTypeOK'
  BY OriginsAssumption, TrackerCanFailAssumption
     DEF DidOpenDatabaseWithOrigin, AddDatabase, OpenTrackerDatabase, Outcomes, TrackerInv, TrackerTypeOK,
         Shape, Done, Task, Steps
<1>2. Shape'
  BY OriginsAssumption, TrackerCanFailAssumption
     DEF DidOpenDatabaseWithOrigin, AddDatabase, OpenTrackerDatabase, Outcomes, TrackerInv, TrackerTypeOK,
         Shape, Done, Task, Steps
<1>3. ~faulted' => Tracking'
  BY OriginsAssumption, TrackerCanFailAssumption
     DEF DidOpenDatabaseWithOrigin, AddDatabase, OpenTrackerDatabase, Outcomes, TrackerInv, TrackerTypeOK,
         Shape, Tracking, Done, Task, Steps
<1> QED
  BY <1>1, <1>2, <1>3 DEF TrackerInv

LEMMA CloseOriginKeeps == TrackerInv /\ (\E o \in Origins : CloseOriginDatabase(o)) => TrackerInv'
<1> SUFFICES ASSUME TrackerInv, (\E o \in Origins : CloseOriginDatabase(o)) PROVE TrackerInv'
  OBVIOUS
<1>1. TrackerTypeOK'
  BY OriginsAssumption, SMTT(30)
     DEF CloseOriginDatabase, TrackerInv, TrackerTypeOK, Shape, Done, Task, Steps
<1>2. Shape'
  BY OriginsAssumption, SMTT(30)
     DEF CloseOriginDatabase, TrackerInv, TrackerTypeOK, Shape, Done, Task, Steps
<1>3. ~faulted' => Tracking'
  BY OriginsAssumption, SMTT(30)
     DEF CloseOriginDatabase, TrackerInv, TrackerTypeOK, Shape, Tracking, Done, Task, Steps
<1> QED
  BY <1>1, <1>2, <1>3 DEF TrackerInv

LEMMA DeleteDatabaseKeeps == TrackerInv /\ (\E o \in Origins : DeleteDatabaseWithOrigin(o)) => TrackerInv'
<1> SUFFICES ASSUME TrackerInv, (\E o \in Origins : DeleteDatabaseWithOrigin(o)) PROVE TrackerInv'
  OBVIOUS
<1>1. TrackerTypeOK'
  BY OriginsAssumption, SMTT(30)
     DEF DeleteDatabaseWithOrigin, TrackerInv, TrackerTypeOK, Shape, Done, Task, Steps
<1>2. Shape'
  BY OriginsAssumption, SMTT(30)
     DEF DeleteDatabaseWithOrigin, TrackerInv, TrackerTypeOK, Shape, Done, Task, Steps
<1>3. ~faulted' => Tracking'
  BY OriginsAssumption, SMTT(30)
     DEF DeleteDatabaseWithOrigin, TrackerInv, TrackerTypeOK, Shape, Tracking, Done, Task, Steps
<1> QED
  BY <1>1, <1>2, <1>3 DEF TrackerInv

LEMMA RemoveRowKeeps == TrackerInv /\ RemoveRow => TrackerInv'
<1> SUFFICES ASSUME TrackerInv, RemoveRow PROVE TrackerInv'
  OBVIOUS
<1>1. TrackerTypeOK'
  BY OriginsAssumption, TrackerCanFailAssumption
     DEF RemoveRow, OpenTrackerDatabase, Outcomes, TrackerInv, TrackerTypeOK, Shape, Done, Task, Steps
<1>2. Shape'
  BY OriginsAssumption, TrackerCanFailAssumption
     DEF RemoveRow, OpenTrackerDatabase, Outcomes, TrackerInv, TrackerTypeOK, Shape, Done, Task, Steps
<1>3. ~faulted' => Tracking'
  BY OriginsAssumption, TrackerCanFailAssumption
     DEF RemoveRow, OpenTrackerDatabase, Outcomes, TrackerInv, TrackerTypeOK, Shape, Tracking, Done, Task,
         Steps
<1> QED
  BY <1>1, <1>2, <1>3 DEF TrackerInv

LEMMA RemoveFileKeeps == TrackerInv /\ RemoveFile => TrackerInv'
<1> SUFFICES ASSUME TrackerInv, RemoveFile PROVE TrackerInv'
  OBVIOUS
<1>1. TrackerTypeOK'
  BY OriginsAssumption, TrackerCanFailAssumption
     DEF RemoveFile, Outcomes, TrackerInv, TrackerTypeOK, Shape, Done, Task, Steps
<1>2. Shape'
  BY OriginsAssumption, TrackerCanFailAssumption
     DEF RemoveFile, Outcomes, TrackerInv, TrackerTypeOK, Shape, Done, Task, Steps
<1>3. ~faulted' => Tracking'
  BY OriginsAssumption, TrackerCanFailAssumption
     DEF RemoveFile, Outcomes, TrackerInv, TrackerTypeOK, Shape, Tracking, Done, Task, Steps
<1> QED
  BY <1>1, <1>2, <1>3 DEF TrackerInv

LEMMA ForgetOriginKeeps == TrackerInv /\ ForgetOrigin => TrackerInv'
<1> SUFFICES ASSUME TrackerInv, ForgetOrigin PROVE TrackerInv'
  OBVIOUS
<1>1. TrackerTypeOK'
  BY OriginsAssumption, TrackerCanFailAssumption
     DEF ForgetOrigin, Outcomes, TrackerInv, TrackerTypeOK, Shape, Done, Task, Steps
<1>2. Shape'
  BY OriginsAssumption, TrackerCanFailAssumption
     DEF ForgetOrigin, Outcomes, TrackerInv, TrackerTypeOK, Shape, Done, Task, Steps
<1>3. ~faulted' => Tracking'
  BY OriginsAssumption, TrackerCanFailAssumption
     DEF ForgetOrigin, Outcomes, TrackerInv, TrackerTypeOK, Shape, Tracking, Done, Task, Steps
<1> QED
  BY <1>1, <1>2, <1>3 DEF TrackerInv

LEMMA DeleteAllKeeps == TrackerInv /\ DeleteAllDatabases => TrackerInv'
<1> SUFFICES ASSUME TrackerInv, DeleteAllDatabases PROVE TrackerInv'
  OBVIOUS
<1>1. TrackerTypeOK'
  BY OriginsAssumption, TrackerCanFailAssumption
     DEF DeleteAllDatabases, OpenTrackerDatabase, Outcomes, TrackerInv, TrackerTypeOK, Shape, Done, Task,
         Steps
<1>2. Shape'
  BY OriginsAssumption, TrackerCanFailAssumption
     DEF DeleteAllDatabases, OpenTrackerDatabase, Outcomes, TrackerInv, TrackerTypeOK, Shape, Done, Task,
         Steps
<1>3. ~faulted' => Tracking'
  BY OriginsAssumption, TrackerCanFailAssumption
     DEF DeleteAllDatabases, OpenTrackerDatabase, Outcomes, TrackerInv, TrackerTypeOK, Shape, Tracking, Done,
         Task, Steps
<1> QED
  BY <1>1, <1>2, <1>3 DEF TrackerInv

LEMMA DeleteFileKeeps == TrackerInv /\ DeleteFile => TrackerInv'
<1> SUFFICES ASSUME TrackerInv, DeleteFile PROVE TrackerInv'
  OBVIOUS
<1>1. TrackerTypeOK'
  BY OriginsAssumption, TrackerCanFailAssumption
     DEF DeleteFile, Outcomes, TrackerInv, TrackerTypeOK, Shape, Done, Task, Steps
<1>2. Shape'
  BY OriginsAssumption, TrackerCanFailAssumption
     DEF DeleteFile, Outcomes, TrackerInv, TrackerTypeOK, Shape, Done, Task, Steps
<1>3. ~faulted' => Tracking'
  BY OriginsAssumption, TrackerCanFailAssumption
     DEF DeleteFile, Outcomes, TrackerInv, TrackerTypeOK, Shape, Tracking, Done, Task, Steps
<1> QED
  BY <1>1, <1>2, <1>3 DEF TrackerInv

LEMMA DeleteTrackerKeeps == TrackerInv /\ DeleteTracker => TrackerInv'
<1> SUFFICES ASSUME TrackerInv, DeleteTracker PROVE TrackerInv'
  OBVIOUS
<1>1. TrackerTypeOK'
  BY OriginsAssumption, TrackerCanFailAssumption
     DEF DeleteTracker, Outcomes, TrackerInv, TrackerTypeOK, Shape, Done, Task, Steps
<1>2. Shape'
  BY OriginsAssumption, TrackerCanFailAssumption
     DEF DeleteTracker, Outcomes, TrackerInv, TrackerTypeOK, Shape, Done, Task, Steps
<1>3. ~faulted' => Tracking'
  BY OriginsAssumption, TrackerCanFailAssumption
     DEF DeleteTracker, Outcomes, TrackerInv, TrackerTypeOK, Shape, Tracking, Done, Task, Steps
<1> QED
  BY <1>1, <1>2, <1>3 DEF TrackerInv

-----------------------------------------------------------------------------
LEMMA TrackerNextKeeps == TrackerInv /\ [TrackerNext]_trackerVars => TrackerInv'
<1>1. TrackerInv /\ UNCHANGED trackerVars => TrackerInv'
  BY SMTT(30) DEF trackerVars, TrackerInv, TrackerTypeOK, Shape, Tracking
<1> QED
  BY <1>1, ImportKeeps, TrackerCrashKeeps, ImportFileKeeps, ImportDoneKeeps, OpenOriginKeeps,
     DidOpenKeeps, CloseOriginKeeps, DeleteDatabaseKeeps, RemoveRowKeeps, RemoveFileKeeps,
     ForgetOriginKeeps, DeleteAllKeeps, DeleteFileKeeps, DeleteTrackerKeeps
     DEF TrackerNext

\* Every step of the tracker keeps the inductive invariant.
THEOREM TrackerInvariance == TrackerSpec => []TrackerInv
  BY InitTrackerInv, TrackerNextKeeps, PTL DEF TrackerSpec

\* The tracker keeps to its types: it tracks, lists and opens origins only,
\* and each step finds the state the one before it left.
THEOREM TrackerTypeCorrect == TrackerSpec => []TrackerTypeOK
<1>1. TrackerInv => TrackerTypeOK
  BY DEF TrackerInv
<1> QED
  BY <1>1, TrackerInvariance, PTL

\* Between operations every database file is tracked, after any crashes and
\* whatever was refused before the process was last started.
THEOREM TrackingCorrect == TrackerSpec => []FilesAreTracked
<1>1. TrackerInv => FilesAreTracked
  BY DEF TrackerInv, Tracking, FilesAreTracked
<1> QED
  BY <1>1, TrackerInvariance, PTL

\* The tracker database is there, with a row, for every database in use.
THEOREM TrackerPresent == TrackerSpec => []TrackerOutlivesDatabases
<1>1. TrackerInv => TrackerOutlivesDatabases
  BY DEF TrackerInv, TrackerTypeOK, Shape, Tracking, TrackerOutlivesDatabases
<1> QED
  BY <1>1, TrackerInvariance, PTL

\* An operation that deletes an origin or all of them is complete when it
\* ends without a refused step: no file, row or entry is left.
THEOREM DeletionCorrect == TrackerSpec => DeletionIsComplete
<1> DEFINE Complete ==
      step' = "idle" /\ ~faulted' =>
        /\ step \in {"remove", "unlink", "forget"} =>
             origin \notin files' \cup rows' \cup origins'
        /\ step = "deleteFiles" => files' \cup rows' \cup origins' = {}
<1>1. TrackerInv /\ [TrackerNext]_trackerVars => [Complete]_trackerVars
  <2> SUFFICES ASSUME TrackerInv, TrackerNext PROVE Complete
    OBVIOUS
  <2>1. CASE RemoveRow
    BY <2>1, TrackerCanFailAssumption
       DEF RemoveRow, OpenTrackerDatabase, Outcomes, Done, Task, TrackerInv, TrackerTypeOK, Shape, Tracking
  <2>2. CASE ForgetOrigin
    BY <2>2, TrackerCanFailAssumption
       DEF ForgetOrigin, Outcomes, Done, Task, TrackerInv, TrackerTypeOK, Shape, Tracking
  <2>3. CASE DeleteTracker
    BY <2>3, TrackerCanFailAssumption
       DEF DeleteTracker, Outcomes, Done, Task, TrackerInv, TrackerTypeOK, Shape, Tracking
  <2>4. CASE RemoveFile \/ DeleteFile \/ ImportFile \/ TrackerCrash
    BY <2>4 DEF RemoveFile, DeleteFile, ImportFile, TrackerCrash, Done, Task
  <2>5. CASE Import \/ ImportDone \/ DidOpenDatabaseWithOrigin \/ DeleteAllDatabases
    BY <2>5 DEF Import, ImportDone, DidOpenDatabaseWithOrigin, DeleteAllDatabases
  <2>6. CASE \E o \in Origins :
               OpenOriginDatabase(o) \/ CloseOriginDatabase(o) \/ DeleteDatabaseWithOrigin(o)
    BY <2>6 DEF OpenOriginDatabase, CloseOriginDatabase, DeleteDatabaseWithOrigin
  <2> QED
    BY <2>1, <2>2, <2>3, <2>4, <2>5, <2>6 DEF TrackerNext
<1> QED
  BY <1>1, TrackerInvariance, PTL DEF TrackerSpec, DeletionIsComplete
=============================================================================
