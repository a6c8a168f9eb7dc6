------------------------ MODULE LocalStorageDatabase ------------------------
(***************************************************************************)
(* The write-behind database of one local storage area in the UI process.  *)
(*                                                                         *)
(* StorageManager::StorageArea keeps the items of one origin in memory     *)
(* (m_storageMap) and hands every change to its LocalStorageDatabase,      *)
(* which collects changes in m_changedItems and m_shouldClearItems and     *)
(* writes them to an SQLite file from a callback that fires one second     *)
(* later, at most maximumItemsToUpdate items at a time.  Everything here   *)
(* runs on StorageManager's serial work queue, so operations do not        *)
(* interleave; what can come between two of them, or in the middle of a    *)
(* write, is the end of the process.                                       *)
(*                                                                         *)
(* A map is a total function on Keys, Null standing for an absent key.     *)
(* SQLite is external: opening and writing may fail when CanFail is TRUE.  *)
(***************************************************************************)
EXTENDS Integers, FiniteSets

CONSTANTS Keys,                   \* keys of the origin's items
          Values,                 \* values of items
          Null,                   \* the null String
          NoChange,               \* key without entry in m_changedItems
          maximumItemsToUpdate,   \* batch size of one database update
          CanFail,                \* may SQLite report errors?
          CanCrash                \* may the process end without close()?

ASSUME NullAssumption == Null \notin Values
ASSUME NoChangeAssumption == NoChange \notin Values \cup {Null}
ASSUME KeysAssumption == IsFiniteSet(Keys)
ASSUME BatchAssumption == maximumItemsToUpdate \in Nat \ {0}
ASSUME FaultAssumption == CanFail \in BOOLEAN /\ CanCrash \in BOOLEAN

VARIABLES
  areaAlive,            \* does the StorageArea exist (has it listeners)?
  storageMap,           \* StorageArea::m_storageMap
  didImportItems,       \* StorageArea::m_didImportItemsFromDatabase
  hasDatabase,          \* StorageArea::m_localStorageDatabase is not null
  isOpen,               \* m_database.isOpen()
  failedToOpen,         \* m_failedToOpenDatabase
  didScheduleUpdate,    \* m_didScheduleDatabaseUpdate
  shouldClearItems,     \* m_shouldClearItems
  changedItems,         \* m_changedItems
  terminationDisabled,  \* m_disableSuddenTermination... is not null
  timers,               \* dispatchAfter callbacks of this database under way
  staleTimer,           \* is a callback of a closed database under way?
  file                  \* the SQLite file: exists, its ItemTable, old schema?

areaVars == <<areaAlive, storageMap, didImportItems, hasDatabase>>
updateVars == <<didScheduleUpdate, shouldClearItems, changedItems,
                terminationDisabled, timers>>
vars == <<areaAlive, storageMap, didImportItems, hasDatabase, isOpen,
          failedToOpen, didScheduleUpdate, shouldClearItems, changedItems,
          terminationDisabled, timers, staleTimer, file>>

Maps == [Keys -> Values \cup {Null}]
Empty == [k \in Keys |-> Null]
NoChanges == [k \in Keys |-> NoChange]
ChangedKeys == {k \in Keys : changedItems[k] # NoChange}

\* What a table holds after an optional DELETE of all rows and the writes of
\* items; a null value means that the key/value pair is deleted.
Written(table, clear, items) ==
  [k \in Keys |-> IF items[k] # NoChange THEN items[k]
                  ELSE IF clear THEN Null ELSE table[k]]

OnlyKeys(items, S) == [k \in Keys |-> IF k \in S THEN items[k] ELSE NoChange]
-----------------------------------------------------------------------------
(* Opening the file.  An outcome is the connection, the failure flag and   *)
(* the file.  Opening migrates a table of the old schema; when that fails  *)
(* the table is dropped.  When CREATE TABLE fails the open counts as       *)
(* failed although m_database stays open.                                  *)

File(table, legacy) == [exists |-> TRUE, table |-> table, legacy |-> legacy]

OpenFailures ==
  {[open |-> FALSE, failed |-> TRUE, file |-> file],
   [open |-> TRUE, failed |-> TRUE, file |-> File(file.table, file.legacy)]}
  \cup IF file.legacy
       THEN {[open |-> TRUE, failed |-> failedToOpen, file |-> File(Empty, FALSE)]}
       ELSE {}

OpenDatabase(strategy) ==
  IF ~file.exists /\ strategy = "SkipIfNonExistent"
  THEN {[open |-> FALSE, failed |-> failedToOpen, file |-> file]}
  ELSE {[open |-> TRUE, failed |-> failedToOpen, file |-> File(file.table, FALSE)]}
       \cup IF CanFail THEN OpenFailures ELSE {}

(* updateDatabaseWithChangedItems: open if needed, DELETE if a clear is    *)
(* pending, then write items in one transaction.  A failing statement ends *)
(* the loop and what was written so far is committed.                      *)
OpenIfNeeded ==
  IF isOpen THEN {[open |-> TRUE, failed |-> failedToOpen, file |-> file]}
  ELSE OpenDatabase("CreateIfNonExistent")

WriteItems(o, items) ==
  LET After(table) == [open |-> TRUE, failed |-> o.failed, clear |-> FALSE,
                       file |-> File(table, o.file.legacy)]
  IN  {After(Written(o.file.table, shouldClearItems, items))}
      \cup IF CanFail
           THEN {After(Written(o.file.table, shouldClearItems, OnlyKeys(items, S))) :
                   S \in SUBSET Keys} \cup {After(o.file.table)}
           ELSE {}

UpdateWithChangedItems(items) ==
  UNION {IF o.open THEN WriteItems(o, items)
         ELSE {[open |-> FALSE, failed |-> o.failed, clear |-> shouldClearItems,
                file |-> o.file]} : o \in OpenIfNeeded}
-----------------------------------------------------------------------------
(* openDatabaseAndImportItemsIfNeeded, the first call of every operation   *)
(* on the area: create the LocalStorageDatabase, and import its items once *)
(* in the life of the area.                                                *)

ImportItems(map, table) ==
  [k \in Keys |-> IF map[k] # Null THEN map[k] ELSE table[k]]

OpenAndImport ==
  IF didImportItems
  THEN {[open |-> isOpen, failed |-> failedToOpen, map |-> storageMap, file |-> file]}
  ELSE UNION {{[open |-> o.open, failed |-> o.failed, map |-> m, file |-> o.file] :
                 m \in (IF o.open THEN {ImportItems(storageMap, o.file.table)} ELSE {})
                       \cup (IF ~o.open \/ CanFail THEN {storageMap} ELSE {})} :
              o \in OpenDatabase("SkipIfNonExistent")}

Imported(o) ==
  /\ isOpen' = o.open
  /\ failedToOpen' = o.failed
  /\ file' = o.file
  /\ didImportItems' = TRUE
  /\ hasDatabase' = TRUE
  /\ UNCHANGED <<areaAlive, staleTimer>>

\* Mutant: the early return for an update already scheduled is missing.
ScheduleTwice ==
  /\ didScheduleUpdate' = TRUE
  /\ timers' = timers + 1
  /\ terminationDisabled' = TRUE

\* One callback is under way for every scheduled update.
ScheduleDatabaseUpdate ==
  /\ didScheduleUpdate' = TRUE
  /\ timers' = IF didScheduleUpdate THEN timers ELSE timers + 1
  /\ terminationDisabled' = (terminationDisabled \/ ~didScheduleUpdate)

ItemDidChange(k, v) ==
  /\ changedItems' = [changedItems EXCEPT ![k] = v]
  /\ UNCHANGED shouldClearItems
  /\ ScheduleDatabaseUpdate

\* Mutant: m_changedItems is not cleared.
ClearKeepsChanges ==
  /\ shouldClearItems' = TRUE
  /\ UNCHANGED changedItems
  /\ ScheduleDatabaseUpdate

ClearItems ==
  /\ changedItems' = NoChanges
  /\ shouldClearItems' = TRUE
  /\ ScheduleDatabaseUpdate
-----------------------------------------------------------------------------
(* Operations of the area.                                                 *)

\* getValues; also a setItem that exceeds the quota, a removeItem of an
\* absent key and a clear of an empty map, which return after the import.
Items ==
  /\ areaAlive
  /\ \E o \in OpenAndImport : Imported(o) /\ storageMap' = o.map
  /\ UNCHANGED updateVars

SetItem(k, v) ==
  /\ areaAlive
  /\ \E o \in OpenAndImport :
       /\ Imported(o)
       /\ storageMap' = [o.map EXCEPT ![k] = v]
  /\ ItemDidChange(k, v)

RemoveItem(k) ==
  /\ areaAlive
  /\ \E o \in OpenAndImport :
       /\ o.map[k] # Null
       /\ Imported(o)
       /\ storageMap' = [o.map EXCEPT ![k] = Null]
  /\ ItemDidChange(k, Null)

Clear ==
  /\ areaAlive
  /\ \E o \in OpenAndImport : o.map # Empty /\ Imported(o)
  /\ storageMap' = Empty
  /\ ClearItems

CreateArea ==
  /\ ~areaAlive
  /\ areaAlive' = TRUE
  /\ storageMap' = Empty
  /\ didImportItems' = FALSE
  /\ UNCHANGED <<hasDatabase, isOpen, failedToOpen, updateVars, staleTimer, file>>

\* Mutant: the write runs although no callback is under way.
UpdateAllUnscheduled ==
  /\ hasDatabase
  /\ Cardinality(ChangedKeys) <= maximumItemsToUpdate
  /\ \E w \in UpdateWithChangedItems(changedItems) :
       /\ isOpen' = w.open
       /\ failedToOpen' = w.failed
       /\ shouldClearItems' = w.clear
       /\ file' = w.file
  /\ changedItems' = NoChanges
  /\ didScheduleUpdate' = FALSE
  /\ timers' = timers - 1
  /\ terminationDisabled' = FALSE
  /\ UNCHANGED <<areaVars, staleTimer>>

(* updateDatabase of a database that is not closed: write everything, or a *)
(* batch of any maximumItemsToUpdate items and schedule the next one.      *)
UpdateAll ==
  /\ timers > 0
  /\ Cardinality(ChangedKeys) <= maximumItemsToUpdate
  /\ \E w \in UpdateWithChangedItems(changedItems) :
       /\ isOpen' = w.open
       /\ failedToOpen' = w.failed
       /\ shouldClearItems' = w.clear
       /\ file' = w.file
  /\ changedItems' = NoChanges
  /\ didScheduleUpdate' = FALSE
  /\ timers' = timers - 1
  /\ terminationDisabled' = FALSE
  /\ UNCHANGED <<areaVars, staleTimer>>

\* Mutant: the remaining items are not scheduled.
UpdateBatchOnce ==
  /\ timers > 0
  /\ Cardinality(ChangedKeys) > maximumItemsToUpdate
  /\ \E S \in SUBSET ChangedKeys :
       /\ Cardinality(S) = maximumItemsToUpdate
       /\ changedItems' = OnlyKeys(changedItems, Keys \ S)
       /\ \E w \in UpdateWithChangedItems(OnlyKeys(changedItems, S)) :
            /\ isOpen' = w.open
            /\ failedToOpen' = w.failed
            /\ shouldClearItems' = w.clear
            /\ file' = w.file
  /\ didScheduleUpdate' = FALSE
  /\ timers' = timers - 1
  /\ UNCHANGED <<areaVars, terminationDisabled, staleTimer>>

UpdateBatch ==
  /\ timers > 0
  /\ Cardinality(ChangedKeys) > maximumItemsToUpdate
  /\ \E S \in SUBSET ChangedKeys :
       /\ Cardinality(S) = maximumItemsToUpdate
       /\ changedItems' = OnlyKeys(changedItems, Keys \ S)
       /\ \E w \in UpdateWithChangedItems(OnlyKeys(changedItems, S)) :
            /\ isOpen' = w.open
            /\ failedToOpen' = w.failed
            /\ shouldClearItems' = w.clear
            /\ file' = w.file
  /\ didScheduleUpdate' = TRUE
  /\ timers' = timers - 1 + 1
  /\ terminationDisabled' = TRUE
  /\ UNCHANGED <<areaVars, staleTimer>>

\* Mutant: updateDatabase does not look at m_isClosed; the closed database
\* has no changes left, but opens its file to write them.
UpdateClosedOpens ==
  /\ staleTimer
  /\ staleTimer' \in BOOLEAN
  /\ file' = File(file.table, FALSE)
  /\ UNCHANGED <<areaVars, isOpen, failedToOpen, updateVars>>

\* The callback of a closed database returns at once.
UpdateClosed ==
  /\ staleTimer
  /\ staleTimer' \in BOOLEAN
  /\ UNCHANGED <<areaVars, isOpen, failedToOpen, updateVars, file>>
-----------------------------------------------------------------------------
(* close() writes what is pending, and deletes a file left without items.  *)
(* The result is the set of files it can leave behind.                     *)

NoFile == [exists |-> FALSE, table |-> Empty, legacy |-> FALSE]

\* Mutant: close() leaves the pending changes to the callback.
CloseWithoutFlush == {[open |-> isOpen, file |-> file]}

FlushOnClose ==
  IF didScheduleUpdate
  THEN {[open |-> w.open, file |-> w.file] : w \in UpdateWithChangedItems(changedItems)}
  ELSE {[open |-> isOpen, file |-> file]}

Close ==
  IF ~hasDatabase THEN {file}
  ELSE UNION {(IF w.open /\ w.file.table = Empty THEN {NoFile} ELSE {w.file})
              \cup (IF CanFail THEN {w.file} ELSE {}) : w \in FlushOnClose}

\* m_localStorageDatabase is gone; only its callback may still be under way.
DatabaseGone ==
  /\ hasDatabase' = FALSE
  /\ isOpen' = FALSE
  /\ failedToOpen' = FALSE
  /\ didScheduleUpdate' = FALSE
  /\ shouldClearItems' = FALSE
  /\ changedItems' = NoChanges
  /\ terminationDisabled' = FALSE
  /\ timers' = 0

\* ~StorageArea, when the last listener is gone or the application ends.
DestroyArea ==
  /\ areaAlive
  /\ areaAlive' = FALSE
  /\ file' \in Close
  /\ DatabaseGone
  /\ staleTimer' = (staleTimer \/ timers > 0)
  /\ storageMap' = Empty
  /\ didImportItems' = FALSE

\* deleteEntriesForOrigin and deleteAllEntries: StorageArea::clear() on a
\* live area, then the tracker deletes the file.
DeleteEntries ==
  /\ file' \in {NoFile} \cup IF CanFail THEN Close ELSE {}
  /\ storageMap' = Empty
  /\ DatabaseGone
  /\ staleTimer' = (staleTimer \/ timers > 0)
  /\ UNCHANGED <<areaAlive, didImportItems>>

(* The process ends without close().  SQLite commits the DELETE of a clear *)
(* before the transaction of the items begins, so a write can be cut short *)
(* between the two; a transaction is written entirely or not at all.       *)
CutShort ==
  IF ~didScheduleUpdate THEN {}
  ELSE UNION {{o.file} \cup (IF shouldClearItems /\ o.open
                             THEN {File(Empty, o.file.legacy)} ELSE {}) :
              o \in OpenIfNeeded}

Crash ==
  /\ CanCrash
  /\ file' \in {file} \cup CutShort
  /\ areaAlive' = FALSE
  /\ storageMap' = Empty
  /\ didImportItems' = FALSE
  /\ DatabaseGone
  /\ staleTimer' = FALSE
-----------------------------------------------------------------------------
Init ==
  /\ areaAlive = FALSE
  /\ storageMap = Empty
  /\ didImportItems = FALSE
  /\ hasDatabase = FALSE
  /\ isOpen = FALSE
  /\ failedToOpen = FALSE
  /\ didScheduleUpdate = FALSE
  /\ shouldClearItems = FALSE
  /\ changedItems = NoChanges
  /\ terminationDisabled = FALSE
  /\ timers = 0
  /\ staleTimer = FALSE
  /\ file \in {NoFile} \cup [exists : {TRUE}, table : Maps, legacy : BOOLEAN]

AreaOperation ==
  \/ CreateArea
  \/ Items
  \/ \E k \in Keys, v \in Values : SetItem(k, v)
  \/ \E k \in Keys : RemoveItem(k)
  \/ Clear
  \/ DestroyArea
  \/ DeleteEntries

Next == AreaOperation \/ UpdateAll \/ UpdateBatch \/ UpdateClosed \/ Crash

Spec == Init /\ [][Next]_vars

\* The work queue's run loop fires a timer that is due.
FairSpec == Spec /\ WF_vars(UpdateAll \/ UpdateBatch)
-----------------------------------------------------------------------------
(* Properties.                                                             *)

\* Type correctness of the area's and the database's members.
TypeOK ==
  /\ areaAlive \in BOOLEAN
  /\ storageMap \in Maps
  /\ didImportItems \in BOOLEAN
  /\ hasDatabase \in BOOLEAN
  /\ isOpen \in BOOLEAN
  /\ failedToOpen \in BOOLEAN
  /\ didScheduleUpdate \in BOOLEAN
  /\ shouldClearItems \in BOOLEAN
  /\ changedItems \in [Keys -> Values \cup {Null, NoChange}]
  /\ terminationDisabled \in BOOLEAN
  /\ timers \in Nat
  /\ staleTimer \in BOOLEAN
  /\ file \in [exists : BOOLEAN, table : Maps, legacy : BOOLEAN]

\* scheduleDatabaseUpdate and updateDatabase: whenever changes wait to be
\* written, exactly one callback is under way that will write them, and the
\* process holds off sudden termination; updateDatabase finds its ASSERT on
\* m_didScheduleDatabaseUpdate true.
PendingChangesAreScheduled ==
  /\ ChangedKeys # {} => didScheduleUpdate
  /\ timers = IF didScheduleUpdate THEN 1 ELSE 0
  /\ didScheduleUpdate => terminationDisabled /\ hasDatabase

\* With an SQLite that does not fail, the items in memory are at all times
\* what the file would hold once the pending clear and the pending changes
\* were written to it (setItem, removeItem, clear, batches, close).
MemoryIsDiskPlusPending ==
  ~CanFail /\ didImportItems =>
    storageMap = Written(file.table, shouldClearItems, changedItems)

\* importItems skips a file that does not exist and a closed database does
\* not write (m_isClosed): a file comes into being only to hold changes.
FileCreatedOnlyToWrite ==
  [][file'.exists /\ ~file.exists => shouldClearItems \/ ChangedKeys # {}]_vars

\* Updates in batches reach every item: if clients stop changing the area,
\* all changes are written.
EventuallyWritten ==
  <>[][UpdateAll \/ UpdateBatch \/ UpdateClosed]_vars => <>[](ChangedKeys = {})

(* The area implements DurableMap.  A client sees the imported map, or the *)
(* file if nothing has been imported yet.                                  *)
Contents == IF didImportItems THEN storageMap ELSE file.table

Survivors ==
  [k \in Keys |-> {Contents[k], file.table[k]}
                  \cup IF shouldClearItems THEN {Null} ELSE {}]

Durable == INSTANCE DurableMap WITH contents <- Contents, survivors <- Survivors

\* The write-behind database implements the durable map: without a crash,
\* destroying and re-creating the area loses nothing, and a crash sets a key
\* back to its value on disk or to the state after a clear, and no further.
ImplementsDurableMap == Durable!Spec

\* Only the end of the process loses anything: every other step is one of
\* the durable map's own, closing the database among them (close writes
\* what is pending, "Will block until all pending changes have been written
\* to disk").
OnlyCrashLoses ==
  [][~Crash => Durable!Change \/ Durable!Clear \/ Durable!Delete \/ Durable!Flush]_vars
=============================================================================
