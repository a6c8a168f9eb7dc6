--------------------- MODULE LocalStorageDatabaseTracker ---------------------
(***************************************************************************)
(* LocalStorageDatabaseTracker: the tracker database StorageTracker.db,    *)
(* with one row for each origin's database file, and its copy m_origins in *)
(* memory.                                                                 *)
(*                                                                         *)
(* Everything runs on the StorageManager's work queue, one operation at a  *)
(* time, but an operation changes the tracker database and the directory   *)
(* in several steps and the process may end between any two.  step is the  *)
(* step it is at, origin the origin it is about and todo the files it has  *)
(* still to look at.  With TrackerCanFail, SQLite and the file system may  *)
(* refuse a step; faulted says that one was since the process was started. *)
(***************************************************************************)
CONSTANTS Origins, NoOrigin, TrackerCanFail

ASSUME OriginsAssumption == NoOrigin \notin Origins
ASSUME TrackerCanFailAssumption == TrackerCanFail \in BOOLEAN

VARIABLES step, origin, todo,               \* the operation in progress
          origins, trackerIsOpen, faulted,  \* in memory
          connected,                        \* databases LocalStorageDatabase has open
          trackerExists, rows, files        \* on disk

trackerVars == <<step, origin, todo, origins, trackerIsOpen, faulted, connected,
                 trackerExists, rows, files>>

Steps == {"down", "idle", "import", "add", "remove", "unlink", "forget",
          "deleteFiles"}

\* The type invariant; rows are in the tracker database.
TrackerTypeOK ==
  /\ step \in Steps /\ origin \in Origins \cup {NoOrigin} /\ todo \subseteq Origins
  /\ origins \subseteq Origins /\ connected \subseteq Origins /\ files \subseteq Origins
  /\ rows \subseteq Origins /\ (rows # {} => trackerExists)
  /\ trackerIsOpen \in BOOLEAN /\ trackerExists \in BOOLEAN /\ faulted \in BOOLEAN

Task(s, o, t) == step' = s /\ origin' = o /\ todo' = t
Done(s) == Task(s, NoOrigin, {})

TrackerInit ==
  /\ step = "down" /\ origin = NoOrigin /\ todo = {}
  /\ origins = {} /\ trackerIsOpen = FALSE /\ faulted = FALSE /\ connected = {}
  /\ trackerExists = FALSE /\ rows = {} /\ files = {}

\* The outcomes of a step that may be refused.
Outcomes == IF TrackerCanFail THEN BOOLEAN ELSE {TRUE}

\* openTrackerDatabase: may the tracker database be open afterwards?
OpenTrackerDatabase(create) ==
  IF trackerIsOpen THEN {TRUE} ELSE IF trackerExists \/ create THEN Outcomes ELSE {FALSE}

-----------------------------------------------------------------------------
(* Start of the process, and the end of it.                                *)

\* Mutant: the files of origins that have no row are not looked for.
ImportRowsOnly ==
  /\ step = "down"
  /\ trackerIsOpen' = trackerExists
  /\ faulted' = FALSE
  /\ origins' = rows
  /\ Done("idle")
  /\ UNCHANGED <<connected, trackerExists, rows, files>>

\* importOriginIdentifiers up to the walk over the database files.
Import ==
  /\ step = "down"
  /\ \E open \in OpenTrackerDatabase(FALSE), read \in Outcomes :
       /\ trackerIsOpen' = open
       /\ faulted' = (trackerExists /\ ~(open /\ read))
       /\ origins' = IF open /\ read THEN rows ELSE {}
       /\ IF open /\ ~read THEN Done("idle") ELSE Task("import", NoOrigin, files)
  /\ UNCHANGED <<connected, trackerExists, rows, files>>

TrackerCrash ==
  /\ step # "down"
  /\ Done("down")
  /\ origins' = {} /\ trackerIsOpen' = FALSE /\ faulted' = FALSE /\ connected' = {}
  /\ UNCHANGED <<trackerExists, rows, files>>

\* addDatabaseWithOriginIdentifier.  A row that cannot be inserted still
\* leaves the origin in m_origins; a statement that cannot be prepared does
\* not.
AddDatabase(o) ==
  \E open \in OpenTrackerDatabase(TRUE), prepared \in Outcomes, inserted \in Outcomes :
    /\ trackerIsOpen' = open
    /\ trackerExists' = (trackerExists \/ open)
    /\ origins' = IF open /\ prepared THEN origins \cup {o} ELSE origins
    /\ rows' = IF open /\ prepared /\ inserted THEN rows \cup {o} ELSE rows
    /\ faulted' = (faulted \/ ~(open /\ prepared /\ inserted))

\* updateTrackerDatabaseFromLocalStorageDatabaseFiles, one file at a time.
\* Its second loop removes nothing.
ImportFile ==
  /\ step = "import"
  /\ \E o \in todo :
       /\ Task("import", NoOrigin, todo \ {o})
       /\ IF o \in origins THEN UNCHANGED <<trackerIsOpen, trackerExists, origins, rows, faulted>>
          ELSE AddDatabase(o)
  /\ UNCHANGED <<connected, files>>

ImportDone ==
  /\ step = "import" /\ todo = {}
  /\ Done("idle")
  /\ UNCHANGED <<origins, trackerIsOpen, faulted, connected, trackerExists, rows, files>>
-----------------------------------------------------------------------------
(* Operations.                                                             *)

\* LocalStorageDatabase::openDatabase has created or opened the file and is
\* about to report it.
OpenOriginDatabase(o) ==
  /\ step = "idle" /\ o \notin connected
  /\ connected' = connected \cup {o}
  /\ files' = files \cup {o}
  /\ Task("add", o, {})
  /\ UNCHANGED <<origins, trackerIsOpen, faulted, trackerExists, rows>>

DidOpenDatabaseWithOrigin ==
  /\ step = "add"
  /\ AddDatabase(origin)
  /\ Done("idle")
  /\ UNCHANGED <<connected, files>>

\* LocalStorageDatabase::close; an empty database is deleted.
CloseOriginDatabase(o) ==
  /\ step = "idle" /\ o \in connected
  /\ connected' = connected \ {o}
  /\ (Done("idle") \/ Task("remove", o, {}))
  /\ UNCHANGED <<origins, trackerIsOpen, faulted, trackerExists, rows, files>>

\* deleteEntriesForOriginInternal: the area closes its database first.
DeleteDatabaseWithOrigin(o) ==
  /\ step = "idle"
  /\ connected' = connected \ {o}
  /\ Task("remove", o, {})
  /\ UNCHANGED <<origins, trackerIsOpen, faulted, trackerExists, rows, files>>

\* removeDatabaseWithOriginIdentifier: the row, then the file, then m_origins.
RemoveRow ==
  LET o == origin
  IN  /\ step = "remove"
      /\ \E open \in OpenTrackerDatabase(FALSE), executed \in Outcomes :
           /\ trackerIsOpen' = open
           /\ IF open /\ o \in rows /\ executed
              THEN rows' = rows \ {o} /\ Task("unlink", o, {})
              ELSE Done("idle") /\ UNCHANGED rows
           /\ faulted' = (faulted \/ (trackerExists /\ ~open) \/ (o \in rows /\ ~executed))
      /\ UNCHANGED <<origins, connected, trackerExists, files>>

\* Mutant: the file is left to the next start.
RemoveRowOnly ==
  /\ step = "unlink"
  /\ Task("forget", origin, {})
  /\ UNCHANGED <<origins, trackerIsOpen, faulted, connected, trackerExists, rows, files>>

RemoveFile ==
  /\ step = "unlink"
  /\ \E deleted \in Outcomes :
       /\ files' = IF deleted THEN files \ {origin} ELSE files
       /\ faulted' = (faulted \/ ~deleted)
  /\ Task("forget", origin, {})
  /\ UNCHANGED <<origins, trackerIsOpen, connected, trackerExists, rows>>

\* Mutant: the tracker database goes with any origin.
ForgetTracker ==
  /\ step = "forget"
  /\ origins' = origins \ {origin}
  /\ trackerIsOpen' = FALSE /\ trackerExists' = FALSE /\ rows' = {}
  /\ Done("idle")
  /\ UNCHANGED <<faulted, connected, files>>

\* The tracker database goes with the last origin.
ForgetOrigin ==
  /\ step = "forget"
  /\ origins' = origins \ {origin}
  /\ \E deleted \in Outcomes :
       IF origins' # {} THEN UNCHANGED <<trackerIsOpen, trackerExists, rows, faulted>>
       ELSE /\ trackerIsOpen' = FALSE
            /\ trackerExists' = (trackerExists /\ ~deleted)
            /\ rows' = IF deleted THEN {} ELSE rows
            /\ faulted' = (faulted \/ ~deleted)
  /\ Done("idle")
  /\ UNCHANGED <<connected, files>>

\* deleteAllEntriesInternal: every area closes its database first.
DeleteAllDatabases ==
  /\ step = "idle"
  /\ connected' = {}
  /\ origins' = {}
  /\ \E open \in OpenTrackerDatabase(FALSE), prepared \in Outcomes :
       /\ trackerIsOpen' = open
       /\ faulted' = (faulted \/ (trackerExists /\ ~(open /\ prepared)))
       /\ IF open /\ prepared THEN Task("deleteFiles", NoOrigin, rows) ELSE Done("idle")
  /\ UNCHANGED <<trackerExists, rows, files>>

DeleteFile ==
  /\ step = "deleteFiles"
  /\ \E o \in todo, deleted \in Outcomes :
       /\ Task("deleteFiles", NoOrigin, todo \ {o})
       /\ files' = IF deleted THEN files \ {o} ELSE files
       /\ faulted' = (faulted \/ ~deleted)
  /\ UNCHANGED <<origins, trackerIsOpen, connected, trackerExists, rows>>

\* A tracker database that cannot be deleted is opened again and emptied.
DeleteTracker ==
  /\ step = "deleteFiles" /\ todo = {}
  /\ \E deleted \in Outcomes, reopened \in Outcomes, emptied \in Outcomes :
       /\ trackerExists' = ~deleted
       /\ trackerIsOpen' = (~deleted /\ reopened)
       /\ rows' = IF deleted \/ (reopened /\ emptied) THEN {} ELSE rows
       /\ faulted' = (faulted \/ ~(deleted \/ (reopened /\ emptied)))
  /\ Done("idle")
  /\ UNCHANGED <<origins, connected, files>>
-----------------------------------------------------------------------------
TrackerNext ==
  \/ Import \/ ImportFile \/ ImportDone \/ TrackerCrash
  \/ \E o \in Origins : \/ OpenOriginDatabase(o) \/ CloseOriginDatabase(o)
                        \/ DeleteDatabaseWithOrigin(o)
  \/ DidOpenDatabaseWithOrigin
  \/ RemoveRow \/ RemoveFile \/ ForgetOrigin
  \/ DeleteAllDatabases \/ DeleteFile \/ DeleteTracker

TrackerSpec == TrackerInit /\ [][TrackerNext]_trackerVars
-----------------------------------------------------------------------------
(* Properties.                                                             *)

\* Between operations every database file is tracked, in memory and in the
\* tracker database, whatever was interrupted or refused before the process
\* was last started: a file without a row could not be listed or deleted
\* (importOriginIdentifiers repairs the tracker database).
FilesAreTracked ==
  step = "idle" /\ ~faulted => files \subseteq origins /\ origins = rows

\* An operation that deletes an origin, or all of them, leaves neither file
\* nor row nor entry when it ends without a refused step
\* (removeDatabaseWithOriginIdentifier with its early returns,
\* deleteAllDatabases).
DeletionIsComplete ==
  [][step' = "idle" /\ ~faulted' =>
       /\ step \in {"remove", "unlink", "forget"} =>
            origin \notin files' \cup rows' \cup origins'
       /\ step = "deleteFiles" => files' \cup rows' \cup origins' = {}]_trackerVars

\* The tracker database is never deleted while an origin's database is in
\* use, since the last origin takes it along.
TrackerOutlivesDatabases ==
  step = "idle" /\ ~faulted /\ connected # {} => trackerExists /\ connected \subseteq rows
=============================================================================
