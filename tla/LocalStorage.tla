---------------------------- MODULE LocalStorage ----------------------------
(***************************************************************************)
(* Local storage of one origin, shared by several web processes: each      *)
(* process's StorageAreaMap, the UI process's StorageManager with its      *)
(* StorageArea, and the connections between them.                          *)
(*                                                                         *)
(* A connection is a pair of queues, toManager[p] and toMap[p].  Messages  *)
(* to the StorageManager are handled one at a time on its work queue, in   *)
(* the order a process sent them.  The reply to the synchronous GetValues  *)
(* bypasses toMap[p]: the process sees it before the messages sent ahead   *)
(* of it.  A crashed process is replaced in its slot p by a new one, with  *)
(* a new map ID standing for the new connection.                           *)
(*                                                                         *)
(* What the StorageArea keeps while no process listens to it is on disk;   *)
(* that this loses nothing is the subject of LocalStorageDatabase.         *)
(***************************************************************************)
EXTENDS StorageAreaMap, Sequences

CONSTANTS Procs,          \* web processes (connections)
          Operations,     \* operations pages perform: "set", "remove", "clear"
          NoReply,
          MaxOperations,  \* bound on page operations
          MaxDeletes,     \* bound on deletions of the origin by the application
          MaxMaps,        \* bound on maps created by a process and its successors
          CanCrash,       \* web processes may crash
          CanDisconnect,  \* the UI process may drop a connection
          MayTerminate    \* the application may terminate

ASSUME NoReplyAssumption == NoReply \notin Items
ASSUME BoundsAssumption ==
  /\ MaxOperations \in Nat /\ MaxDeletes \in Nat /\ MaxMaps \in [Procs -> Nat]
  /\ Operations \subseteq {"set", "remove", "clear"}
  /\ CanCrash \in BOOLEAN /\ CanDisconnect \in BOOLEAN /\ MayTerminate \in BOOLEAN
\* A slot has no successor that could meet late messages of a dropped one.
ASSUME DisconnectAssumption == CanDisconnect => \A p \in Procs : MaxMaps[p] = 1

VARIABLES mapID,          \* p's latest map; 0 before the first
          live,           \* p's map exists
          cache,          \* p's StorageAreaMap
          waiting,        \* p is blocked in sendSync(GetValues)
          reply,          \* the reply to GetValues on its way to p
          toManager,      \* messages of p to the StorageManager
          toMap,          \* messages of the StorageManager to p
          listener,       \* the map in p that listens to the area; 0 for none
          area,           \* the StorageArea's m_storageMap
          operations, deletes,
          terminated      \* applicationWillTerminate has run

mapVars == <<mapID, live, cache, waiting>>
bounds == <<operations, deletes, terminated>>
vars == <<mapVars, reply, toManager, toMap, listener, area, bounds>>

ManagerMessages ==
  [type : {"CreateLocalStorageMap", "DestroyStorageMap", "GetValues", "SetItem",
           "RemoveItem", "Clear", "InvalidateConnection"},
   id : Nat, seed : Nat, key : Keys \cup {Null}, value : Values \cup {Null}]

\* own: the event carries this connection's source area ID.
MapMessages ==
  [type : {"DispatchStorageEvent", "DidGetValues", "DidSetItem", "DidRemoveItem",
           "DidClear", "ClearCache"},
   id : Nat, seed : Nat, key : Keys \cup {Null}, value : Values \cup {Null},
   own : BOOLEAN, quotaError : BOOLEAN]

\* One type invariant for the cached maps, the area and the messages.
TypeOK ==
  /\ mapID \in [Procs -> Nat]
  /\ live \in [Procs -> BOOLEAN]
  /\ cache \in [Procs -> AreaMaps]
  /\ waiting \in [Procs -> BOOLEAN]
  /\ reply \in [Procs -> Items \cup {NoReply}]
  /\ toManager \in [Procs -> Seq(ManagerMessages)]
  /\ toMap \in [Procs -> Seq(MapMessages)]
  /\ listener \in [Procs -> Nat]
  /\ area \in StorageMaps
  /\ operations \in 0 .. MaxOperations
  /\ deletes \in 0 .. MaxDeletes
  /\ terminated \in BOOLEAN

Init ==
  /\ mapID = [p \in Procs |-> 0]
  /\ live = [p \in Procs |-> FALSE]
  /\ cache = [p \in Procs |-> NewAreaMap]
  /\ waiting = [p \in Procs |-> FALSE]
  /\ reply = [p \in Procs |-> NoReply]
  /\ toManager = [p \in Procs |-> <<>>]
  /\ toMap = [p \in Procs |-> <<>>]
  /\ listener = [p \in Procs |-> 0]
  /\ area = Create
  /\ operations = 0
  /\ deletes = 0
  /\ terminated = FALSE
-----------------------------------------------------------------------------
(* The web process.                                                        *)

ToManager(type, id, seed, key, value) ==
  [type |-> type, id |-> id, seed |-> seed, key |-> key, value |-> value]

Send(p, type, id, seed, key, value) ==
  toManager' = [toManager EXCEPT ![p] = Append(@, ToManager(type, id, seed, key, value))]

CreateMap(p) ==
  /\ ~live[p] /\ mapID[p] < MaxMaps[p]
  /\ mapID' = [mapID EXCEPT ![p] = @ + 1]
  /\ live' = [live EXCEPT ![p] = TRUE]
  /\ cache' = [cache EXCEPT ![p] = NewAreaMap]
  /\ Send(p, "CreateLocalStorageMap", mapID[p] + 1, 0, Null, Null)
  /\ UNCHANGED <<waiting, reply, toMap, listener, area, bounds>>

DestroyMap(p) ==
  /\ live[p] /\ ~waiting[p]
  /\ live' = [live EXCEPT ![p] = FALSE]
  /\ cache' = [cache EXCEPT ![p] = NewAreaMap]
  /\ Send(p, "DestroyStorageMap", mapID[p], 0, Null, Null)
  /\ UNCHANGED <<mapID, waiting, reply, toMap, listener, area, bounds>>

\* loadValuesIfNeeded up to the wait for the reply.
LoadValuesIfNeeded(p) ==
  /\ live[p] /\ ~waiting[p] /\ cache[p].map = NoMap
  /\ waiting' = [waiting EXCEPT ![p] = TRUE]
  /\ Send(p, "GetValues", mapID[p], cache[p].seed, Null, Null)
  /\ UNCHANGED <<mapID, live, cache, reply, toMap, listener, area, bounds>>

GetValuesReply(p) ==
  /\ reply[p] # NoReply
  /\ cache' = [cache EXCEPT ![p] = LoadValues(@, reply[p])]
  /\ waiting' = [waiting EXCEPT ![p] = FALSE]
  /\ reply' = [reply EXCEPT ![p] = NoReply]
  /\ UNCHANGED <<mapID, live, toManager, toMap, listener, area, bounds>>

PageOperation(p, operation) ==
  /\ operation \in Operations
  /\ live[p] /\ ~waiting[p]
  /\ operations < MaxOperations
  /\ operations' = operations + 1
  /\ UNCHANGED <<mapID, live, waiting, reply, toMap, listener, area, deletes, terminated>>

\* setItem and removeItem load the values first; a call that changes nothing
\* is not a step.
PageSetItem(p, k, v) ==
  /\ PageOperation(p, "set")
  /\ cache[p].map # NoMap
  /\ SetIsSent(cache[p], k, v)
  /\ cache' = [cache EXCEPT ![p] = LocalSetItem(@, k, v)]
  /\ Send(p, "SetItem", mapID[p], cache[p].seed, k, v)

PageRemoveItem(p, k) ==
  /\ PageOperation(p, "remove")
  /\ cache[p].map # NoMap
  /\ RemoveIsSent(cache[p], k)
  /\ cache' = [cache EXCEPT ![p] = LocalRemoveItem(@, k)]
  /\ Send(p, "RemoveItem", mapID[p], cache[p].seed, k, Null)

PageClear(p) ==
  /\ PageOperation(p, "clear")
  /\ cache' = [cache EXCEPT ![p] = LocalClear(@)]
  /\ Send(p, "Clear", mapID[p], LocalClear(cache[p]).seed, Null, Null)

Invalidate(p) == <<ToManager("InvalidateConnection", mapID[p], 0, Null, Null)>>

\* The process is gone, and the UI process's work queue has messages of it.
Gone(p, messages) ==
  /\ live[p]
  /\ live' = [live EXCEPT ![p] = FALSE]
  /\ cache' = [cache EXCEPT ![p] = NewAreaMap]
  /\ waiting' = [waiting EXCEPT ![p] = FALSE]
  /\ reply' = [reply EXCEPT ![p] = NoReply]
  /\ toMap' = [toMap EXCEPT ![p] = <<>>]
  /\ toManager' = [toManager EXCEPT ![p] = messages]
  /\ UNCHANGED <<mapID, listener, area, bounds>>

\* Mutant: the connection is forgotten before its messages are handled.
CrashForgetsFirst(p) ==
  /\ CanCrash
  /\ \E n \in 0 .. Len(toManager[p]) : Gone(p, Invalidate(p) \o SubSeq(toManager[p], 1, n))

\* The process exits: messages it had not handed over are lost, and the
\* UI process forgets the connection after the ones it had.
Crash(p) ==
  /\ CanCrash
  /\ \E n \in 0 .. Len(toManager[p]) : Gone(p, SubSeq(toManager[p], 1, n) \o Invalidate(p))

\* The UI process drops the connection.  The message receiver is removed on
\* the connection's queue while the connection is already being forgotten on
\* the manager's, so some messages may be handled after that.
Disconnect(p) ==
  /\ CanDisconnect
  /\ \E n \in 0 .. Len(toManager[p]) : \E n2 \in n .. Len(toManager[p]) :
       Gone(p, SubSeq(toManager[p], 1, n) \o Invalidate(p) \o SubSeq(toManager[p], n + 1, n2))
-----------------------------------------------------------------------------
(* The StorageManager.                                                     *)

ToMap(type, id, seed, key, value, own, quotaError) ==
  [type |-> type, id |-> id, seed |-> seed, key |-> key, value |-> value,
   own |-> own, quotaError |-> quotaError]

\* q's event for a change that p made.
Event(q, p, key, value) ==
  ToMap("DispatchStorageEvent", listener[q], 0, key, value, q = p, FALSE)

Acknowledgement(type, m, quotaError) ==
  ToMap(type, m.id, m.seed, m.key, Null, FALSE, quotaError)

\* dispatchEvents to every listener if there was a change, then the
\* acknowledgement to p.
DispatchEvents(p, changed, key, value, acknowledgement) ==
  toMap' = [q \in Procs |->
    toMap[q] \o (IF changed /\ listener[q] # 0 THEN <<Event(q, p, key, value)>> ELSE <<>>)
             \o (IF q = p THEN <<acknowledgement>> ELSE <<>>)]

\* m, of the given type, is p's next message on the work queue.
Message(p, type, m) ==
  /\ toManager[p] # <<>>
  /\ m = Head(toManager[p])
  /\ m.type = type
  /\ toManager' = [toManager EXCEPT ![p] = Tail(@)]
  /\ UNCHANGED <<mapVars, bounds>>

\* findStorageArea
FindStorageArea(p, m) == m.id = listener[p]

CreateLocalStorageMap(p, m) ==
  /\ Message(p, "CreateLocalStorageMap", m)
  /\ listener' = [listener EXCEPT ![p] = m.id]
  /\ UNCHANGED <<reply, toMap, area>>

DestroyStorageMap(p, m) ==
  /\ Message(p, "DestroyStorageMap", m)
  /\ listener' = [listener EXCEPT ![p] = IF FindStorageArea(p, m) THEN 0 ELSE @]
  /\ UNCHANGED <<reply, toMap, area>>

InvalidateConnection(p, m) ==
  /\ Message(p, "InvalidateConnection", m)
  /\ listener' = [listener EXCEPT ![p] = 0]
  /\ UNCHANGED <<reply, toMap, area>>

\* The reply is lost if the process that waits for it is gone.
GetValues(p, m) ==
  /\ Message(p, "GetValues", m)
  /\ FindStorageArea(p, m)
  /\ DispatchEvents(p, FALSE, Null, Null, Acknowledgement("DidGetValues", m, FALSE))
  /\ reply' = IF live[p] /\ mapID[p] = m.id THEN [reply EXCEPT ![p] = area.items] ELSE reply
  /\ UNCHANGED <<listener, area>>

ManagerSetItem(p, m) ==
  LET quotaError == QuotaException(area, m.key, m.value, quotaSize)
  IN  /\ Message(p, "SetItem", m)
      /\ FindStorageArea(p, m)
      /\ area' = SetItem(area, m.key, m.value, quotaSize)
      /\ DispatchEvents(p, ~quotaError, m.key, m.value,
                        Acknowledgement("DidSetItem", m, quotaError))
      /\ UNCHANGED <<reply, listener>>

ManagerRemoveItem(p, m) ==
  /\ Message(p, "RemoveItem", m)
  /\ FindStorageArea(p, m)
  /\ area' = RemoveItem(area, m.key)
  /\ DispatchEvents(p, GetItem(area, m.key) # Null, m.key, Null,
                    Acknowledgement("DidRemoveItem", m, FALSE))
  /\ UNCHANGED <<reply, listener>>

\* Mutant: clearing an empty area is not acknowledged.
ClearUnacknowledged(p, m) ==
  /\ Message(p, "Clear", m)
  /\ FindStorageArea(p, m)
  /\ area' = Create
  /\ IF Size(area) = 0 THEN UNCHANGED toMap
     ELSE DispatchEvents(p, TRUE, Null, Null, Acknowledgement("DidClear", m, FALSE))
  /\ UNCHANGED <<reply, listener>>

ManagerClear(p, m) ==
  /\ Message(p, "Clear", m)
  /\ FindStorageArea(p, m)
  /\ area' = IF Size(area) = 0 THEN area ELSE Create
  /\ DispatchEvents(p, Size(area) # 0, Null, Null, Acknowledgement("DidClear", m, FALSE))
  /\ UNCHANGED <<reply, listener>>

\* A message for a map that is not known is ignored.
IgnoreMessage(p, m) ==
  /\ Message(p, m.type, m)
  /\ m.type \in {"GetValues", "SetItem", "RemoveItem", "Clear"}
  /\ ~FindStorageArea(p, m)
  /\ reply' = IF m.type = "GetValues" /\ live[p] /\ mapID[p] = m.id
              THEN [reply EXCEPT ![p] = Create.items] ELSE reply
  /\ UNCHANGED <<toMap, listener, area>>

\* deleteEntriesForOrigin and deleteAllEntries.
DeleteEntries ==
  /\ deletes < MaxDeletes
  /\ deletes' = deletes + 1
  /\ area' = Create
  /\ toMap' = [q \in Procs |-> IF listener[q] = 0 THEN toMap[q] ELSE
       Append(toMap[q], ToMap("ClearCache", listener[q], 0, Null, Null, FALSE, FALSE))]
  /\ UNCHANGED <<mapVars, reply, toManager, listener, operations, terminated>>

\* applicationWillTerminate: every map is forgotten, though processes may
\* still be sending.
ApplicationWillTerminate ==
  /\ MayTerminate /\ ~terminated
  /\ terminated' = TRUE
  /\ listener' = [p \in Procs |-> 0]
  /\ UNCHANGED <<mapVars, reply, toManager, toMap, area, operations, deletes>>

HandleMessage(p) ==
  /\ toManager[p] # <<>>
  /\ LET m == Head(toManager[p]) IN
    \/ CreateLocalStorageMap(p, m) \/ DestroyStorageMap(p, m) \/ InvalidateConnection(p, m)
    \/ GetValues(p, m) \/ ManagerSetItem(p, m) \/ ManagerRemoveItem(p, m)
    \/ ManagerClear(p, m) \/ IgnoreMessage(p, m)
-----------------------------------------------------------------------------
(* Messages that reach the web process.                                    *)

Received(p, type, m) ==
  /\ m.type = type
  /\ toMap' = [toMap EXCEPT ![p] = Tail(@)]
  /\ UNCHANGED <<mapID, live, waiting, reply, toManager, listener, area, bounds>>

Become(p, areaMap) == cache' = [cache EXCEPT ![p] = areaMap]

ReceiveEvent(p, m) ==
  /\ Received(p, "DispatchStorageEvent", m)
  /\ Become(p, IF m.own THEN cache[p] ELSE ApplyChange(cache[p], m.key, m.value))

ReceiveDidGetValues(p, m) ==
  Received(p, "DidGetValues", m) /\ Become(p, DidGetValues(cache[p], m.seed))

ReceiveDidSetItem(p, m) ==
  /\ Received(p, "DidSetItem", m)
  /\ Become(p, DidSetItem(cache[p], m.seed, m.key, m.quotaError))

ReceiveDidRemoveItem(p, m) ==
  Received(p, "DidRemoveItem", m) /\ Become(p, DidRemoveItem(cache[p], m.seed, m.key))

ReceiveDidClear(p, m) ==
  Received(p, "DidClear", m) /\ Become(p, DidClear(cache[p], m.seed))

ReceiveClearCache(p, m) ==
  Received(p, "ClearCache", m) /\ Become(p, ClearCache(cache[p]))

\* No message receiver is registered for a map that is gone.
DropMessage(p, m) ==
  Received(p, m.type, m) /\ UNCHANGED cache

\* Asynchronous messages are not dispatched during a synchronous one.
Receive(p) ==
  /\ toMap[p] # <<>> /\ ~waiting[p]
  /\ LET m == Head(toMap[p]) IN
    \/ /\ live[p] /\ m.id = mapID[p]
       /\ \/ ReceiveEvent(p, m) \/ ReceiveDidGetValues(p, m) \/ ReceiveDidSetItem(p, m)
          \/ ReceiveDidRemoveItem(p, m) \/ ReceiveDidClear(p, m) \/ ReceiveClearCache(p, m)
    \/ ~(live[p] /\ m.id = mapID[p]) /\ DropMessage(p, m)
-----------------------------------------------------------------------------
PageStep(p) ==
  \/ CreateMap(p) \/ DestroyMap(p) \/ LoadValuesIfNeeded(p) \/ PageClear(p)
  \/ \E k \in Keys, v \in Values : PageSetItem(p, k, v)
  \/ \E k \in Keys : PageRemoveItem(p, k)

Next ==
  \/ \E p \in Procs : PageStep(p) \/ GetValuesReply(p) \/ Crash(p) \/ Disconnect(p)
  \/ \E p \in Procs : HandleMessage(p) \/ Receive(p)
  \/ DeleteEntries
  \/ ApplicationWillTerminate

Spec == Init /\ [][Next]_vars

\* Work queues and run loops dispatch what has been queued on them.  Each
\* such step uses up a message, so that one condition for all is enough.
FairSpec ==
  /\ Spec
  /\ WF_vars(\E p \in Procs : HandleMessage(p) \/ Receive(p) \/ GetValuesReply(p))
-----------------------------------------------------------------------------
(* Properties.                                                             *)

Quiet(p) == toManager[p] = <<>> /\ toMap[p] = <<>> /\ ~waiting[p]

Loaded(p) == live[p] /\ cache[p].map # NoMap

\* A process with nothing in flight on its own connection sees exactly the
\* area's items, however its changes crossed those of other processes,
\* refusals for quota, deletions, loads and crashes (setItem, removeItem,
\* loadValuesIfNeeded and applyChange together; without clear).
CacheMatchesArea ==
  \A p \in Procs : Loaded(p) /\ Quiet(p) /\ ~terminated => cache[p].map.items = area.items

\* A process with nothing in flight never shows a value the area does not
\* hold, clears included (applyChange after clear).
NoPhantomValues ==
  \A p \in Procs : Loaded(p) /\ Quiet(p) /\ ~terminated =>
    \A k \in Keys : GetItem(cache[p].map, k) \in {Null, GetItem(area, k)}

Count(s, Test(_)) == Cardinality({i \in DOMAIN s : Test(s[i])})

\* Messages about p's current contents, on their way there and back.
InFlight(p, requests, acknowledgements, k) ==
  LET Current(m) == m.id = mapID[p] /\ m.seed = cache[p].seed /\ m.key = k
  IN  Count(toManager[p], LAMBDA m : Current(m) /\ m.type \in requests)
    + Count(toMap[p], LAMBDA m : Current(m) /\ m.type \in acknowledgements)

\* Every pending change, clear and load has exactly one message or
\* acknowledgement in flight: the assertions of didGetValues, didSetItem,
\* didRemoveItem and didClear hold, and nothing stays pending for ever.  While
\* nothing is loaded nothing is pending, so the null m_storageMap is never
\* used when applyChange walks the pending keys of a clear.
PendingMatchesInFlight ==
  \A p \in Procs : live[p] /\ ~terminated =>
    /\ cache[p].map = NoMap =>
         /\ \A k \in Keys : cache[p].pending[k] = 0
         /\ ~cache[p].pendingClear /\ ~cache[p].pendingGetValues
    /\ \A k \in Keys :
         cache[p].pending[k] =
           InFlight(p, {"SetItem", "RemoveItem"}, {"DidSetItem", "DidRemoveItem"}, k)
    /\ InFlight(p, {"Clear"}, {"DidClear"}, Null) = IF cache[p].pendingClear THEN 1 ELSE 0
    /\ InFlight(p, {"GetValues"}, {"DidGetValues"}, Null) =
         IF waiting[p] \/ cache[p].pendingGetValues THEN 1 ELSE 0

Unprocessed(p, k) ==
  {i \in DOMAIN toManager[p] :
     /\ toManager[p][i].type \in {"SetItem", "RemoveItem"}
     /\ toManager[p][i].id = mapID[p] /\ toManager[p][i].seed = cache[p].seed
     /\ toManager[p][i].key = k}

\* A process sees its own last change of a key until the manager has
\* processed it: "our change was made last" (shouldApplyChangeForKey), and
\* local changes "must still be kept around" when another process clears
\* (applyChange).
OwnChangesAreKept ==
  \A p \in Procs, k \in Keys : live[p] /\ Unprocessed(p, k) # {} =>
    GetItem(cache[p].map, k) = toManager[p][Max(Unprocessed(p, k))].value

\* A connection is forgotten neither too early nor too late.  Until the
\* application terminates, every message about a map finds its storage area
\* (findStorageArea), over map destruction and crashes; a process that is
\* gone is forgotten once its messages are handled, so that the area can be
\* destroyed and its database closed (invalidateConnectionInternal,
\* destroyStorageMap).
MessagesFindTheirArea ==
  \A p \in Procs :
    /\ toManager[p] # <<>> /\ ~terminated =>
         LET m == Head(toManager[p])
         IN  m.type \in {"GetValues", "SetItem", "RemoveItem", "Clear",
                         "DestroyStorageMap"} => FindStorageArea(p, m)
    /\ ~live[p] /\ toManager[p] = <<>> => listener[p] = 0

\* The running totals that decide about the quota are the lengths of what
\* is stored, in the caches and in the area (setItem, removeItem,
\* importItems).
LengthsAreExact ==
  /\ ExactLength(area)
  /\ \A p \in Procs : cache[p].map # NoMap => ExactLength(cache[p].map)

Busy(p) ==
  /\ ~terminated
  /\ \/ waiting[p] \/ cache[p].pendingClear \/ cache[p].pendingGetValues
     \/ \E k \in Keys : cache[p].pending[k] > 0

\* A page that waits for its values gets them, and everything pending is
\* acknowledged or reset in the end, unless the application terminates first
\* (the number of operations is bounded).
EverythingSettles == (\E p \in Procs : Busy(p)) ~> (\A p \in Procs : ~Busy(p))
=============================================================================
