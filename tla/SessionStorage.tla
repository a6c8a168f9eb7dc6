--------------------------- MODULE SessionStorage ---------------------------
(***************************************************************************)
(* Session storage of one origin in the pages of one web process: the      *)
(* StorageManager's session storage namespaces, one per page, and the ways *)
(* their messages take.                                                    *)
(*                                                                         *)
(* The connection's queue reads the process's messages in order.  It hands *)
(* those for the StorageManager to the manager's work queue and the others *)
(* to the main thread, which in turn dispatches creation, cloning and      *)
(* destruction of namespaces to the work queue.                            *)
(*                                                                         *)
(* A cloned storage area shares its StorageMap until one of the two is     *)
(* written (copy on write): an area names its map, an element of Pages     *)
(* used as an address, and the references of a map are the areas naming it.*)
(***************************************************************************)
EXTENDS StorageMap, Sequences

CONSTANTS Pages, NoPage, firstPage, NoReply,
          MaxChanges      \* bound on the changes pages make

ASSUME PagesAssumption == firstPage \in Pages /\ NoPage \notin Pages
ASSUME RepliesAssumption ==
  /\ NoReply \notin Items \cup Pages \cup {NoPage}
  /\ NoPage \notin Items /\ Pages \cap Items = {}
ASSUME FiniteAssumption == IsFiniteSet(Pages) /\ IsFiniteSet(Keys)
ASSUME BoundsAssumption == MaxChanges \in Nat

VARIABLES
  view,          \* what page n's scripts have made of its session storage
  inProcess,     \* pages that exist in the web process
  mapped,        \* pages with a StorageAreaMap for the origin
  blocked,       \* the page waiting for a synchronous reply, or NoPage
  reply,         \* the reply on its way to it
  wire,          \* messages of the web process
  closing,       \* pages the UI process has told the web process to close
  pages,         \* open pages, on the main thread
  created,       \* pages that have ever been opened
  orphans,       \* pages whose opener was closed while it opened them
  mainQueue, managerQueue,
  namespaces,    \* m_sessionStorageNamespaces
  byConnection,  \* m_storageAreasByConnection: pages whose area has a listener
  mapOf,         \* the StorageMap of a page's StorageArea; NoPage: no area
  maps,          \* the StorageMaps
  changes

webVars == <<view, inProcess, mapped, blocked, changes>>
uiVars == <<closing, pages, created, orphans>>
managerVars == <<namespaces, byConnection, mapOf, maps>>
vars == <<webVars, reply, wire, uiVars, mainQueue, managerQueue, managerVars>>

Messages == [type : {"CreateSessionStorageMap", "DestroyStorageMap", "GetValues",
                     "SetItem", "RemoveItem", "Clear", "CreateNewPage",
                     "CreateNamespace", "CloneNamespace", "DestroyNamespace"},
             page : Pages, to : Pages \cup {NoPage},
             key : Keys \cup {Null}, value : Values \cup {Null}]

\* The type invariant.
TypeOK ==
  /\ view \in [Pages -> Items]
  /\ inProcess \subseteq Pages /\ mapped \subseteq inProcess
  /\ blocked \in Pages \cup {NoPage}
  /\ reply \in Items \cup Pages \cup {NoPage, NoReply}
  /\ wire \in Seq(Messages) /\ mainQueue \in Seq(Messages) /\ managerQueue \in Seq(Messages)
  /\ pages \subseteq created /\ orphans \subseteq created /\ created \subseteq Pages /\ closing \subseteq created
  /\ namespaces \subseteq created /\ byConnection \subseteq created
  /\ mapOf \in [Pages -> Pages \cup {NoPage}]
  /\ maps \in [Pages -> StorageMaps]
  /\ changes \in 0 .. MaxChanges

\* The first page is open and its namespace has been created.
Init ==
  /\ view = [n \in Pages |-> Create.items]
  /\ inProcess = {firstPage} /\ mapped = {}
  /\ blocked = NoPage /\ reply = NoReply
  /\ wire = <<>> /\ mainQueue = <<>> /\ managerQueue = <<>>
  /\ pages = {firstPage} /\ created = {firstPage} /\ closing = {} /\ orphans = {}
  /\ namespaces = {firstPage} /\ byConnection = {}
  /\ mapOf = [n \in Pages |-> NoPage]
  /\ maps = [n \in Pages |-> Create]
  /\ changes = 0

Msg(type, n, to, k, v) == [type |-> type, page |-> n, to |-> to, key |-> k, value |-> v]
-----------------------------------------------------------------------------
(* The web process; nothing runs while a synchronous message waits.        *)

Running(n) == n \in inProcess /\ blocked = NoPage

Sends(m) == wire' = Append(wire, m)

UnchangedByWeb == UNCHANGED <<reply, uiVars, mainQueue, managerQueue, managerVars>>

\* First use of sessionStorage: StorageNamespaceImpl::storageArea.
CreateMap(n) ==
  /\ Running(n) /\ n \notin mapped
  /\ mapped' = mapped \cup {n}
  /\ Sends(Msg("CreateSessionStorageMap", n, NoPage, Null, Null))
  /\ UnchangedByWeb /\ UNCHANGED <<view, inProcess, blocked, changes>>

Change(n, items, m) ==
  /\ Running(n) /\ n \in mapped /\ changes < MaxChanges
  /\ view' = [view EXCEPT ![n] = items]
  /\ changes' = changes + 1
  /\ Sends(m)
  /\ UnchangedByWeb /\ UNCHANGED <<inProcess, mapped, blocked>>

PageSetItem(n, k, v) ==
  /\ view[n][k] # v
  /\ Change(n, [view[n] EXCEPT ![k] = v], Msg("SetItem", n, NoPage, k, v))

PageRemoveItem(n, k) ==
  /\ view[n][k] # Absent
  /\ Change(n, [view[n] EXCEPT ![k] = Absent], Msg("RemoveItem", n, NoPage, k, Null))

PageClear(n) == Change(n, Create.items, Msg("Clear", n, NoPage, Null, Null))

LoadValues(n) ==
  /\ Running(n) /\ n \in mapped
  /\ blocked' = n
  /\ Sends(Msg("GetValues", n, NoPage, Null, Null))
  /\ UnchangedByWeb /\ UNCHANGED <<view, inProcess, mapped, changes>>

\* window.open: the synchronous CreateNewPage.
WindowOpen(n) ==
  /\ Running(n) /\ created # Pages
  /\ blocked' = n
  /\ Sends(Msg("CreateNewPage", n, NoPage, Null, Null))
  /\ UnchangedByWeb /\ UNCHANGED <<view, inProcess, mapped, changes>>

\* The reply is a page's values, or the new page (none if it was refused).
ReceiveReply ==
  /\ reply # NoReply
  /\ blocked' = NoPage /\ reply' = NoReply
  /\ IF reply \in Pages
     THEN /\ inProcess' = inProcess \cup {reply}
          /\ view' = IF reply \in orphans THEN view
                      ELSE [view EXCEPT ![reply] = view[blocked]]
     ELSE UNCHANGED <<inProcess, view>>
  /\ UNCHANGED <<mapped, wire, uiVars, mainQueue, managerQueue, managerVars, changes>>

\* WebPage::close: the page's StorageAreaMap goes with it.
ClosePage(n) ==
  /\ Running(n) /\ n \in closing
  /\ inProcess' = inProcess \ {n} /\ mapped' = mapped \ {n}
  /\ wire' = IF n \in mapped THEN Append(wire, Msg("DestroyStorageMap", n, NoPage, Null, Null))
             ELSE wire
  /\ UnchangedByWeb /\ UNCHANGED <<view, blocked, changes>>
-----------------------------------------------------------------------------
(* The connection's queue and the main thread.                             *)

Deliver ==
  /\ wire # <<>>
  /\ wire' = Tail(wire)
  /\ IF Head(wire).type = "CreateNewPage"
     THEN mainQueue' = Append(mainQueue, Head(wire)) /\ UNCHANGED managerQueue
     ELSE managerQueue' = Append(managerQueue, Head(wire)) /\ UNCHANGED mainQueue
  /\ UNCHANGED <<webVars, reply, uiVars, managerVars>>

\* WebPageProxy::createNewPage; c is the page the application makes, and
\* dispatched what that puts on the manager's queue.
OpenPage(c, dispatched) ==
  /\ c \in Pages \ created
  /\ created' = created \cup {c}
  /\ reply' = c
  /\ managerQueue' = managerQueue \o dispatched

CreateNamespace(c) == Msg("CreateNamespace", c, NoPage, Null, Null)
CloneNamespace(n, c) == Msg("CloneNamespace", n, c, Null, Null)
DestroyNamespace(n) == Msg("DestroyNamespace", n, NoPage, Null, Null)

\* Mutant: the new page's namespace is created after the clone is asked for.
CloneBeforeCreate(n) ==
  /\ \E c \in Pages : OpenPage(c, <<CloneNamespace(n, c), CreateNamespace(c)>>)
                        /\ pages' = pages \cup {c}
  /\ UNCHANGED <<closing, orphans>>

Opened(n) ==
  /\ \E c \in Pages : OpenPage(c, <<CreateNamespace(c), CloneNamespace(n, c)>>)
                        /\ pages' = pages \cup {c}
  /\ UNCHANGED <<closing, orphans>>

\* The application closes page n from within its createNewPage callback:
\* the new page is not given n's storage.
OpenedAndClosed(n) ==
  /\ \E c \in Pages :
       /\ OpenPage(c, <<CreateNamespace(c), DestroyNamespace(n), CloneNamespace(n, c)>>)
       /\ pages' = (pages \ {n}) \cup {c} /\ orphans' = orphans \cup {c}
  /\ closing' = closing \cup {n}

\* No page: the application refuses, or page n is closed already.
Refused == reply' = NoPage /\ UNCHANGED <<managerQueue, uiVars>>

CreateNewPage ==
  /\ mainQueue # <<>>
  /\ mainQueue' = Tail(mainQueue)
  /\ LET n == Head(mainQueue).page
     IN  \/ n \in pages /\ (Opened(n) \/ OpenedAndClosed(n))
         \/ Refused
  /\ UNCHANGED <<webVars, wire, managerVars>>

\* WebPageProxy::close.
Close(n) ==
  /\ n \in pages
  /\ pages' = pages \ {n} /\ closing' = closing \cup {n}
  /\ managerQueue' = Append(managerQueue, DestroyNamespace(n))
  /\ UNCHANGED <<webVars, reply, wire, created, mainQueue, managerVars, orphans>>
-----------------------------------------------------------------------------
(* The StorageManager.                                                     *)

Handle(type, m) ==
  /\ managerQueue # <<>>
  /\ m = Head(managerQueue)
  /\ m.type = type
  /\ managerQueue' = Tail(managerQueue)
  /\ UNCHANGED <<webVars, wire, uiVars, mainQueue>>

\* An area is kept by its namespace and by its listeners.
Unkept(n, spaces, listeners) ==
  mapOf' = IF n \in spaces \cup listeners THEN mapOf ELSE [mapOf EXCEPT ![n] = NoPage]

CreateSessionStorageNamespace(m) ==
  /\ Handle("CreateNamespace", m)
  /\ namespaces' = namespaces \cup {m.page}
  /\ UNCHANGED <<reply, byConnection, mapOf, maps>>

DestroySessionStorageNamespace(m) ==
  /\ Handle("DestroyNamespace", m)
  /\ namespaces' = namespaces \ {m.page}
  /\ Unkept(m.page, namespaces', byConnection)
  /\ UNCHANGED <<reply, byConnection, maps>>

\* The area of a namespace (it may outlive the namespace).
HasArea(n) == n \in namespaces /\ mapOf[n] # NoPage

CloneSessionStorageNamespace(m) ==
  /\ Handle("CloneNamespace", m)
  /\ mapOf' = IF HasArea(m.page) /\ mapOf[m.to] = NoPage
              THEN [mapOf EXCEPT ![m.to] = mapOf[m.page]] ELSE mapOf
  /\ UNCHANGED <<reply, namespaces, byConnection, maps>>

References(a) == Cardinality({n \in Pages : mapOf[n] = a})
Unused == CHOOSE a \in Pages : References(a) = 0

\* A message for a page that has been closed is ignored.
CreateSessionStorageMap(m) ==
  /\ Handle("CreateSessionStorageMap", m)
  /\ IF m.page \notin namespaces THEN UNCHANGED <<byConnection, mapOf, maps>>
     ELSE /\ byConnection' = byConnection \cup {m.page}
          /\ IF HasArea(m.page) THEN UNCHANGED <<mapOf, maps>>
             ELSE /\ mapOf' = [mapOf EXCEPT ![m.page] = Unused]
                  /\ maps' = [maps EXCEPT ![Unused] = Create]
  /\ UNCHANGED <<reply, namespaces>>

\* Mutant: the message is ignored once the page's namespace is gone.
DestroyMapOfOpenPage(m) ==
  /\ Handle("DestroyStorageMap", m)
  /\ byConnection' = IF m.page \in namespaces THEN byConnection \ {m.page} ELSE byConnection
  /\ UNCHANGED <<reply, namespaces, mapOf, maps>>

DestroyStorageMap(m) ==
  /\ Handle("DestroyStorageMap", m)
  /\ byConnection' = byConnection \ {m.page}
  /\ Unkept(m.page, namespaces, byConnection')
  /\ UNCHANGED <<reply, namespaces, maps>>

\* Mutant: a shared map is written in place.
WriteShared(n, map) == maps' = [maps EXCEPT ![mapOf[n]] = map] /\ UNCHANGED mapOf

\* Copy on write.
Write(n, map) ==
  LET to == IF References(mapOf[n]) > 1 THEN Unused ELSE mapOf[n]
  IN  /\ maps' = [maps EXCEPT ![to] = map]
      /\ mapOf' = [mapOf EXCEPT ![n] = to]

ChangeArea(type, m, map) ==
  /\ Handle(type, m)
  /\ IF m.page \in byConnection THEN Write(m.page, map) ELSE UNCHANGED <<mapOf, maps>>
  /\ UNCHANGED <<reply, namespaces, byConnection>>

ManagerSetItem(m) ==
  ChangeArea("SetItem", m, SetItem(maps[mapOf[m.page]], m.key, m.value, noQuota))
ManagerRemoveItem(m) ==
  ChangeArea("RemoveItem", m, RemoveItem(maps[mapOf[m.page]], m.key))
\* An empty map is left alone, shared or not.
ManagerClear(m) ==
  IF m.page \in byConnection /\ Size(maps[mapOf[m.page]]) = 0
  THEN Handle("Clear", m) /\ UNCHANGED <<reply, managerVars>>
  ELSE ChangeArea("Clear", m, Create)

\* Mutant: no reply for a page that has been closed.
GetValuesOfOpenPage(m) ==
  /\ Handle("GetValues", m)
  /\ reply' = IF m.page \in byConnection THEN maps[mapOf[m.page]].items ELSE reply
  /\ UNCHANGED managerVars

GetValues(m) ==
  /\ Handle("GetValues", m)
  /\ reply' = IF m.page \in byConnection THEN maps[mapOf[m.page]].items ELSE Create.items
  /\ UNCHANGED managerVars

Manager ==
  /\ managerQueue # <<>>
  /\ LET m == Head(managerQueue) IN
       \/ CreateSessionStorageNamespace(m) \/ DestroySessionStorageNamespace(m)
       \/ CloneSessionStorageNamespace(m) \/ CreateSessionStorageMap(m) \/ DestroyStorageMap(m)
       \/ ManagerSetItem(m) \/ ManagerRemoveItem(m) \/ ManagerClear(m) \/ GetValues(m)
-----------------------------------------------------------------------------
Web(n) ==
  \/ CreateMap(n) \/ LoadValues(n) \/ WindowOpen(n) \/ ClosePage(n) \/ PageClear(n)
  \/ \E k \in Keys, v \in Values : PageSetItem(n, k, v)
  \/ \E k \in Keys : PageRemoveItem(n, k)

Next ==
  \/ \E n \in Pages : Web(n) \/ Close(n)
  \/ ReceiveReply \/ Deliver \/ CreateNewPage \/ Manager

Spec == Init /\ [][Next]_vars

FairSpec ==
  Spec /\ WF_vars(ReceiveReply) /\ WF_vars(Deliver) /\ WF_vars(CreateNewPage) /\ WF_vars(Manager)
-----------------------------------------------------------------------------
(* Properties.                                                             *)

Settled(n) ==
  \A queue \in {wire, mainQueue, managerQueue} :
    \A i \in DOMAIN queue : n \notin {queue[i].page, queue[i].to}

Contents(n) == IF mapOf[n] = NoPage THEN Create.items ELSE maps[mapOf[n]].items

\* Once its messages are handled, the storage of an open page holds what
\* that page has made of it: a new page starts with all its opener had
\* written before window.open, though the clone takes another way than the
\* writes, and neither page sees the other's later changes (cloneTo and the
\* copy on write of StorageMap).  A page that loads its values gets all it
\* has written, before and after it was cloned (getValues).
PagesHaveTheirStorage ==
  /\ \A n \in pages \cap inProcess : Settled(n) => Contents(n) = view[n]
  /\ reply \in Items /\ blocked \in pages => reply = view[blocked]

\* The namespace a clone is made into exists: the assertion of
\* cloneSessionStorageNamespaceInternal, which would dereference null.
CloneFindsNewNamespace ==
  managerQueue # <<>> /\ Head(managerQueue).type = "CloneNamespace"
    => Head(managerQueue).to \in namespaces

\* A page that is closed on both sides leaves no namespace, listener or
\* storage area behind, in whatever order its last messages and its
\* destruction are handled.
StorageIsReleased ==
  \A n \in created \ (pages \cup inProcess) : Settled(n) /\ reply # n =>
    n \notin namespaces \cup byConnection /\ mapOf[n] = NoPage

\* A page blocked in a synchronous message is answered.
RepliesArrive == blocked # NoPage ~> blocked = NoPage
=============================================================================
