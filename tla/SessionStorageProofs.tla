------------------------ MODULE SessionStorageProofs ------------------------
(***************************************************************************)
(* A cloned session storage namespace is always there to be cloned into,   *)
(* closed pages leave nothing behind, and every page has its storage.      *)
(*                                                                         *)
(* What protects the pointer cloneSessionStorageNamespaceInternal uses is  *)
(* the order in which the main thread dispatches to the manager's queue:   *)
(* the creation of a page's namespace, then the clone into it, and only    *)
(* then, once the page can be closed, its destruction.  The invariant says *)
(* that the queue still is in that order, whatever the web process's own   *)
(* messages in between.  The other two theorems follow the two ways that   *)
(* messages take to the manager in the same manner: what is on them ends   *)
(* what is to be released, and leads from the storage the manager has to   *)
(* the storage a page has made of it.                                      *)
(***************************************************************************)
EXTENDS SessionStorage, TLAPS

\* The prover of a step that names none.
USE ZenonT(60)

Creates(m, n) == m.type = "CreateNamespace" /\ m.page = n

Destroys(m, n) == m.type = "DestroyNamespace" /\ m.page = n

\* Before each clone in queue q its target is not destroyed, and it is
\* created, unless it exists already (is in spaces).
CloneOrder(q, spaces) ==
  \A i \in DOMAIN q : q[i].type = "CloneNamespace" =>
    /\ \A j \in 1 .. i - 1 : ~Destroys(q[j], q[i].to)
    /\ q[i].to \in spaces \/ \E j \in 1 .. i - 1 : Creates(q[j], q[i].to)

\* Only a page that has been opened is destroyed.
DestroyedWereCreated(q, opened) ==
  \A i \in DOMAIN q : q[i].type = "DestroyNamespace" => q[i].page \in opened

NamespaceMessages == {"CreateNamespace", "CloneNamespace", "DestroyNamespace"}

\* The messages of a web process are not about namespaces.
WebMessages == {m \in Messages : m.type \notin NamespaceMessages}

\* The inductive invariant.
IInv ==
  /\ wire \in Seq(WebMessages) /\ mainQueue \in Seq(WebMessages)
  /\ managerQueue \in Seq(Messages)
  /\ pages \subseteq created /\ created \subseteq Pages
  /\ DestroyedWereCreated(managerQueue, created)
  /\ CloneOrder(managerQueue, namespaces)
-----------------------------------------------------------------------------
(* The order of the queue.                                                 *)

\* Appending anything but a clone leaves the clones of a queue in order.
LEMMA AppendKeepsOrder ==
  ASSUME NEW q \in Seq(Messages), NEW spaces, NEW m \in Messages,
         CloneOrder(q, spaces), m.type # "CloneNamespace"
  PROVE  CloneOrder(Append(q, m), spaces)
  <1> DEFINE r == Append(q, m)
  <1>1. /\ DOMAIN r = 1 .. Len(q) + 1 /\ DOMAIN q = 1 .. Len(q) /\ Len(q) \in Nat
        /\ \A i \in 1 .. Len(q) : r[i] = q[i]
        /\ r[Len(q) + 1] = m
    BY SMTT(30)
  <1> HIDE DEF r
  <1>2. SUFFICES ASSUME NEW i \in DOMAIN r, r[i].type = "CloneNamespace"
                 PROVE  /\ \A j \in 1 .. i - 1 : ~Destroys(r[j], r[i].to)
                        /\ \/ r[i].to \in spaces
                           \/ \E j \in 1 .. i - 1 : Creates(r[j], r[i].to)
    BY DEF CloneOrder, r
  <1>3. i \in DOMAIN q /\ r[i] = q[i] /\ \A j \in 1 .. i - 1 : r[j] = q[j]
    BY <1>1, <1>2, SMTT(30)
  <1> QED
    BY <1>2, <1>3 DEF CloneOrder

\* A clone may be appended when its target is created, and not destroyed, by
\* what is in the queue.
LEMMA AppendCloneInOrder ==
  ASSUME NEW q \in Seq(Messages), NEW spaces, NEW m \in Messages,
         CloneOrder(q, spaces),
         \A j \in DOMAIN q : ~Destroys(q[j], m.to),
         \E j \in DOMAIN q : Creates(q[j], m.to)
  PROVE  CloneOrder(Append(q, m), spaces)
  <1> DEFINE r == Append(q, m)
  <1>1. /\ DOMAIN r = 1 .. Len(q) + 1 /\ DOMAIN q = 1 .. Len(q) /\ Len(q) \in Nat
        /\ \A i \in 1 .. Len(q) : r[i] = q[i]
        /\ r[Len(q) + 1] = m
    BY SMTT(30)
  <1> HIDE DEF r
  <1>2. SUFFICES ASSUME NEW i \in DOMAIN r, r[i].type = "CloneNamespace"
                 PROVE  /\ \A j \in 1 .. i - 1 : ~Destroys(r[j], r[i].to)
                        /\ \/ r[i].to \in spaces
                           \/ \E j \in 1 .. i - 1 : Creates(r[j], r[i].to)
    BY DEF CloneOrder, r
  <1>3. \A j \in 1 .. i - 1 : j \in DOMAIN q /\ r[j] = q[j]
    BY <1>1, SMTT(30)
  <1>4. CASE i \in DOMAIN q
    BY <1>1, <1>2, <1>3, <1>4 DEF CloneOrder
  <1>5. CASE i = Len(q) + 1
    <2>1. r[i] = m /\ 1 .. i - 1 = DOMAIN q
      BY <1>1, <1>5, SMTT(30)
    <2> QED
      BY <2>1, <1>3
  <1> QED
    BY <1>1, <1>4, <1>5, SMTT(30)

\* Handling the head of the queue as the manager does keeps the rest in order.
LEMMA TailKeepsOrder ==
  ASSUME NEW q \in Seq(Messages), NEW spaces, NEW after, q # << >>,
         CloneOrder(q, spaces),
         \A n : n \in spaces /\ ~Destroys(Head(q), n) => n \in after,
         \A n : Creates(Head(q), n) => n \in after
  PROVE  CloneOrder(Tail(q), after)
  <1> DEFINE r == Tail(q)
  <1>1. /\ Len(q) \in Nat \ {0} /\ DOMAIN q = 1 .. Len(q) /\ DOMAIN r = 1 .. Len(q) - 1
        /\ \A i \in 1 .. Len(q) - 1 : r[i] = q[i + 1]
        /\ Head(q) = q[1]
    BY SMTT(30)
  <1> HIDE DEF r
  <1>2. SUFFICES ASSUME NEW i \in DOMAIN r, r[i].type = "CloneNamespace"
                 PROVE  /\ \A j \in 1 .. i - 1 : ~Destroys(r[j], r[i].to)
                        /\ \/ r[i].to \in after
                           \/ \E j \in 1 .. i - 1 : Creates(r[j], r[i].to)
    BY DEF CloneOrder, r
  <1>3. i + 1 \in DOMAIN q /\ i \in Nat \ {0} /\ r[i] = q[i + 1]
    BY <1>1, SMTT(30)
  <1>4. /\ \A j \in 1 .. i : ~Destroys(q[j], r[i].to)
        /\ \/ r[i].to \in spaces
           \/ \E j \in 1 .. i : Creates(q[j], r[i].to)
    <2>1. (i + 1) - 1 = i
      BY <1>3, SMTT(30)
    <2> QED
      BY <1>2, <1>3, <2>1 DEF CloneOrder
  <1>5. \A j \in 1 .. i - 1 : j + 1 \in 1 .. i /\ r[j] = q[j + 1]
    BY <1>1, <1>3, SMTT(30)
  <1>6. \A j \in 1 .. i - 1 : ~Destroys(r[j], r[i].to)
    BY <1>4, <1>5
  <1>7. CASE r[i].to \in spaces
    <2>1. ~Destroys(Head(q), r[i].to)
      BY <1>1, <1>3, <1>4, SMTT(30)
    <2> QED
      BY <1>6, <1>7, <2>1
  <1>8. CASE \E j \in 1 .. i : Creates(q[j], r[i].to)
    <2>1. PICK j \in 1 .. i : Creates(q[j], r[i].to)
      BY <1>8
    <2>2. CASE j = 1
      BY <1>1, <1>6, <2>1, <2>2
    <2>3. CASE j # 1
      <3>1. j - 1 \in 1 .. i - 1 /\ r[j - 1] = q[j]
        BY <1>1, <1>3, <2>1, <2>3, SMTT(30)
      <3> QED
        BY <1>6, <2>1, <3>1
    <2> QED
      BY <2>2, <2>3
  <1> QED
    BY <1>4, <1>7, <1>8

\* What appending and handling a message do to the queues as sets of messages.
LEMMA QueueTypes ==
  ASSUME NEW M, NEW q \in Seq(M)
  PROVE  /\ \A m \in M : Append(q, m) \in Seq(M)
         /\ q # << >> => Tail(q) \in Seq(M) /\ Head(q) \in M
  BY SMTT(30)

LEMMA AppendDestroyed ==
  ASSUME NEW q \in Seq(Messages), NEW opened, NEW m \in Messages,
         DestroyedWereCreated(q, opened),
         m.type = "DestroyNamespace" => m.page \in opened
  PROVE  DestroyedWereCreated(Append(q, m), opened)
  BY SMTT(30) DEF DestroyedWereCreated

LEMMA TailDestroyed ==
  ASSUME NEW q \in Seq(Messages), NEW opened, q # << >>,
         DestroyedWereCreated(q, opened)
  PROVE  DestroyedWereCreated(Tail(q), opened)
  BY SMTT(30) DEF DestroyedWereCreated

\* The messages a page sends are not about namespaces.
LEMMA WebMsgType ==
  ASSUME NEW n \in Pages, NEW k \in Keys \cup {Null}, NEW v \in Values \cup {Null},
         NEW type \in {"CreateSessionStorageMap", "DestroyStorageMap", "GetValues",
                       "SetItem", "RemoveItem", "Clear", "CreateNewPage"}
  PROVE  Msg(type, n, NoPage, k, v) \in WebMessages
  BY DEF WebMessages, NamespaceMessages, Msg, Messages

\* The messages about namespaces, and what they say.
LEMMA NamespaceMsgTypes ==
  ASSUME NEW n \in Pages, NEW c \in Pages
  PROVE  /\ CreateNamespace(c) \in Messages
         /\ CreateNamespace(c).type = "CreateNamespace" /\ CreateNamespace(c).page = c
         /\ CloneNamespace(n, c) \in Messages
         /\ CloneNamespace(n, c).type = "CloneNamespace" /\ CloneNamespace(n, c).to = c
         /\ DestroyNamespace(n) \in Messages
         /\ DestroyNamespace(n).type = "DestroyNamespace" /\ DestroyNamespace(n).page = n
  BY DEF CreateNamespace, CloneNamespace, DestroyNamespace, Msg, Messages

\* What opening page c from page n puts on the manager's queue.
Dispatched(n, c) ==
  {<<CreateNamespace(c), CloneNamespace(n, c)>>,
   <<CreateNamespace(c), DestroyNamespace(n), CloneNamespace(n, c)>>}

\* createNewPage dispatches creation and clone in order, though it may also
\* close the opener between the two.
LEMMA OpenKeepsOrder ==
  ASSUME NEW q \in Seq(Messages), NEW spaces, NEW opened,
         NEW n \in Pages, NEW c \in Pages, n \in opened, c \notin opened,
         CloneOrder(q, spaces), DestroyedWereCreated(q, opened),
         NEW d \in Dispatched(n, c)
  PROVE  /\ q \o d \in Seq(Messages)
         /\ CloneOrder(q \o d, spaces)
         /\ DestroyedWereCreated(q \o d, opened \cup {c})
  <1> DEFINE a == CreateNamespace(c)
             b == CloneNamespace(n, c)
             e == DestroyNamespace(n)
             qa == Append(q, a)
             qe == Append(qa, e)
  <1>1. /\ a \in Messages /\ a.type = "CreateNamespace" /\ a.page = c
        /\ b \in Messages /\ b.type = "CloneNamespace" /\ b.to = c
        /\ e \in Messages /\ e.type = "DestroyNamespace" /\ e.page = n
    BY NamespaceMsgTypes, SMTT(30)
  <1>2. d \in {<<a, b>>, <<a, e, b>>}
    BY DEF Dispatched
  <1> HIDE DEF a, b, e
  <1>3. /\ DestroyedWereCreated(q, opened \cup {c})
        /\ \A j \in DOMAIN q : ~Destroys(q[j], c)
    BY DEF DestroyedWereCreated, Destroys
  <1>4. /\ qa \in Seq(Messages) /\ CloneOrder(qa, spaces)
        /\ DestroyedWereCreated(qa, opened \cup {c})
    BY <1>1, <1>3, QueueTypes, AppendKeepsOrder, AppendDestroyed
  <1>5. /\ \A j \in DOMAIN qa : ~Destroys(qa[j], c)
        /\ \E j \in DOMAIN qa : Creates(qa[j], c)
    <2>1. /\ DOMAIN qa = 1 .. Len(q) + 1 /\ DOMAIN q = 1 .. Len(q) /\ Len(q) \in Nat
          /\ \A i \in 1 .. Len(q) : qa[i] = q[i]
          /\ qa[Len(q) + 1] = a
      BY <1>1, SMTT(30)
    <2> QED
      BY <1>1, <1>3, <2>1, SMTT(30) DEF Creates, Destroys
  <1> HIDE DEF qa
  <1>6. CASE d = <<a, b>>
    <2>1. q \o d = Append(qa, b)
      BY <1>1, <1>6, SMTT(30) DEF qa
    <2> QED
      BY <1>1, <1>4, <1>5, <2>1, QueueTypes, AppendCloneInOrder, AppendDestroyed, SMTT(30)
  <1>7. CASE d = <<a, e, b>>
    <2>1. q \o d = Append(qe, b)
      BY <1>1, <1>7, SMTT(30) DEF qa
    <2>2. /\ qe \in Seq(Messages) /\ CloneOrder(qe, spaces)
          /\ DestroyedWereCreated(qe, opened \cup {c})
      BY <1>1, <1>4, QueueTypes, AppendKeepsOrder, AppendDestroyed
    <2>3. /\ \A j \in DOMAIN qe : ~Destroys(qe[j], c)
          /\ \E j \in DOMAIN qe : Creates(qe[j], c)
      <3>1. /\ DOMAIN qe = 1 .. Len(qa) + 1 /\ DOMAIN qa = 1 .. Len(qa) /\ Len(qa) \in Nat
            /\ \A i \in 1 .. Len(qa) : qe[i] = qa[i]
            /\ qe[Len(qa) + 1] = e
        BY <1>1, <1>4, SMTT(30)
      <3>2. ~Destroys(e, c)
        BY <1>1 DEF Destroys
      <3> QED
        BY <1>5, <3>1, <3>2, SMTT(30)
    <2> HIDE DEF qe
    <2> QED
      BY <1>1, <2>1, <2>2, <2>3, QueueTypes, AppendCloneInOrder, AppendDestroyed, SMTT(30)
  <1> QED
    BY <1>2, <1>6, <1>7
-----------------------------------------------------------------------------
(* The invariant.                                                          *)

LEMMA InitIInv == Init => IInv
  BY PagesAssumption, SMTT(30) DEF Init, IInv, DestroyedWereCreated, CloneOrder

\* A step of a page only adds to what the web process has sent.
LEMMA WebIInv == ASSUME IInv, NEW n \in Pages, Web(n) PROVE IInv'
  <1>1. /\ UNCHANGED <<mainQueue, managerQueue, pages, created, namespaces>>
        /\ \/ wire' = wire
           \/ \E m \in WebMessages : wire' = Append(wire, m)
    <2>1. CASE CreateMap(n)
      BY <2>1, WebMsgType DEF CreateMap, Sends, UnchangedByWeb, uiVars, managerVars
    <2>2. CASE LoadValues(n)
      BY <2>2, WebMsgType DEF LoadValues, Sends, UnchangedByWeb, uiVars, managerVars
    <2>3. CASE WindowOpen(n)
      BY <2>3, WebMsgType DEF WindowOpen, Sends, UnchangedByWeb, uiVars, managerVars
    <2>4. CASE ClosePage(n)
      BY <2>4, WebMsgType DEF ClosePage, UnchangedByWeb, uiVars, managerVars
    <2>5. CASE PageClear(n)
      BY <2>5, WebMsgType DEF PageClear, Change, Sends, UnchangedByWeb, uiVars, managerVars
    <2>6. CASE \E k \in Keys, v \in Values : PageSetItem(n, k, v)
      BY <2>6, WebMsgType DEF PageSetItem, Change, Sends, UnchangedByWeb, uiVars, managerVars
    <2>7. CASE \E k \in Keys : PageRemoveItem(n, k)
      BY <2>7, WebMsgType DEF PageRemoveItem, Change, Sends, UnchangedByWeb, uiVars, managerVars
    <2> QED
      BY <2>1, <2>2, <2>3, <2>4, <2>5, <2>6, <2>7 DEF Web
  <1>2. wire' \in Seq(WebMessages)
    BY <1>1, QueueTypes DEF IInv
  <1> QED
    BY <1>1, <1>2 DEF IInv, DestroyedWereCreated, CloneOrder

\* The connection's queue hands over messages that are not about namespaces.
LEMMA DeliverIInv == ASSUME IInv, Deliver PROVE IInv'
  <1>1. /\ wire # << >> /\ wire' = Tail(wire)
        /\ UNCHANGED <<pages, created, namespaces>>
        /\ \/ mainQueue' = Append(mainQueue, Head(wire)) /\ managerQueue' = managerQueue
           \/ mainQueue' = mainQueue /\ managerQueue' = Append(managerQueue, Head(wire))
    BY DEF Deliver, uiVars, managerVars
  <1>2. /\ wire' \in Seq(WebMessages) /\ Head(wire) \in WebMessages
        /\ mainQueue' \in Seq(WebMessages)
    BY <1>1, QueueTypes DEF IInv
  <1>3. /\ Head(wire) \in Messages
        /\ Head(wire).type \notin {"CloneNamespace", "DestroyNamespace"}
    BY <1>2 DEF WebMessages, NamespaceMessages
  <1>4. /\ managerQueue' \in Seq(Messages)
        /\ DestroyedWereCreated(managerQueue', created)
        /\ CloneOrder(managerQueue', namespaces)
    BY <1>1, <1>3, QueueTypes, AppendKeepsOrder, AppendDestroyed DEF IInv
  <1> QED
    BY <1>1, <1>2, <1>4 DEF IInv, DestroyedWereCreated, CloneOrder

\* The main thread: a page is new when it is opened.
LEMMA CreateNewPageIInv == ASSUME IInv, CreateNewPage PROVE IInv'
  <1> DEFINE n == Head(mainQueue).page
  <1>1. /\ mainQueue' \in Seq(WebMessages)
        /\ wire' = wire /\ namespaces' = namespaces
    BY QueueTypes DEF CreateNewPage, IInv, managerVars
  <1>2. CASE Refused
    BY <1>1, <1>2 DEF Refused, uiVars, IInv, DestroyedWereCreated, CloneOrder
  <1>3. CASE n \in pages /\ (Opened(n) \/ OpenedAndClosed(n))
    <2>1. PICK c \in Pages :
            /\ \E d \in Dispatched(n, c) : OpenPage(c, d)
            /\ pages' \subseteq pages \cup {c}
      BY <1>3 DEF Opened, OpenedAndClosed, Dispatched
    <2> PICK d \in Dispatched(n, c) : OpenPage(c, d)
      BY <2>1
    <2>2. /\ c \notin created /\ created' = created \cup {c}
          /\ managerQueue' = managerQueue \o d
      BY DEF OpenPage
    <2>3. n \in Pages /\ n \in created
      BY <1>3 DEF IInv
    <2>4. /\ managerQueue' \in Seq(Messages)
          /\ CloneOrder(managerQueue', namespaces)
          /\ DestroyedWereCreated(managerQueue', created')
      BY <2>1, <2>2, <2>3, OpenKeepsOrder DEF IInv
    <2> QED
      BY <1>1, <2>1, <2>2, <2>4 DEF IInv, DestroyedWereCreated, CloneOrder
  <1> QED
    BY <1>2, <1>3 DEF CreateNewPage

LEMMA CloseIInv == ASSUME IInv, NEW n \in Pages, Close(n) PROVE IInv'
  <1>1. /\ UNCHANGED <<wire, mainQueue, created, namespaces>>
        /\ n \in created /\ pages' \subseteq pages
        /\ managerQueue' = Append(managerQueue, DestroyNamespace(n))
    BY DEF Close, IInv, managerVars
  <1>2. /\ managerQueue' \in Seq(Messages)
        /\ CloneOrder(managerQueue', namespaces)
        /\ DestroyedWereCreated(managerQueue', created)
    BY <1>1, NamespaceMsgTypes, QueueTypes, AppendKeepsOrder, AppendDestroyed, SMTT(30) DEF IInv
  <1> QED
    BY <1>1, <1>2 DEF IInv, DestroyedWereCreated, CloneOrder

\* The manager takes one message, and only creation and destruction change
\* the namespaces.
LEMMA ManagerIInv == ASSUME IInv, Manager PROVE IInv'
  <1> DEFINE m == Head(managerQueue)
  <1>1. /\ managerQueue # << >> /\ managerQueue' = Tail(managerQueue)
        /\ UNCHANGED <<wire, mainQueue, pages, created>>
        /\ \/ m.type = "CreateNamespace" /\ namespaces' = namespaces \cup {m.page}
           \/ m.type = "DestroyNamespace" /\ namespaces' = namespaces \ {m.page}
           \/ m.type # "CreateNamespace" /\ namespaces' = namespaces
    <2>1. CASE CreateSessionStorageNamespace(m)
      BY <2>1 DEF CreateSessionStorageNamespace, Handle, uiVars
    <2>2. CASE DestroySessionStorageNamespace(m)
      BY <2>2 DEF DestroySessionStorageNamespace, Handle, uiVars
    <2>3. CASE CloneSessionStorageNamespace(m)
      BY <2>3 DEF CloneSessionStorageNamespace, Handle, uiVars
    <2>4. CASE CreateSessionStorageMap(m) \/ DestroyStorageMap(m)
      BY <2>4 DEF CreateSessionStorageMap, DestroyStorageMap, Handle, uiVars
    <2>5. CASE ManagerSetItem(m) \/ ManagerRemoveItem(m)
      BY <2>5 DEF ManagerSetItem, ManagerRemoveItem, ChangeArea, Handle, uiVars
    <2>6. CASE ManagerClear(m) \/ GetValues(m)
      BY <2>6 DEF ManagerClear, GetValues, ChangeArea, Handle, uiVars, managerVars
    <2> QED
      BY <2>1, <2>2, <2>3, <2>4, <2>5, <2>6 DEF Manager
  <1>2. /\ \A n : n \in namespaces /\ ~Destroys(m, n) => n \in namespaces'
        /\ \A n : Creates(m, n) => n \in namespaces'
    BY <1>1 DEF Destroys, Creates
  <1>3. /\ managerQueue' \in Seq(Messages)
        /\ CloneOrder(managerQueue', namespaces')
        /\ DestroyedWereCreated(managerQueue', created)
    BY <1>1, <1>2, QueueTypes, TailKeepsOrder, TailDestroyed DEF IInv
  <1> QED
    BY <1>1, <1>3 DEF IInv, DestroyedWereCreated, CloneOrder

LEMMA NextIInv == IInv /\ [Next]_vars => IInv'
  <1> SUFFICES ASSUME IInv, [Next]_vars PROVE IInv'
    OBVIOUS
  <1>1. CASE \E n \in Pages : Web(n) \/ Close(n)
    BY <1>1, WebIInv, CloseIInv
  <1>2. CASE ReceiveReply
    BY <1>2 DEF ReceiveReply, uiVars, managerVars, IInv, DestroyedWereCreated, CloneOrder
  <1>3. CASE Deliver
    BY <1>3, DeliverIInv
  <1>4. CASE CreateNewPage
    BY <1>4, CreateNewPageIInv
  <1>5. CASE Manager
    BY <1>5, ManagerIInv
  <1>6. CASE UNCHANGED vars
    BY <1>6 DEF vars, uiVars, managerVars, IInv, DestroyedWereCreated, CloneOrder
  <1> QED
    BY <1>1, <1>2, <1>3, <1>4, <1>5, <1>6 DEF Next

\* The first clone in the queue has nothing before it that could still create
\* its target, so the target is there.
LEMMA IInvClone == IInv => CloneFindsNewNamespace
  <1> SUFFICES ASSUME IInv, managerQueue # << >>,
                      Head(managerQueue).type = "CloneNamespace"
               PROVE  Head(managerQueue).to \in namespaces
    BY DEF CloneFindsNewNamespace
  <1>1. 1 \in DOMAIN managerQueue /\ Head(managerQueue) = managerQueue[1]
    BY SMTT(30) DEF IInv
  <1> QED
    BY <1>1, SMTT(30) DEF IInv, CloneOrder

\* For any number of pages and any pattern of opening and closing them, also
\* from within createNewPage, the namespace that
\* cloneSessionStorageNamespaceInternal clones into exists.
THEOREM ClonesFindTheirTarget == Spec => []CloneFindsNewNamespace
  <1>1. Spec => []IInv
    BY InitIInv, NextIInv, PTL DEF Spec
  <1> QED
    BY <1>1, IInvClone, PTL
-----------------------------------------------------------------------------
(* Release.  Areas are kept by namespaces and listeners; either is gone    *)
(* when the last message about it that matters is the one that ends it.    *)

Is(m, type, n) == m.type = type /\ m.page = n

\* No message in q opens n, and the last word in q about n is its end.
NoneOpens(q, open, n) == \A i \in DOMAIN q : ~Is(q[i], open, n)

LastEnds(q, open, end, n) ==
  \E i \in DOMAIN q :
    Is(q[i], end, n) /\ \A j \in i + 1 .. Len(q) : ~Is(q[j], open, n)

\* A namespace that is there, or will be, is destroyed later if its page is
\* closed.
NamespaceEnds(n) ==
  \/ LastEnds(managerQueue, "CreateNamespace", "DestroyNamespace", n)
  \/ NoneOpens(managerQueue, "CreateNamespace", n) /\ n \notin namespaces

\* A listener that is there, or will be, is removed later if the web process
\* has no StorageAreaMap for it.
MapEndsInQueue(n) ==
  \/ LastEnds(managerQueue, "CreateSessionStorageMap", "DestroyStorageMap", n)
  \/ NoneOpens(managerQueue, "CreateSessionStorageMap", n) /\ n \notin byConnection

MapEnds(n) ==
  \/ LastEnds(wire, "CreateSessionStorageMap", "DestroyStorageMap", n)
  \/ NoneOpens(wire, "CreateSessionStorageMap", n) /\ MapEndsInQueue(n)

\* The inductive invariant, given IInv.
RInv ==
  /\ mapped \subseteq inProcess
  /\ mapOf = [n \in Pages |-> mapOf[n]]
  /\ \A n \in Pages : mapOf[n] # NoPage => n \in namespaces \cup byConnection
  /\ \A n \in Pages : n \notin pages => NamespaceEnds(n)
  /\ \A n \in Pages : n \notin mapped => MapEnds(n)

\* Release is kept from the initial state on, and shows StorageIsReleased.
LEMMA ReleaseKept ==
  /\ Init => RInv
  /\ IInv /\ RInv /\ [Next]_vars => RInv'
  /\ IInv /\ RInv => StorageIsReleased
  \* Appending keeps the end of n unless it opens n again; an end appended is
  \* the last word.
  <1>AppendEnds.
    ASSUME NEW q \in Seq(Messages), NEW m \in Messages, NEW open, NEW end, NEW n
    PROVE  /\ LastEnds(q, open, end, n) /\ ~Is(m, open, n)
                => LastEnds(Append(q, m), open, end, n)
           /\ NoneOpens(q, open, n) /\ ~Is(m, open, n) => NoneOpens(Append(q, m), open, n)
           /\ Is(m, end, n) => LastEnds(Append(q, m), open, end, n)
    <2> DEFINE r == Append(q, m)
    <2>1. /\ DOMAIN r = 1 .. Len(q) + 1 /\ DOMAIN q = 1 .. Len(q) /\ Len(q) \in Nat
          /\ Len(r) = Len(q) + 1
          /\ \A i \in 1 .. Len(q) : r[i] = q[i]
          /\ r[Len(q) + 1] = m
      BY SMTT(30)
    <2> HIDE DEF r
    <2>2. ASSUME LastEnds(q, open, end, n), ~Is(m, open, n) PROVE LastEnds(r, open, end, n)
      <3>1. PICK i \in DOMAIN q :
              Is(q[i], end, n) /\ \A j \in i + 1 .. Len(q) : ~Is(q[j], open, n)
        BY <2>2 DEF LastEnds
      <3>2. i \in DOMAIN r /\ Is(r[i], end, n)
        BY <2>1, <3>1, SMTT(30)
      <3>3. \A j \in i + 1 .. Len(r) : ~Is(r[j], open, n)
        <4> TAKE j \in i + 1 .. Len(r)
        <4>1. CASE j = Len(q) + 1
          BY <2>1, <2>2, <4>1
        <4>2. CASE j # Len(q) + 1
          <5>1. j \in i + 1 .. Len(q) /\ j \in 1 .. Len(q)
            BY <2>1, <4>2, SMTT(30)
          <5> QED
            BY <2>1, <3>1, <5>1
        <4> QED
          BY <4>1, <4>2
      <3> QED
        BY <3>2, <3>3 DEF LastEnds
    <2>3. ASSUME NoneOpens(q, open, n), ~Is(m, open, n) PROVE NoneOpens(r, open, n)
      BY <2>1, <2>3, SMTT(30) DEF NoneOpens
    <2>4. ASSUME Is(m, end, n) PROVE LastEnds(r, open, end, n)
      <3>1. /\ Len(q) + 1 \in DOMAIN r /\ Is(r[Len(q) + 1], end, n)
            /\ \A j \in Len(q) + 1 + 1 .. Len(r) : ~Is(r[j], open, n)
        BY <2>1, <2>4, SMTT(30)
      <3> QED
        BY <3>1 DEF LastEnds
    <2> QED
      BY <2>2, <2>3, <2>4 DEF r
  \* Taking the head keeps the end of n, unless the head is that end; then
  \* nothing after it opens n.
  <1>TailEnds.
    ASSUME NEW q \in Seq(Messages), q # << >>, NEW open, NEW end, NEW n
    PROVE  /\ LastEnds(q, open, end, n) =>
                \/ LastEnds(Tail(q), open, end, n)
                \/ Is(Head(q), end, n) /\ NoneOpens(Tail(q), open, n)
           /\ NoneOpens(q, open, n) => NoneOpens(Tail(q), open, n) /\ ~Is(Head(q), open, n)
    <2> USE <1>TailEnds
    <2> DEFINE r == Tail(q)
    <2>1. /\ Len(q) \in Nat \ {0} /\ DOMAIN q = 1 .. Len(q) /\ DOMAIN r = 1 .. Len(q) - 1
          /\ Len(r) = Len(q) - 1
          /\ \A i \in 1 .. Len(q) - 1 : r[i] = q[i + 1]
          /\ Head(q) = q[1]
      BY SMTT(30)
    <2> HIDE DEF r
    <2>2. ASSUME LastEnds(q, open, end, n)
          PROVE  \/ LastEnds(r, open, end, n)
                 \/ Is(Head(q), end, n) /\ NoneOpens(r, open, n)
      <3>1. PICK i \in DOMAIN q :
              Is(q[i], end, n) /\ \A j \in i + 1 .. Len(q) : ~Is(q[j], open, n)
        BY <2>2 DEF LastEnds
      <3>2. CASE i = 1
        <4>1. \A j \in DOMAIN r : j + 1 \in i + 1 .. Len(q) /\ r[j] = q[j + 1]
          BY <2>1, <3>2, SMTT(30)
        <4> QED
          BY <2>1, <3>1, <3>2, <4>1 DEF NoneOpens
      <3>3. CASE i # 1
        <4>1. i - 1 \in DOMAIN r /\ r[i - 1] = q[i]
          BY <2>1, <3>3, SMTT(30)
        <4>2. \A j \in (i - 1) + 1 .. Len(r) : j + 1 \in i + 1 .. Len(q) /\ r[j] = q[j + 1]
          BY <2>1, <3>3, SMTT(30)
        <4> QED
          BY <3>1, <4>1, <4>2 DEF LastEnds
      <3> QED
        BY <3>2, <3>3
    <2>3. ASSUME NoneOpens(q, open, n) PROVE NoneOpens(r, open, n) /\ ~Is(Head(q), open, n)
      <3>1. \A j \in DOMAIN r : j + 1 \in DOMAIN q /\ r[j] = q[j + 1]
        BY <2>1, SMTT(30)
      <3>2. 1 \in DOMAIN q
        BY <2>1, SMTT(30)
      <3> QED
        BY <2>1, <2>3, <3>1, <3>2 DEF NoneOpens
    <2> QED
      BY <2>2, <2>3 DEF r
  <1>InitRInv.
    Init => RInv
    <2> SUFFICES ASSUME Init PROVE RInv
      OBVIOUS
    <2>1. \A n \in Pages : mapOf[n] = NoPage
      BY DEF Init
    <2>2. mapOf = [n \in Pages |-> mapOf[n]] /\ mapped \subseteq inProcess
      BY DEF Init
    <2>3. \A n \in Pages : n \notin pages => NamespaceEnds(n)
      BY SMTT(30) DEF Init, NamespaceEnds, NoneOpens
    <2>4. \A n \in Pages : MapEnds(n)
      BY SMTT(30) DEF Init, MapEnds, MapEndsInQueue, NoneOpens
    <2> QED
      BY <2>1, <2>2, <2>3, <2>4 DEF RInv
  \* A page that is closed sends the end of its map after all else about it.
  <1>WebRInv.
    ASSUME IInv, RInv, NEW p \in Pages, Web(p) PROVE RInv'
    <2> USE <1>WebRInv
    <2>1. UNCHANGED <<managerQueue, pages, namespaces, byConnection, mapOf>>
      BY DEF Web, CreateMap, LoadValues, WindowOpen, ClosePage, PageClear, PageSetItem,
             PageRemoveItem, Change, UnchangedByWeb, uiVars, managerVars
    <2>2. wire \in Seq(Messages)
      BY SMTT(30) DEF IInv, WebMessages
    <2>3. \/ /\ mapped' \subseteq inProcess' /\ mapped' = mapped
             /\ \/ wire' = wire
                \/ \E m \in Messages : /\ m.type # "CreateSessionStorageMap"
                                       /\ wire' = Append(wire, m)
          \/ /\ mapped' \subseteq inProcess' /\ mapped' = mapped \cup {p}
             /\ \E m \in Messages : m.page = p /\ wire' = Append(wire, m)
          \/ /\ mapped' \subseteq inProcess' /\ mapped' = mapped \ {p}
             /\ \E m \in Messages : /\ Is(m, "DestroyStorageMap", p)
                                    /\ wire' = Append(wire, m)
      <3>1. CASE CreateMap(p)
        BY <3>1 DEF CreateMap, Running, Sends, Msg, Messages, RInv
      <3>2. CASE LoadValues(p)
        BY <3>2 DEF LoadValues, Sends, Msg, Messages, RInv
      <3>3. CASE WindowOpen(p)
        BY <3>3 DEF WindowOpen, Sends, Msg, Messages, RInv
      <3>4. CASE ClosePage(p)
        BY <3>4, SMTT(30) DEF ClosePage, Msg, Messages, Is, RInv
      <3>5. CASE PageClear(p)
        BY <3>5 DEF PageClear, Change, Sends, Msg, Messages, RInv
      <3>6. CASE \E k \in Keys, v \in Values : PageSetItem(p, k, v)
        BY <3>6 DEF PageSetItem, Change, Sends, Msg, Messages, RInv
      <3>7. CASE \E k \in Keys : PageRemoveItem(p, k)
        BY <3>7 DEF PageRemoveItem, Change, Sends, Msg, Messages, RInv
      <3> QED
        BY <3>1, <3>2, <3>3, <3>4, <3>5, <3>6, <3>7 DEF Web
    <2>4. ASSUME NEW n \in Pages, n \notin mapped' PROVE MapEnds(n)'
      <3>1. CASE n \in mapped
        <4>1. PICK m \in Messages : Is(m, "DestroyStorageMap", n) /\ wire' = Append(wire, m)
          BY <2>3, <2>4, <3>1
        <4> QED
          BY <2>2, <4>1, <1>AppendEnds DEF MapEnds
      <3>2. CASE n \notin mapped
        <4>1. \/ wire' = wire
              \/ \E m \in Messages : /\ ~Is(m, "CreateSessionStorageMap", n)
                                     /\ wire' = Append(wire, m)
          BY <2>3, <2>4, <3>2 DEF Is
        <4>2. MapEnds(n) /\ (MapEndsInQueue(n) <=> MapEndsInQueue(n)')
          BY <2>1, <3>2 DEF RInv, MapEndsInQueue
        <4> QED
          BY <2>2, <4>1, <4>2, <1>AppendEnds DEF MapEnds
      <3> QED
        BY <3>1, <3>2
    <2> QED
      BY <2>1, <2>3, <2>4 DEF RInv, NamespaceEnds
  \* Delivery keeps the order between what is on the wire and in the queue.
  <1>DeliverRInv.
    ASSUME IInv, RInv, Deliver PROVE RInv'
    <2> USE <1>DeliverRInv
    <2> DEFINE m == Head(wire)
    <2>1. /\ wire # << >> /\ wire' = Tail(wire)
          /\ UNCHANGED <<mapped, inProcess, pages, namespaces, byConnection, mapOf>>
          /\ \/ m.type = "CreateNewPage" /\ managerQueue' = managerQueue
             \/ managerQueue' = Append(managerQueue, m)
      BY DEF Deliver, webVars, uiVars, managerVars
    <2>2. /\ wire \in Seq(Messages) /\ managerQueue \in Seq(Messages)
          /\ m \in Messages /\ m.type # "CreateNamespace"
      <3>1. wire \in Seq(WebMessages) /\ managerQueue \in Seq(Messages)
        BY DEF IInv
      <3>2. m \in WebMessages
        BY <2>1, <3>1, QueueTypes
      <3> QED
        BY <3>1, <3>2, SMTT(30) DEF WebMessages, NamespaceMessages
    <2> HIDE DEF m
    <2>3. ASSUME NEW n \in Pages, n \notin pages' PROVE NamespaceEnds(n)'
      <3>1. NamespaceEnds(n) /\ ~Is(m, "CreateNamespace", n)
        BY <2>1, <2>2, <2>3 DEF RInv, Is
      <3> QED
        BY <2>1, <2>2, <3>1, <1>AppendEnds DEF NamespaceEnds
    <2>4. ASSUME NEW n \in Pages, n \notin mapped' PROVE MapEnds(n)'
      <3> DEFINE C == "CreateSessionStorageMap"
                 D == "DestroyStorageMap"
      <3>1. MapEnds(n)
        BY <2>1, <2>4 DEF RInv
      <3>2. /\ LastEnds(wire, C, D, n) =>
                 LastEnds(wire', C, D, n) \/ (Is(m, D, n) /\ NoneOpens(wire', C, n))
            /\ NoneOpens(wire, C, n) => NoneOpens(wire', C, n) /\ ~Is(m, C, n)
        BY <2>1, <2>2, <1>TailEnds DEF m
      <3>3. ~Is(m, C, n) /\ MapEndsInQueue(n) => MapEndsInQueue(n)'
        BY <2>1, <2>2, <1>AppendEnds DEF MapEndsInQueue
      <3>4. Is(m, D, n) => MapEndsInQueue(n)'
        <4> SUFFICES ASSUME Is(m, D, n) PROVE MapEndsInQueue(n)'
          OBVIOUS
        <4>1. managerQueue' = Append(managerQueue, m)
          BY <2>1 DEF Is
        <4> QED
          BY <2>2, <4>1, <1>AppendEnds DEF MapEndsInQueue
      <3> QED
        BY <3>1, <3>2, <3>3, <3>4 DEF MapEnds
    <2> QED
      BY <2>1, <2>3, <2>4 DEF RInv
  \* The main thread, opening page c from page p.
  <1>OpenRInv.
    ASSUME IInv, RInv, NEW p \in pages, NEW c \in Pages \ created,
           UNCHANGED <<wire, mapped, inProcess, namespaces, byConnection, mapOf>>,
           \/ /\ managerQueue' = managerQueue \o <<CreateNamespace(c), CloneNamespace(p, c)>>
              /\ pages' = pages \cup {c}
           \/ /\ managerQueue' = managerQueue
                   \o <<CreateNamespace(c), DestroyNamespace(p), CloneNamespace(p, c)>>
              /\ pages' = (pages \ {p}) \cup {c}
    PROVE  RInv'
    <2> USE <1>OpenRInv
    <2> DEFINE a == CreateNamespace(c)
               b == CloneNamespace(p, c)
               e == DestroyNamespace(p)
               qa == Append(managerQueue, a)
               qe == Append(qa, e)
    <2>1. p \in Pages /\ p # c
      BY DEF IInv
    <2>2. /\ a \in Messages /\ a.type = "CreateNamespace" /\ a.page = c
          /\ b \in Messages /\ b.type = "CloneNamespace"
          /\ e \in Messages /\ e.type = "DestroyNamespace" /\ e.page = p
      BY <2>1, NamespaceMsgTypes, SMTT(30)
    <2>3. managerQueue \in Seq(Messages) /\ qa \in Seq(Messages) /\ qe \in Seq(Messages)
      BY <2>2, QueueTypes DEF IInv
    <2>4. \/ managerQueue' = Append(qa, b) /\ pages' = pages \cup {c}
          \/ managerQueue' = Append(qe, b) /\ pages' = (pages \ {p}) \cup {c}
      BY <2>2, <2>3, SMTT(30)
    <2> HIDE DEF a, b, e
    <2>5. ASSUME NEW n \in Pages, n \notin pages' PROVE NamespaceEnds(n)'
      <3> DEFINE C == "CreateNamespace"
                 D == "DestroyNamespace"
      <3>1. n # c /\ \A m \in {a, b, e} : ~Is(m, C, n)
        BY <2>2, <2>4, <2>5 DEF Is
      <3>2. CASE n = p
        <4>1. managerQueue' = Append(qe, b)
          BY <2>4, <2>5, <3>2
        <4>2. LastEnds(qe, C, D, n)
          BY <2>2, <2>3, <3>2, <1>AppendEnds DEF Is
        <4>3. LastEnds(Append(qe, b), C, D, n)
          BY <2>2, <2>3, <3>1, <4>2, <1>AppendEnds
        <4> QED
          BY <4>1, <4>3 DEF NamespaceEnds
      <3>3. CASE n # p
        <4>1. NamespaceEnds(n)
          BY <2>4, <2>5, <3>3 DEF RInv
        <4>2. /\ LastEnds(managerQueue, C, D, n) => LastEnds(qa, C, D, n)
              /\ NoneOpens(managerQueue, C, n) => NoneOpens(qa, C, n)
          BY <2>2, <2>3, <3>1, <1>AppendEnds
        <4>3. /\ LastEnds(qa, C, D, n) => LastEnds(qe, C, D, n)
              /\ NoneOpens(qa, C, n) => NoneOpens(qe, C, n)
          BY <2>2, <2>3, <3>1, <1>AppendEnds
        <4>4. \A q \in {qa, qe} :
              /\ LastEnds(q, C, D, n) => LastEnds(Append(q, b), C, D, n)
              /\ NoneOpens(q, C, n) => NoneOpens(Append(q, b), C, n)
          BY <2>2, <2>3, <3>1, <1>AppendEnds
        <4>5. /\ LastEnds(qa, C, D, n) => LastEnds(managerQueue', C, D, n)
              /\ NoneOpens(qa, C, n) => NoneOpens(managerQueue', C, n)
          BY <2>4, <4>3, <4>4
        <4> QED
          BY <4>1, <4>2, <4>5 DEF NamespaceEnds
      <3> QED
        BY <3>2, <3>3
    <2>6. ASSUME NEW n \in Pages, n \notin mapped' PROVE MapEnds(n)'
      <3> DEFINE C == "CreateSessionStorageMap"
                 D == "DestroyStorageMap"
      <3>1. MapEnds(n) /\ \A m \in {a, b, e} : ~Is(m, C, n)
        BY <2>2, <2>6 DEF RInv, Is
      <3>2. /\ LastEnds(managerQueue, C, D, n) => LastEnds(qa, C, D, n)
            /\ NoneOpens(managerQueue, C, n) => NoneOpens(qa, C, n)
        BY <2>2, <2>3, <3>1, <1>AppendEnds
      <3>3. /\ LastEnds(qa, C, D, n) => LastEnds(qe, C, D, n)
            /\ NoneOpens(qa, C, n) => NoneOpens(qe, C, n)
        BY <2>2, <2>3, <3>1, <1>AppendEnds
      <3>4. \A q \in {qa, qe} :
            /\ LastEnds(q, C, D, n) => LastEnds(Append(q, b), C, D, n)
            /\ NoneOpens(q, C, n) => NoneOpens(Append(q, b), C, n)
        BY <2>2, <2>3, <3>1, <1>AppendEnds
      <3>5. /\ LastEnds(qa, C, D, n) => LastEnds(managerQueue', C, D, n)
            /\ NoneOpens(qa, C, n) => NoneOpens(managerQueue', C, n)
        BY <2>4, <3>3, <3>4
      <3> QED
        BY <3>1, <3>2, <3>5 DEF MapEnds, MapEndsInQueue
    <2> QED
      BY <2>5, <2>6 DEF RInv
  <1>CreateNewPageRInv.
    ASSUME IInv, RInv, CreateNewPage PROVE RInv'
    <2> USE <1>CreateNewPageRInv
    <2> DEFINE p == Head(mainQueue).page
    <2>1. UNCHANGED <<wire, mapped, inProcess, namespaces, byConnection, mapOf>>
      BY DEF CreateNewPage, webVars, managerVars
    <2>2. CASE Refused
      BY <2>1, <2>2 DEF Refused, uiVars, RInv, NamespaceEnds, MapEnds, MapEndsInQueue
    <2>3. CASE p \in pages /\ Opened(p)
      BY <2>1, <2>3, <1>OpenRInv DEF Opened, OpenPage
    <2>4. CASE p \in pages /\ OpenedAndClosed(p)
      BY <2>1, <2>4, <1>OpenRInv DEF OpenedAndClosed, OpenPage
    <2> QED
      BY <2>2, <2>3, <2>4 DEF CreateNewPage
  <1>CloseRInv.
    ASSUME IInv, RInv, NEW p \in Pages, Close(p) PROVE RInv'
    <2> USE <1>CloseRInv
    <2> DEFINE e == DestroyNamespace(p)
    <2>1. /\ UNCHANGED <<wire, mapped, inProcess, namespaces, byConnection, mapOf>>
          /\ managerQueue' = Append(managerQueue, e) /\ pages' = pages \ {p}
      BY DEF Close, webVars, managerVars
    <2>2. /\ e \in Messages /\ e.type = "DestroyNamespace" /\ e.page = p
          /\ managerQueue \in Seq(Messages)
      BY NamespaceMsgTypes DEF IInv
    <2> HIDE DEF e
    <2>3. ASSUME NEW n \in Pages, n \notin pages' PROVE NamespaceEnds(n)'
      <3>1. CASE n = p
        BY <2>1, <2>2, <3>1, <1>AppendEnds DEF Is, NamespaceEnds
      <3>2. CASE n # p
        <4>1. NamespaceEnds(n) /\ ~Is(e, "CreateNamespace", n)
          BY <2>1, <2>2, <2>3, <3>2 DEF RInv, Is
        <4> QED
          BY <2>1, <2>2, <4>1, <1>AppendEnds DEF NamespaceEnds
      <3> QED
        BY <3>1, <3>2
    <2>4. ASSUME NEW n \in Pages, n \notin mapped' PROVE MapEnds(n)'
      <3>1. MapEnds(n) /\ ~Is(e, "CreateSessionStorageMap", n)
        BY <2>1, <2>2, <2>4 DEF RInv, Is
      <3> QED
        BY <2>1, <2>2, <3>1, <1>AppendEnds DEF MapEnds, MapEndsInQueue
    <2> QED
      BY <2>1, <2>3, <2>4 DEF RInv
  \* The manager: what each message does to namespaces, listeners and areas.
  <1>ManagerRInv.
    ASSUME IInv, RInv, Manager PROVE RInv'
    <2> USE <1>ManagerRInv
    <2> DEFINE m == Head(managerQueue)
               Ended(open, end, n) ==
                 /\ LastEnds(managerQueue, open, end, n) =>
                      \/ LastEnds(managerQueue', open, end, n)
                      \/ Is(m, end, n) /\ NoneOpens(managerQueue', open, n)
                 /\ NoneOpens(managerQueue, open, n) =>
                      NoneOpens(managerQueue', open, n) /\ ~Is(m, open, n)
               Handled ==
                 /\ managerQueue' = Tail(managerQueue)
                 /\ UNCHANGED <<wire, mapped, inProcess, pages>>
                 /\ \A n \in Pages :
                      /\ n \in namespaces' =>
                           \/ Is(m, "CreateNamespace", n)
                           \/ n \in namespaces /\ ~Is(m, "DestroyNamespace", n)
                      /\ n \in byConnection' =>
                           \/ Is(m, "CreateSessionStorageMap", n)
                           \/ n \in byConnection /\ ~Is(m, "DestroyStorageMap", n)
                 /\ mapOf' = [n \in Pages |-> mapOf'[n]]
                 /\ \A n \in Pages : mapOf'[n] # NoPage => n \in namespaces' \cup byConnection'
    <2>1. /\ managerQueue \in Seq(Messages) /\ managerQueue # << >>
          /\ m \in Messages /\ m.page \in Pages
      <3>1. m \in Messages
        BY QueueTypes DEF Manager, IInv
      <3> QED
        BY <3>1 DEF Manager, IInv, Messages
    <2>2. m.type = "CloneNamespace" => m.to \in namespaces
      BY <2>1, IInvClone DEF CloneFindsNewNamespace
    <2> HIDE DEF m
    <2>3. Handled
      <3> USE DEF Is
      <3>1. CASE CreateSessionStorageNamespace(m)
        BY <3>1 DEF CreateSessionStorageNamespace, Handle, webVars, uiVars, RInv
      <3>2. CASE DestroySessionStorageNamespace(m)
        BY <2>1, <3>2 DEF DestroySessionStorageNamespace, Unkept, Handle, webVars, uiVars, RInv
      <3>3. CASE CloneSessionStorageNamespace(m)
        BY <2>1, <2>2, <3>3 DEF CloneSessionStorageNamespace, Handle, webVars, uiVars, RInv
      <3>4. CASE CreateSessionStorageMap(m)
        BY <2>1, <3>4 DEF CreateSessionStorageMap, Handle, webVars, uiVars, RInv
      <3>5. CASE DestroyStorageMap(m)
        BY <2>1, <3>5 DEF DestroyStorageMap, Unkept, Handle, webVars, uiVars, RInv
      <3>6. ASSUME NEW type \in {"SetItem", "RemoveItem", "Clear"}, NEW map,
                   ChangeArea(type, m, map)
            PROVE  Handled
        BY <2>1, <3>6 DEF ChangeArea, Write, Handle, webVars, uiVars, RInv
      <3>7. CASE ManagerSetItem(m)
        BY <3>6, <3>7 DEF ManagerSetItem
      <3>8. CASE ManagerRemoveItem(m)
        BY <3>6, <3>8 DEF ManagerRemoveItem
      <3>9. CASE ManagerClear(m)
        BY <3>6, <3>9 DEF ManagerClear, Handle, webVars, uiVars, managerVars, RInv
      <3>10. CASE GetValues(m)
        BY <3>10 DEF GetValues, Handle, webVars, uiVars, managerVars, RInv
      <3> QED
        BY <3>1, <3>2, <3>3, <3>4, <3>5, <3>7, <3>8, <3>9, <3>10 DEF Manager, m
    <2>4. ASSUME NEW n \in Pages, n \notin pages' PROVE NamespaceEnds(n)'
      <3>1. NamespaceEnds(n)
        BY <2>3, <2>4 DEF RInv
      <3>2. Ended("CreateNamespace", "DestroyNamespace", n)
        BY <2>1, <2>3, <1>TailEnds DEF m
      <3> QED
        BY <2>3, <2>4, <3>1, <3>2 DEF NamespaceEnds, Is
    <2>5. ASSUME NEW n \in Pages, n \notin mapped' PROVE MapEnds(n)'
      <3>1. MapEnds(n)
        BY <2>3, <2>5 DEF RInv
      <3>2. Ended("CreateSessionStorageMap", "DestroyStorageMap", n)
        BY <2>1, <2>3, <1>TailEnds DEF m
      <3>3. MapEndsInQueue(n) => MapEndsInQueue(n)'
        BY <2>3, <2>5, <3>2 DEF MapEndsInQueue, Is
      <3> QED
        BY <2>3, <3>1, <3>3 DEF MapEnds
    <2>6. mapped' \subseteq inProcess'
      BY <2>3 DEF RInv
    <2> QED
      BY <2>3, <2>4, <2>5, <2>6 DEF RInv
  <1>NextRInv.
    IInv /\ RInv /\ [Next]_vars => RInv'
    <2> SUFFICES ASSUME IInv, RInv, [Next]_vars PROVE RInv'
      OBVIOUS
    <2>1. CASE \E n \in Pages : Web(n) \/ Close(n)
      BY <2>1, <1>WebRInv, <1>CloseRInv
    <2>2. CASE ReceiveReply
      <3>1. /\ UNCHANGED <<wire, managerQueue, mapped, pages, namespaces, byConnection, mapOf>>
            /\ inProcess \subseteq inProcess'
        BY <2>2 DEF ReceiveReply, uiVars, managerVars
      <3> QED
        BY <3>1 DEF RInv, NamespaceEnds, MapEnds, MapEndsInQueue
    <2>3. CASE Deliver
      BY <2>3, <1>DeliverRInv
    <2>4. CASE CreateNewPage
      BY <2>4, <1>CreateNewPageRInv
    <2>5. CASE Manager
      BY <2>5, <1>ManagerRInv
    <2>6. CASE UNCHANGED vars
      BY <2>6 DEF vars, webVars, uiVars, managerVars, RInv, NamespaceEnds, MapEnds,
                  MapEndsInQueue
    <2> QED
      BY <2>1, <2>2, <2>3, <2>4, <2>5, <2>6 DEF Next
  <1>RInvReleased.
    IInv /\ RInv => StorageIsReleased
    <2> SUFFICES ASSUME IInv, RInv, NEW n \in created \ (pages \cup inProcess), Settled(n)
                 PROVE  n \notin namespaces \cup byConnection /\ mapOf[n] = NoPage
      BY DEF StorageIsReleased
    <2>1. n \in Pages /\ n \notin mapped
      BY DEF IInv, RInv
    <2>2. /\ \A i \in DOMAIN wire : wire[i].page # n
          /\ \A i \in DOMAIN managerQueue : managerQueue[i].page # n
      BY DEF Settled
    <2>3. n \notin namespaces
      BY <2>1, <2>2 DEF RInv, NamespaceEnds, LastEnds, Is
    <2>4. n \notin byConnection
      BY <2>1, <2>2 DEF RInv, MapEnds, MapEndsInQueue, LastEnds, Is
    <2> QED
      BY <2>1, <2>3, <2>4 DEF RInv
  <1> QED
    BY <1>InitRInv, <1>NextRInv, <1>RInvReleased

\* For any number of pages, a page that is closed on both sides and has no
\* message left leaves no namespace, listener or area in the StorageManager,
\* though its destruction and its last messages take different threads.
THEOREM ClosedPagesAreReleased == Spec => []StorageIsReleased
  <1>1. Spec => []IInv
    BY InitIInv, NextIInv, PTL DEF Spec
  <1>2. Spec => []RInv
    BY <1>1, ReleaseKept, PTL DEF Spec
  <1> QED
    BY <1>1, <1>2, ReleaseKept, PTL
-----------------------------------------------------------------------------
(* The storage of a page.  The manager's state, as far as pages can tell,  *)
(* and the effect on it of each message: a page has its storage because    *)
(* the messages in the manager's queue, then those on the wire, lead from  *)
(* the storage the manager has to what the page has made of it.            *)

Empty == Create.items

States == [spaces : SUBSET Pages, listeners : SUBSET Pages, items : [Pages -> Items]]

Now ==
  [spaces |-> namespaces, listeners |-> byConnection,
   items |-> [n \in Pages |-> Contents(n)]]

SpacesAfter(s, m) ==
  IF m.type = "CreateNamespace" THEN s.spaces \cup {m.page}
  ELSE IF m.type = "DestroyNamespace" THEN s.spaces \ {m.page} ELSE s.spaces

ListenersAfter(s, m) ==
  IF m.type = "CreateSessionStorageMap" /\ m.page \in s.spaces
  THEN s.listeners \cup {m.page}
  ELSE IF m.type = "DestroyStorageMap" THEN s.listeners \ {m.page} ELSE s.listeners

\* What a message leaves in the area of its page.
OwnItemsAfter(s, m) ==
  IF m.page \in s.listeners /\ m.type = "SetItem"
    THEN [s.items[m.page] EXCEPT ![m.key] = m.value]
  ELSE IF m.page \in s.listeners /\ m.type = "RemoveItem"
    THEN [s.items[m.page] EXCEPT ![m.key] = Absent]
  ELSE IF \/ m.page \in s.listeners /\ m.type = "Clear"
          \/ m.page \notin s.listeners /\ m.type = "DestroyNamespace"
          \/ m.page \notin s.spaces /\ m.type = "DestroyStorageMap"
    THEN Empty
  ELSE s.items[m.page]

ItemsAfter(s, m) ==
  IF m.type # "CloneNamespace" THEN [s.items EXCEPT ![m.page] = OwnItemsAfter(s, m)]
  ELSE IF m.page \in s.spaces THEN [s.items EXCEPT ![m.to] = s.items[m.page]]
  ELSE s.items

After(s, m) ==
  [spaces |-> SpacesAfter(s, m), listeners |-> ListenersAfter(s, m),
   items |-> ItemsAfter(s, m)]

\* The states that the messages of q lead through.
Trace(f, q) ==
  /\ f \in [0 .. Len(q) -> States]
  /\ \A i \in 1 .. Len(q) : f[i] = After(f[i - 1], q[i])

\* Page n cannot tell the two states apart.
Alike(n, s, t) ==
  /\ n \in s.spaces <=> n \in t.spaces
  /\ n \in s.listeners <=> n \in t.listeners
  /\ s.items[n] = t.items[n]

Touches(m, n) == IF m.type = "CloneNamespace" THEN m.to = n ELSE m.page = n

\* Page n has all it has written, and its listener if it has a StorageAreaMap.
HasItsOwn(n, s, listening, items) ==
  /\ n \in s.spaces
  /\ n \in s.listeners <=> n \in listening
  /\ s.items[n] = items[n]

\* The new page c starts with what its opener has written.
NewItems(c) == IF c \in orphans THEN Empty ELSE view[blocked]

IsNew(c, s, items) == c \in s.spaces /\ c \notin s.listeners /\ s.items[c] = items

AllTraced(f) ==
  /\ Trace(f, managerQueue) /\ f[0] = Now
  /\ \A n \in pages \cap inProcess : \E g :
       /\ Trace(g, wire) /\ Alike(n, g[0], f[Len(managerQueue)])
       /\ HasItsOwn(n, g[Len(wire)], mapped, view)
  /\ reply \in pages => IsNew(reply, f[Len(managerQueue)], NewItems(reply))
  /\ \A i \in 1 .. Len(managerQueue) :
       managerQueue[i].type = "GetValues" /\ managerQueue[i].page \in pages
         => HasItsOwn(managerQueue[i].page, f[i], mapped, view)

Traced == \E f : AllTraced(f)

\* The areas and their maps.
MapsTyped ==
  /\ mapOf \in [Pages -> Pages \cup {NoPage}]
  /\ maps = [a \in Pages |-> maps[a]]
  /\ \A a \in Pages : maps[a].items \in Items

Areas ==
  /\ MapsTyped
  /\ byConnection \subseteq created /\ namespaces \subseteq created
  /\ \A n \in byConnection : mapOf[n] # NoPage
  /\ \A n \in Pages : n \notin created => mapOf[n] = NoPage

\* A page that is not open yet is nowhere.
KnownIn(q) == \A i \in 1 .. Len(q) : q[i].page \in created /\ q[i].to \in created \cup {NoPage}

OpenPages ==
  /\ KnownIn(wire) /\ KnownIn(mainQueue) /\ KnownIn(managerQueue)
  /\ inProcess \subseteq created /\ mapped \subseteq inProcess
  /\ pages \cap closing = {} /\ closing \cup orphans \subseteq created
  /\ view \in [Pages -> Items]
  /\ reply \in Items \cup Pages \cup {NoPage, NoReply}
  /\ reply \in Pages => reply \in created \ inProcess
  /\ \A n \in Pages : n \notin created \/ n = reply => view[n] = Empty

\* The synchronous message, or its reply, is in one place, behind all that
\* its page has sent before.
Sync(m) == m.type \in {"GetValues", "CreateNewPage"}

NoSync(q) == \A i \in 1 .. Len(q) : ~Sync(q[i])

Waiting ==
  /\ blocked = NoPage \/ blocked \in inProcess
  /\ \A i \in 1 .. Len(wire) : Sync(wire[i]) =>
       /\ i = Len(wire) /\ wire[i].page = blocked
       /\ wire[i].type = "GetValues" => blocked \in mapped
       /\ NoSync(managerQueue) /\ mainQueue = << >> /\ reply = NoReply
  /\ \A i \in 1 .. Len(managerQueue) : Sync(managerQueue[i]) =>
       /\ managerQueue[i].type = "GetValues" /\ managerQueue[i].page = blocked
       /\ blocked \in mapped
       /\ \A j \in 1 .. Len(managerQueue) : Sync(managerQueue[j]) => i = j
       /\ wire = << >> /\ mainQueue = << >> /\ reply = NoReply
  /\ mainQueue # << >> =>
       /\ Len(mainQueue) = 1 /\ mainQueue[1].page = blocked
       /\ wire = << >> /\ NoSync(managerQueue) /\ reply = NoReply
  /\ reply # NoReply =>
       /\ blocked # NoPage /\ wire = << >> /\ mainQueue = << >> /\ NoSync(managerQueue)

\* The target of a clone has no area until then.
Fresh(q) ==
  \A i \in 1 .. Len(q) : q[i].type = "CloneNamespace" =>
    /\ q[i].to \in Pages /\ mapOf[q[i].to] = NoPage /\ q[i].to \notin byConnection
    /\ \A j \in 1 .. i - 1 :
         /\ ~Is(q[j], "CreateSessionStorageMap", q[i].to)
         /\ ~(q[j].type = "CloneNamespace" /\ q[j].to = q[i].to)

Answered == reply \in Items /\ blocked \in pages => reply = view[blocked]

\* The inductive invariant, given IInv.
SInv == Areas /\ OpenPages /\ Waiting /\ Fresh(managerQueue) /\ Traced /\ Answered

\* Facts about numbers and finite sets, which the last section proves: a set
\* of numbers has a least element; ...
LeastNumbers == \A T \in SUBSET Nat : T # {} => \E x \in T : \A y \in T : ~(y < x)

\* ... two areas with the same map are two references, there are as many
\* addresses as pages, so that one is free while a page has no map of its own,
\* and a map of size 0 has no items.
Counts ==
  /\ \A n, p \in Pages : n # p /\ mapOf[p] = mapOf[n] => References(mapOf[n]) > 1
  /\ \A n \in Pages : mapOf[n] = NoPage \/ References(mapOf[n]) > 1 =>
       Unused \in Pages /\ \A p \in Pages : mapOf[p] # Unused
  /\ \A map : map.items \in Items /\ Size(map) = 0 => map.items = Empty

-----------------------------------------------------------------------------
(* Traces.                                                                 *)

LEMMA AfterType ==
  ASSUME NEW s \in States, NEW m \in Messages
  PROVE  After(s, m) \in States
  <1>1. Empty \in Items
    BY DEF Empty, Create, Items
  <1>2. OwnItemsAfter(s, m) \in Items
    BY <1>1 DEF OwnItemsAfter, States, Messages, Items
  <1>3. ItemsAfter(s, m) \in [Pages -> Items]
    BY <1>2 DEF ItemsAfter, States, Messages
  <1>4. SpacesAfter(s, m) \subseteq Pages /\ ListenersAfter(s, m) \subseteq Pages
    BY DEF SpacesAfter, ListenersAfter, States, Messages
  <1> QED
    BY <1>3, <1>4 DEF After, States

\* A message only matters to the page it is about.
LEMMA OtherAfter ==
  ASSUME NEW s \in States, NEW m \in Messages, NEW n \in Pages, ~Touches(m, n)
  PROVE  Alike(n, After(s, m), s)
  BY DEF Alike, Touches, After, SpacesAfter, ListenersAfter, ItemsAfter, States, Messages

\* A message of the web process only depends on the state of its page.
LEMMA AlikeAfter ==
  ASSUME NEW s \in States, NEW t \in States, NEW m \in Messages, NEW n \in Pages,
         m.type # "CloneNamespace", Alike(n, s, t)
  PROVE  Alike(n, After(s, m), After(t, m))
  <1>1. CASE m.page = n
    <2>1. OwnItemsAfter(s, m) = OwnItemsAfter(t, m)
      BY <1>1 DEF OwnItemsAfter, Alike
    <2>2. /\ After(s, m).items[n] = OwnItemsAfter(s, m)
          /\ After(t, m).items[n] = OwnItemsAfter(t, m)
      BY <1>1 DEF After, ItemsAfter, States
    <2>3. /\ n \in After(s, m).spaces <=> n \in After(t, m).spaces
          /\ n \in After(s, m).listeners <=> n \in After(t, m).listeners
      BY <1>1 DEF After, SpacesAfter, ListenersAfter, Alike
    <2> QED
      BY <2>1, <2>2, <2>3 DEF Alike
  <1>2. CASE m.page # n
    <2>1. Alike(n, After(s, m), s) /\ Alike(n, After(t, m), t)
      BY <1>2, OtherAfter DEF Touches
    <2> QED
      BY <2>1 DEF Alike
  <1> QED
    BY <1>1, <1>2

LEMMA AppendTrace ==
  ASSUME NEW q \in Seq(Messages), NEW m \in Messages, NEW f, Trace(f, q)
  PROVE  \E g : /\ Trace(g, Append(q, m))
                /\ \A i \in 0 .. Len(q) : g[i] = f[i]
                /\ g[Len(q) + 1] = After(f[Len(q)], m)
  <1> DEFINE r == Append(q, m)
             g == [i \in 0 .. Len(q) + 1 |-> IF i = Len(q) + 1 THEN After(f[Len(q)], m) ELSE f[i]]
  <1>1. /\ Len(q) \in Nat /\ Len(r) = Len(q) + 1
        /\ \A i \in 1 .. Len(q) : r[i] = q[i]
        /\ r[Len(q) + 1] = m
    BY SMTT(30)
  <1> HIDE DEF r
  <1>2. \A i \in 0 .. Len(q) : f[i] \in States
    BY DEF Trace
  <1>3. After(f[Len(q)], m) \in States
    BY <1>1, <1>2, AfterType, SMTT(30)
  <1>4. g \in [0 .. Len(r) -> States]
    BY <1>1, <1>2, <1>3, SMTT(30)
  <1>5. ASSUME NEW i \in 1 .. Len(r) PROVE g[i] = After(g[i - 1], r[i])
    <2>1. CASE i = Len(q) + 1
      BY <1>1, <2>1, SMTT(30)
    <2>2. CASE i # Len(q) + 1
      <3>1. i \in 1 .. Len(q) /\ g[i] = f[i] /\ g[i - 1] = f[i - 1] /\ r[i] = q[i]
        BY <1>1, <2>2, SMTT(30)
      <3> QED
        BY <3>1 DEF Trace
    <2> QED
      BY <2>1, <2>2
  <1>6. /\ \A i \in 0 .. Len(q) : g[i] = f[i]
        /\ g[Len(q) + 1] = After(f[Len(q)], m)
    BY <1>1, SMTT(30)
  <1>7. Trace(g, r)
    BY <1>4, <1>5 DEF Trace
  <1> QED
    BY <1>6, <1>7 DEF r

LEMMA TailTrace ==
  ASSUME NEW q \in Seq(Messages), q # << >>, NEW f, Trace(f, q)
  PROVE  \E g : Trace(g, Tail(q)) /\ \A i \in 0 .. Len(q) - 1 : g[i] = f[i + 1]
  <1> DEFINE r == Tail(q)
             g == [i \in 0 .. Len(q) - 1 |-> f[i + 1]]
  <1>1. /\ Len(q) \in Nat \ {0} /\ Len(r) = Len(q) - 1
        /\ \A i \in 1 .. Len(q) - 1 : r[i] = q[i + 1]
    BY SMTT(30)
  <1> HIDE DEF r
  <1>2. g \in [0 .. Len(r) -> States]
    BY <1>1, SMTT(30) DEF Trace
  <1>3. ASSUME NEW i \in 1 .. Len(r) PROVE g[i] = After(g[i - 1], r[i])
    <2>1. g[i] = f[i + 1] /\ g[i - 1] = f[i] /\ r[i] = q[i + 1] /\ i + 1 \in 1 .. Len(q)
      BY <1>1, SMTT(30)
    <2>2. f[i + 1] = After(f[(i + 1) - 1], q[i + 1])
      BY <2>1 DEF Trace
    <2>3. (i + 1) - 1 = i
      BY SMTT(30)
    <2> QED
      BY <2>1, <2>2, <2>3
  <1>4. Trace(g, r)
    BY <1>2, <1>3 DEF Trace
  <1> QED
    BY <1>4, SMTT(30) DEF r
-----------------------------------------------------------------------------
(* The manager does what After says.                                       *)

LEMMA NowType == ASSUME IInv, Areas PROVE Now \in States
  <1>1. Create.items \in Items
    BY DEF Create, Items
  <1>2. \A p \in Pages : Contents(p) \in Items
    BY <1>1 DEF Contents, Areas, MapsTyped
  <1> QED
    BY <1>2 DEF Now, States, Areas, IInv

\* What handling message m does, as far as pages can tell.
DoneBy(m) ==
  /\ Areas'
  /\ namespaces' = SpacesAfter(Now, m)
  /\ byConnection' = ListenersAfter(Now, m)
  /\ \A p \in Pages : Contents(p)' = ItemsAfter(Now, m)[p]
  /\ \A p \in Pages :
       \/ mapOf[p] # NoPage \/ mapOf'[p] = NoPage
       \/ Is(m, "CreateSessionStorageMap", p)
       \/ m.type = "CloneNamespace" /\ m.to = p

LEMMA NowFacts ==
  /\ Now.spaces = namespaces /\ Now.listeners = byConnection
  /\ Now.items = [p \in Pages |-> Contents(p)]
  /\ \A p \in Pages : Now.items[p] = Contents(p)
  BY DEF Now

\* The items after a message that is not a clone.
LEMMA OwnItems ==
  ASSUME NEW m \in Messages, m.type # "CloneNamespace", NEW p \in Pages
  PROVE  ItemsAfter(Now, m)[p] = IF p = m.page THEN OwnItemsAfter(Now, m) ELSE Contents(p)
  BY NowFacts DEF ItemsAfter, Messages
-----------------------------------------------------------------------------
(* The invariant.                                                          *)

LEMMA Appended ==
  ASSUME NEW q \in Seq(Messages), NEW m \in Messages, NEW r, r = Append(q, m)
  PROVE  /\ r \in Seq(Messages) /\ Len(q) \in Nat /\ Len(r) = Len(q) + 1
         /\ \A i \in 1 .. Len(q) : r[i] = q[i]
         /\ r[Len(q) + 1] = m
         /\ \A i \in 1 .. Len(r) : i = Len(r) \/ i \in 1 .. Len(q)
  BY SMTT(30)

LEMMA Tailed ==
  ASSUME NEW q \in Seq(Messages), q # << >>, NEW r, r = Tail(q)
  PROVE  /\ r \in Seq(Messages) /\ Len(q) \in Nat \ {0} /\ Len(r) = Len(q) - 1
         /\ \A i \in 1 .. Len(r) : r[i] = q[i + 1] /\ i + 1 \in 1 .. Len(q)
         /\ Head(q) = q[1] /\ q[1] \in Messages /\ 1 \in 1 .. Len(q)
         /\ Len(q) = 1 => r = << >>
  BY SMTT(30)

LEMMA WireType == ASSUME IInv PROVE wire \in Seq(Messages) /\ mainQueue \in Seq(Messages)
  BY SMTT(30) DEF IInv, WebMessages

LEMMA SyncAfter ==
  ASSUME NEW s \in States, NEW m \in Messages, Sync(m), NEW n \in Pages
  PROVE  Alike(n, After(s, m), s)
  <1>1. OwnItemsAfter(s, m) = s.items[m.page] /\ m.type # "CloneNamespace"
    BY DEF OwnItemsAfter, Sync
  <1> QED
    BY <1>1 DEF Alike, After, SpacesAfter, ListenersAfter, ItemsAfter, Sync, States

\* Whoever cannot tell the states apart has its own in both.
LEMMA AlikeHas ==
  ASSUME NEW n, NEW s, NEW t, Alike(n, s, t)
  PROVE  /\ \A mp, v : HasItsOwn(n, s, mp, v) => HasItsOwn(n, t, mp, v)
         /\ \A v : IsNew(n, s, v) => IsNew(n, t, v)
         /\ Alike(n, t, s)
         /\ \A u : Alike(n, t, u) => Alike(n, s, u)
  BY DEF Alike, HasItsOwn, IsNew

LEMMA InitSInv == Init => SInv
  <1> SUFFICES ASSUME Init PROVE SInv
    OBVIOUS
  <1>1. Create.items \in Items
    BY DEF Create, Items
  <1>2. Areas
    BY <1>1, PagesAssumption DEF Init, Areas, MapsTyped
  <1>3. OpenPages
    BY <1>1, PagesAssumption, RepliesAssumption, SMTT(30) DEF Init, OpenPages, KnownIn, Empty
  <1>4. Waiting /\ Fresh(managerQueue) /\ Answered
    BY RepliesAssumption, SMTT(30) DEF Init, Waiting, NoSync, Fresh, Answered
  <1>5. IInv
    BY InitIInv
  <1> DEFINE f == [i \in 0 .. 0 |-> Now]
  <1>6. Now \in States
    BY <1>2, <1>5, NowType
  <1>7. Trace(f, << >>) /\ f[0] = Now
    BY <1>6, SMTT(30) DEF Trace
  <1>8. HasItsOwn(firstPage, Now, mapped, view)
    BY PagesAssumption DEF Init, HasItsOwn, Now, Contents
  <1>9. /\ wire = << >> /\ managerQueue = << >> /\ pages \cap inProcess = {firstPage}
        /\ reply \notin pages /\ Len(<< >>) = 0
    BY PagesAssumption, RepliesAssumption DEF Init
  <1> HIDE DEF f
  <1>10. Alike(firstPage, f[0], f[0])
    BY DEF Alike
  <1>11. AllTraced(f)
    BY <1>7, <1>8, <1>9, <1>10, SMTT(30) DEF AllTraced
  <1> QED
    BY <1>2, <1>3, <1>4, <1>11 DEF SInv, Traced

\* What a page sends about itself.
Sent(p, m) ==
  /\ wire' = Append(wire, m)
  /\ m.page = p /\ m.to = NoPage
  /\ IF Sync(m) THEN blocked' = p /\ p \in inProcess' /\ (m.type = "GetValues" => p \in mapped')
     ELSE blocked' = NoPage
  /\ p \in pages \cap inProcess' =>
       \A s \in States : HasItsOwn(p, s, mapped, view) => HasItsOwn(p, After(s, m), mapped', view')

LEMMA SameNow ==
  ASSUME UNCHANGED managerVars, UNCHANGED created
  PROVE  Now' = Now /\ (Areas => Areas')
  BY DEF managerVars, Now, Contents, Areas, MapsTyped

\* The pages' own operations.
LEMMA WebKeeps ==
  IInv /\ SInv /\ (\E p \in Pages : Web(p)) => SInv'
  <1>WebStep.
    ASSUME IInv, OpenPages, NEW p \in Pages, Web(p)
    PROVE  /\ blocked = NoPage /\ p \in inProcess
           /\ UNCHANGED <<reply, uiVars, mainQueue, managerQueue, managerVars>>
           /\ inProcess' \subseteq inProcess /\ mapped' \subseteq inProcess'
           /\ view' \in [Pages -> Items]
           /\ \A n \in Pages : n # p => (n \in mapped' <=> n \in mapped) /\ view'[n] = view[n]
           /\ \/ \E m \in WebMessages : Sent(p, m)
              \/ wire' = wire /\ blocked' = NoPage /\ p \notin inProcess'
    <2> USE <1>WebStep
    <2> USE DEF Running, Sends, UnchangedByWeb
    <2>1. view \in [Pages -> Items] /\ mapped \subseteq inProcess /\ pages \cap closing = {}
      BY DEF OpenPages
    <2>2. CASE CreateMap(p)
      <3>1. PICK m : m = Msg("CreateSessionStorageMap", p, NoPage, Null, Null)
        OBVIOUS
      <3>2. m \in WebMessages /\ m.type = "CreateSessionStorageMap" /\ m.page = p /\ m.to = NoPage
        BY <3>1 DEF WebMessages, Messages, NamespaceMessages, Msg
      <3>3. /\ wire' = Append(wire, m) /\ mapped' = mapped \cup {p}
            /\ UNCHANGED <<view, inProcess, blocked>>
            /\ blocked = NoPage /\ p \in inProcess
            /\ UNCHANGED <<reply, uiVars, mainQueue, managerQueue, managerVars>>
        BY <2>2, <3>1 DEF CreateMap
      <3>4. ASSUME NEW s \in States, HasItsOwn(p, s, mapped, view) PROVE HasItsOwn(p, After(s, m), mapped', view')
        <4>1. OwnItemsAfter(s, m) = s.items[p]
          BY <3>2 DEF OwnItemsAfter
        <4>2. After(s, m).items[p] = s.items[p]
          BY <3>2, <4>1 DEF After, ItemsAfter, States
        <4>3. p \in After(s, m).spaces /\ p \in After(s, m).listeners
          BY <3>2, <3>4 DEF After, SpacesAfter, ListenersAfter, HasItsOwn
        <4> QED
          BY <3>3, <3>4, <4>2, <4>3 DEF HasItsOwn
      <3>5. Sent(p, m)
        BY <3>2, <3>3, <3>4 DEF Sent, Sync
      <3> QED
        BY <2>1, <3>2, <3>3, <3>5
    <2>3. ASSUME NEW m \in WebMessages, NEW items \in Items, Change(p, items, m),
                 m.type \in {"SetItem", "RemoveItem", "Clear"}, m.page = p, m.to = NoPage,
                 \A s \in States : HasItsOwn(p, s, mapped, view) /\ p \in s.listeners => OwnItemsAfter(s, m) = items
          PROVE  /\ blocked = NoPage /\ p \in inProcess
                 /\ UNCHANGED <<reply, uiVars, mainQueue, managerQueue, managerVars>>
                 /\ inProcess' \subseteq inProcess /\ mapped' \subseteq inProcess'
                 /\ view' \in [Pages -> Items]
                 /\ \A n \in Pages : n # p => (n \in mapped' <=> n \in mapped) /\ view'[n] = view[n]
                 /\ Sent(p, m)
      <3>1. /\ wire' = Append(wire, m) /\ view' = [view EXCEPT ![p] = items]
            /\ UNCHANGED <<mapped, inProcess, blocked>>
            /\ blocked = NoPage /\ p \in inProcess /\ p \in mapped
            /\ UNCHANGED <<reply, uiVars, mainQueue, managerQueue, managerVars>>
        BY <2>3 DEF Change
      <3>2. ASSUME NEW s \in States, HasItsOwn(p, s, mapped, view) PROVE HasItsOwn(p, After(s, m), mapped', view')
        <4>1. OwnItemsAfter(s, m) = items
          BY <2>3, <3>1, <3>2 DEF HasItsOwn
        <4>2. After(s, m).items[p] = items
          BY <2>3, <4>1 DEF After, ItemsAfter, States
        <4>3. p \in After(s, m).spaces /\ p \in After(s, m).listeners
          BY <2>3, <3>1, <3>2 DEF After, SpacesAfter, ListenersAfter, HasItsOwn
        <4> QED
          BY <2>1, <3>1, <4>2, <4>3 DEF HasItsOwn
      <3>3. Sent(p, m)
        BY <2>3, <3>1, <3>2 DEF Sent, Sync
      <3> QED
        BY <2>1, <2>3, <3>1, <3>3
    <2>4. CASE PageClear(p)
      <3>1. PICK m : m = Msg("Clear", p, NoPage, Null, Null)
        OBVIOUS
      <3>2. m \in WebMessages /\ m.type = "Clear" /\ m.page = p /\ m.to = NoPage
        BY <3>1 DEF WebMessages, Messages, NamespaceMessages, Msg
      <3>3. Empty \in Items /\ Change(p, Empty, m)
        BY <2>4, <3>1 DEF PageClear, Empty, Create, Items
      <3>4. \A s \in States : HasItsOwn(p, s, mapped, view) /\ p \in s.listeners => OwnItemsAfter(s, m) = Empty
        BY <3>2 DEF OwnItemsAfter
      <3> QED
        BY <2>3, <3>2, <3>3, <3>4
    <2>5. CASE \E k \in Keys, v \in Values : PageSetItem(p, k, v)
      <3>1. PICK k \in Keys, v \in Values : PageSetItem(p, k, v)
        BY <2>5
      <3>2. PICK m : m = Msg("SetItem", p, NoPage, k, v)
        OBVIOUS
      <3>3. /\ m \in WebMessages /\ m.type = "SetItem" /\ m.page = p /\ m.to = NoPage
            /\ m.key = k /\ m.value = v
        BY <3>2 DEF WebMessages, Messages, NamespaceMessages, Msg
      <3>4. PICK items : items = [view[p] EXCEPT ![k] = v]
        OBVIOUS
      <3>5. items \in Items /\ Change(p, items, m)
        BY <2>1, <3>1, <3>2, <3>4 DEF PageSetItem, Items
      <3>6. \A s \in States : HasItsOwn(p, s, mapped, view) /\ p \in s.listeners => OwnItemsAfter(s, m) = items
        BY <3>3, <3>4 DEF OwnItemsAfter, HasItsOwn
      <3> QED
        BY <2>3, <3>3, <3>5, <3>6
    <2>6. CASE \E k \in Keys : PageRemoveItem(p, k)
      <3>1. PICK k \in Keys : PageRemoveItem(p, k)
        BY <2>6
      <3>2. PICK m : m = Msg("RemoveItem", p, NoPage, k, Null)
        OBVIOUS
      <3>3. /\ m \in WebMessages /\ m.type = "RemoveItem" /\ m.page = p /\ m.to = NoPage
            /\ m.key = k
        BY <3>2 DEF WebMessages, Messages, NamespaceMessages, Msg
      <3>4. PICK items : items = [view[p] EXCEPT ![k] = Absent]
        OBVIOUS
      <3>5. items \in Items /\ Change(p, items, m)
        BY <2>1, <3>1, <3>2, <3>4 DEF PageRemoveItem, Items
      <3>6. \A s \in States : HasItsOwn(p, s, mapped, view) /\ p \in s.listeners => OwnItemsAfter(s, m) = items
        BY <3>3, <3>4 DEF OwnItemsAfter, HasItsOwn
      <3> QED
        BY <2>3, <3>3, <3>5, <3>6
    <2>7. ASSUME NEW m \in WebMessages, Sync(m), m.page = p, m.to = NoPage,
                 wire' = Append(wire, m), blocked' = p, p \in inProcess,
                 m.type = "GetValues" => p \in mapped,
                 UNCHANGED <<view, inProcess, mapped>>
          PROVE  Sent(p, m)
      <3>1. ASSUME NEW s \in States, HasItsOwn(p, s, mapped, view) PROVE HasItsOwn(p, After(s, m), mapped', view')
        <4>1. m \in Messages
          BY <2>7 DEF WebMessages
        <4>2. HasItsOwn(p, After(s, m), mapped, view)
          BY <2>7, <3>1, <4>1, SyncAfter, AlikeHas
        <4> QED
          BY <2>7, <4>2 DEF HasItsOwn
      <3> QED
        BY <2>7, <3>1 DEF Sent
    <2>8. CASE LoadValues(p)
      <3>1. PICK m : m = Msg("GetValues", p, NoPage, Null, Null)
        OBVIOUS
      <3>2. m \in WebMessages /\ m.type = "GetValues" /\ m.page = p /\ m.to = NoPage
        BY <3>1 DEF WebMessages, Messages, NamespaceMessages, Msg
      <3>3. /\ wire' = Append(wire, m) /\ blocked' = p /\ UNCHANGED <<view, inProcess, mapped>>
            /\ blocked = NoPage /\ p \in inProcess /\ p \in mapped
            /\ UNCHANGED <<reply, uiVars, mainQueue, managerQueue, managerVars>>
        BY <2>8, <3>1 DEF LoadValues
      <3>4. Sent(p, m)
        BY <2>7, <3>2, <3>3 DEF Sync
      <3> QED
        BY <2>1, <3>2, <3>3, <3>4
    <2>9. CASE WindowOpen(p)
      <3>1. PICK m : m = Msg("CreateNewPage", p, NoPage, Null, Null)
        OBVIOUS
      <3>2. m \in WebMessages /\ m.type = "CreateNewPage" /\ m.page = p /\ m.to = NoPage
        BY <3>1 DEF WebMessages, Messages, NamespaceMessages, Msg
      <3>3. /\ wire' = Append(wire, m) /\ blocked' = p /\ UNCHANGED <<view, inProcess, mapped>>
            /\ blocked = NoPage /\ p \in inProcess
            /\ UNCHANGED <<reply, uiVars, mainQueue, managerQueue, managerVars>>
        BY <2>9, <3>1 DEF WindowOpen
      <3>4. Sent(p, m)
        BY <2>7, <3>2, <3>3 DEF Sync
      <3> QED
        BY <2>1, <3>2, <3>3, <3>4
    <2>10. CASE ClosePage(p)
      <3>1. PICK m : m = Msg("DestroyStorageMap", p, NoPage, Null, Null)
        OBVIOUS
      <3>2. m \in WebMessages /\ m.type = "DestroyStorageMap" /\ m.page = p /\ m.to = NoPage
        BY <3>1 DEF WebMessages, Messages, NamespaceMessages, Msg
      <3>3. /\ wire' = IF p \in mapped THEN Append(wire, m) ELSE wire
            /\ inProcess' = inProcess \ {p} /\ mapped' = mapped \ {p} /\ UNCHANGED <<view, blocked>>
            /\ blocked = NoPage /\ p \in inProcess
            /\ UNCHANGED <<reply, uiVars, mainQueue, managerQueue, managerVars>>
        BY <2>10, <3>1 DEF ClosePage
      <3>4. p \in mapped => Sent(p, m)
        BY <3>2, <3>3 DEF Sent, Sync
      <3> QED
        BY <2>1, <3>2, <3>3, <3>4
    <2> QED
      BY <2>2, <2>4, <2>5, <2>6, <2>8, <2>9, <2>10 DEF Web
  <1>WebSInv.
    ASSUME IInv, SInv, NEW p \in Pages, Web(p) PROVE SInv'
    <2> USE <1>WebSInv
    <2>1. /\ blocked = NoPage /\ p \in inProcess
          /\ UNCHANGED <<reply, uiVars, mainQueue, managerQueue, managerVars>>
          /\ inProcess' \subseteq inProcess /\ mapped' \subseteq inProcess'
          /\ view' \in [Pages -> Items]
          /\ \A n \in Pages : n # p => (n \in mapped' <=> n \in mapped) /\ view'[n] = view[n]
          /\ \/ \E m \in WebMessages : Sent(p, m)
             \/ wire' = wire /\ blocked' = NoPage /\ p \notin inProcess'
      BY <1>WebStep DEF SInv
    <2>2. UNCHANGED <<reply, closing, pages, created, orphans, mainQueue, managerQueue,
                      namespaces, byConnection, mapOf, maps>>
      BY <2>1 DEF uiVars, managerVars
    <2>3. /\ created \subseteq Pages /\ pages \subseteq Pages /\ NoPage \notin Pages
          /\ p \in created /\ wire \in Seq(Messages) /\ managerQueue \in Seq(Messages)
      BY <2>1, PagesAssumption, WireType DEF IInv, SInv, OpenPages
    <2>4. reply = NoReply /\ NoSync(managerQueue) /\ mainQueue = << >> /\ NoSync(wire)
      <3> DEFINE M == Messages
      <3>1. \A i \in 1 .. Len(managerQueue) : managerQueue[i] \in M
        BY <2>3, SMTT(30)
      <3>2. \A i \in 1 .. Len(wire) : wire[i] \in M
        BY <2>3, SMTT(30)
      <3>3. mainQueue # << >> => mainQueue[1] \in M
        BY WireType, SMTT(30)
      <3>4. \A m \in M : m.page \in Pages
        BY DEF Messages
      <3> QED
        BY <2>1, <2>3, <3>1, <3>2, <3>3, <3>4, SMTT(30) DEF SInv, Waiting, NoSync
    <2>5. Areas' /\ Now' = Now
      BY <2>1, <2>2, SameNow DEF SInv
    <2>6. Fresh(managerQueue)' /\ Answered'
      BY <2>2, <2>4, RepliesAssumption DEF SInv, Fresh, Answered
    <2>7. KnownIn(wire)' /\ (NoSync(wire) => Waiting')
      <3>1. CASE wire' = wire /\ blocked' = NoPage /\ p \notin inProcess'
        BY <2>2, <2>4, <3>1 DEF SInv, OpenPages, KnownIn, Waiting, NoSync
      <3>2. ASSUME NEW m \in WebMessages, Sent(p, m) PROVE KnownIn(wire)' /\ Waiting'
        <4>1. /\ Len(wire) \in Nat /\ Len(wire') = Len(wire) + 1
              /\ \A i \in 1 .. Len(wire) : wire'[i] = wire[i]
              /\ wire'[Len(wire) + 1] = m
              /\ \A i \in 1 .. Len(wire') : i = Len(wire') \/ i \in 1 .. Len(wire)
          BY <2>3, <3>2, Appended, SMTT(30) DEF Sent, WebMessages
        <4>2. KnownIn(wire)'
          BY <2>2, <2>3, <3>2, <4>1 DEF Sent, KnownIn, SInv, OpenPages
        <4>3. \A i \in 1 .. Len(wire') : Sync(wire'[i]) => i = Len(wire') /\ wire'[i] = m
          BY <2>4, <4>1 DEF NoSync
        <4>4. blocked' = NoPage \/ blocked' \in inProcess'
          BY <3>2 DEF Sent
        <4>5. \A i \in 1 .. Len(wire') : Sync(wire'[i]) =>
                /\ i = Len(wire') /\ wire'[i].page = blocked'
                /\ wire'[i].type = "GetValues" => blocked' \in mapped'
          BY <3>2, <4>3 DEF Sent
        <4>6. Waiting'
          BY <2>2, <2>4, <4>4, <4>5 DEF Waiting, NoSync
        <4> QED
          BY <4>2, <4>6
      <3> QED
        BY <2>1, <3>1, <3>2
    <2>8. OpenPages'
      <3>1. \A n \in Pages : n \notin created' \/ n = reply' => view'[n] = Empty
        BY <2>1, <2>2, <2>3, <2>4, RepliesAssumption DEF SInv, OpenPages
      <3> QED
        BY <2>1, <2>2, <2>4, <2>7, <3>1, RepliesAssumption DEF SInv, OpenPages, KnownIn
    <2>9. PICK f : AllTraced(f)
      BY DEF SInv, Traced
    <2>10. ASSUME NEW n \in pages' \cap inProcess'
           PROVE  \E g : /\ Trace(g, wire') /\ Alike(n, g[0], f[Len(managerQueue')])
                         /\ HasItsOwn(n, g[Len(wire')], mapped', view')
      <3>1. n \in pages \cap inProcess /\ n \in Pages
        BY <2>1, <2>2, <2>3, <2>10
      <3>2. PICK g : /\ Trace(g, wire) /\ Alike(n, g[0], f[Len(managerQueue)])
                     /\ HasItsOwn(n, g[Len(wire)], mapped, view)
        BY <2>9, <3>1 DEF AllTraced
      <3>3. n # p => \A s : HasItsOwn(n, s, mapped, view) => HasItsOwn(n, s, mapped', view')
        BY <2>1, <3>1 DEF HasItsOwn
      <3>4. CASE wire' = wire /\ p \notin inProcess'
        BY <2>2, <2>10, <3>2, <3>3, <3>4
      <3>5. ASSUME NEW m \in WebMessages, Sent(p, m)
            PROVE  \E h : /\ Trace(h, wire') /\ Alike(n, h[0], f[Len(managerQueue')])
                          /\ HasItsOwn(n, h[Len(wire')], mapped', view')
        <4>1. m \in Messages /\ m.type # "CloneNamespace" /\ m.page = p /\ wire' = Append(wire, m)
          BY <3>5 DEF Sent, WebMessages, NamespaceMessages
        <4>2. PICK h : /\ Trace(h, Append(wire, m)) /\ \A i \in 0 .. Len(wire) : h[i] = g[i]
                       /\ h[Len(wire) + 1] = After(g[Len(wire)], m)
          BY <2>3, <3>2, <4>1, AppendTrace, SMTT(30)
        <4>3. Len(wire') = Len(wire) + 1 /\ Len(wire) \in Nat
          BY <2>3, <4>1, Appended
        <4>4. g[Len(wire)] \in States
          BY <3>2, <4>3, SMTT(30) DEF Trace
        <4>5. HasItsOwn(n, After(g[Len(wire)], m), mapped', view')
          <5>1. CASE n = p
            BY <2>10, <3>1, <3>2, <3>5, <4>4, <5>1 DEF Sent
          <5>2. CASE n # p
            <6>1. Alike(n, After(g[Len(wire)], m), g[Len(wire)])
              BY <3>1, <4>1, <4>4, <5>2, OtherAfter DEF Touches
            <6>2. HasItsOwn(n, After(g[Len(wire)], m), mapped, view)
              BY <3>2, <6>1, AlikeHas
            <6> QED
              BY <3>3, <5>2, <6>2
          <5> QED
            BY <5>1, <5>2
        <4>6. h[0] = g[0] /\ h[Len(wire')] = After(g[Len(wire)], m)
          BY <4>2, <4>3, SMTT(30)
        <4>7. Trace(h, wire') /\ Alike(n, h[0], f[Len(managerQueue')])
          BY <2>2, <3>2, <4>1, <4>2, <4>6
        <4>8. HasItsOwn(n, h[Len(wire')], mapped', view')
          BY <4>5, <4>6 DEF HasItsOwn
        <4> QED
          BY <4>7, <4>8
      <3> QED
        BY <2>1, <3>4, <3>5
    <2>11. AllTraced(f)'
      <3>1. Trace(f, managerQueue') /\ f[0] = Now'
        BY <2>2, <2>5, <2>9 DEF AllTraced
      <3>2. ~(reply' \in pages')
        BY <2>2, <2>3, <2>4, RepliesAssumption
      <3>3. \A i \in 1 .. Len(managerQueue') : managerQueue'[i].type # "GetValues"
        BY <2>2, <2>4 DEF NoSync, Sync
      <3> QED
        BY <2>10, <3>1, <3>2, <3>3 DEF AllTraced
    <2> QED
      BY <2>4, <2>5, <2>6, <2>7, <2>8, <2>11 DEF SInv, Traced
  <1> QED
    BY <1>WebSInv

LEMMA CloseSInv == ASSUME IInv, SInv, NEW p \in Pages, Close(p) PROVE SInv'
  <1>1. PICK m : m = DestroyNamespace(p)
    OBVIOUS
  <1>2. /\ m \in Messages /\ m.type = "DestroyNamespace" /\ m.page = p /\ m.to = NoPage
        /\ ~Sync(m)
    BY <1>1 DEF DestroyNamespace, Msg, Messages, Sync
  <1>3. /\ p \in pages /\ pages' = pages \ {p} /\ closing' = closing \cup {p}
        /\ managerQueue' = Append(managerQueue, m)
        /\ UNCHANGED <<view, inProcess, mapped, blocked, reply, wire, created, mainQueue, orphans,
                       namespaces, byConnection, mapOf, maps>>
        /\ UNCHANGED managerVars
    BY <1>1 DEF Close, webVars, managerVars
  <1>4. /\ created \subseteq Pages /\ pages \subseteq created
        /\ managerQueue \in Seq(Messages)
    BY DEF IInv
  <1>5. /\ Len(managerQueue) \in Nat /\ Len(managerQueue') = Len(managerQueue) + 1
        /\ \A i \in 1 .. Len(managerQueue) : managerQueue'[i] = managerQueue[i]
        /\ managerQueue'[Len(managerQueue) + 1] = m
        /\ \A i \in 1 .. Len(managerQueue') :
             i = Len(managerQueue') \/ i \in 1 .. Len(managerQueue)
    BY <1>2, <1>3, <1>4, Appended, SMTT(30)
  <1>6. Areas' /\ Now' = Now
    BY <1>3, SameNow DEF SInv
  <1>7. OpenPages'
    <2>1. KnownIn(managerQueue)'
      BY <1>2, <1>3, <1>4, <1>5 DEF SInv, OpenPages, KnownIn
    <2>2. KnownIn(wire)' /\ KnownIn(mainQueue)'
      BY <1>3 DEF SInv, OpenPages, KnownIn
    <2>3. pages' \cap closing' = {} /\ closing' \cup orphans' \subseteq created'
      BY <1>1, <1>3, <1>4 DEF Close, SInv, OpenPages
    <2> QED
      BY <1>3, <2>1, <2>2, <2>3 DEF SInv, OpenPages
  <1>8. Waiting'
    <2>1. NoSync(managerQueue) => NoSync(managerQueue')
      BY <1>2, <1>5 DEF NoSync
    <2>2. \A i \in 1 .. Len(managerQueue') : Sync(managerQueue'[i]) =>
            i \in 1 .. Len(managerQueue) /\ managerQueue'[i] = managerQueue[i]
      BY <1>2, <1>5
    <2>3. \A i \in 1 .. Len(managerQueue') : Sync(managerQueue'[i]) =>
            /\ managerQueue'[i].type = "GetValues" /\ managerQueue'[i].page = blocked
            /\ blocked \in mapped
            /\ \A j \in 1 .. Len(managerQueue') : Sync(managerQueue'[j]) => i = j
            /\ wire = << >> /\ mainQueue = << >> /\ reply = NoReply
      BY <2>2 DEF SInv, Waiting
    <2> QED
      BY <1>3, <2>1, <2>3 DEF SInv, Waiting, NoSync
  <1>9. Fresh(managerQueue)'
    <2>1. \A i \in 1 .. Len(managerQueue') : managerQueue'[i].type = "CloneNamespace" =>
            /\ i \in 1 .. Len(managerQueue) /\ managerQueue'[i] = managerQueue[i]
            /\ \A j \in 1 .. i - 1 : managerQueue'[j] = managerQueue[j]
      BY <1>2, <1>5, SMTT(30)
    <2> QED
      BY <1>3, <2>1, SMTT(30) DEF SInv, Fresh
  <1>10. Answered'
    BY <1>3 DEF SInv, Answered
  <1>11. PICK f : AllTraced(f)
    BY DEF SInv, Traced
  <1>12. PICK h : /\ Trace(h, Append(managerQueue, m))
                  /\ \A i \in 0 .. Len(managerQueue) : h[i] = f[i]
                  /\ h[Len(managerQueue) + 1] = After(f[Len(managerQueue)], m)
    BY <1>2, <1>4, <1>11, AppendTrace DEF AllTraced
  <1>13. ASSUME NEW n \in pages' PROVE Alike(n, f[Len(managerQueue)], h[Len(managerQueue')])
    <2>1. f[Len(managerQueue)] \in States
      BY <1>5, <1>11, SMTT(60) DEF AllTraced, Trace
    <2>2. Alike(n, h[Len(managerQueue')], f[Len(managerQueue)])
      BY <1>2, <1>3, <1>4, <1>5, <1>12, <1>13, <2>1, OtherAfter DEF Touches
    <2> QED
      BY <2>2, AlikeHas
  <1>14. AllTraced(h)'
    <2>1. Trace(h, managerQueue') /\ h[0] = Now'
      BY <1>3, <1>5, <1>6, <1>11, <1>12, SMTT(60) DEF AllTraced
    <2>2. ASSUME NEW n \in pages' \cap inProcess'
          PROVE  \E g : /\ Trace(g, wire') /\ Alike(n, g[0], h[Len(managerQueue')])
                        /\ HasItsOwn(n, g[Len(wire')], mapped', view')
      <3>1. PICK g : /\ Trace(g, wire) /\ Alike(n, g[0], f[Len(managerQueue)])
                     /\ HasItsOwn(n, g[Len(wire)], mapped, view)
        BY <1>3, <1>11, <2>2 DEF AllTraced
      <3>2. Alike(n, g[0], h[Len(managerQueue')])
        BY <1>13, <2>2, <3>1, AlikeHas
      <3>3. HasItsOwn(n, g[Len(wire')], mapped', view')
        BY <1>3, <3>1 DEF HasItsOwn
      <3> QED
        BY <1>3, <3>1, <3>2, <3>3
    <2>3. reply' \in pages' => IsNew(reply', h[Len(managerQueue')], NewItems(reply)')
      <3> SUFFICES ASSUME reply' \in pages' PROVE IsNew(reply', h[Len(managerQueue')], NewItems(reply)')
        OBVIOUS
      <3>1. IsNew(reply, f[Len(managerQueue)], NewItems(reply)) /\ reply \in pages'
        BY <1>3, <1>11 DEF AllTraced
      <3>2. IsNew(reply, h[Len(managerQueue')], NewItems(reply))
        BY <1>13, <3>1, AlikeHas
      <3> QED
        BY <1>3, <3>2 DEF NewItems
    <2>4. ASSUME NEW i \in 1 .. Len(managerQueue'), managerQueue'[i].type = "GetValues",
                 managerQueue'[i].page \in pages'
          PROVE  HasItsOwn(managerQueue'[i].page, h[i], mapped', view')
      <3>1. i \in 1 .. Len(managerQueue) /\ managerQueue'[i] = managerQueue[i] /\ h[i] = f[i]
        BY <1>2, <1>5, <1>12, <2>4, SMTT(30)
      <3>2. HasItsOwn(managerQueue[i].page, f[i], mapped, view)
        BY <1>3, <1>11, <2>4, <3>1 DEF AllTraced
      <3> QED
        BY <1>3, <3>1, <3>2 DEF HasItsOwn
    <2> QED
      BY <2>1, <2>2, <2>3, <2>4 DEF AllTraced
  <1> QED
    BY <1>6, <1>7, <1>8, <1>9, <1>10, <1>14 DEF SInv, Traced

LEMMA ReceiveSInv == ASSUME IInv, SInv, ReceiveReply PROVE SInv'
  <1>1. /\ reply # NoReply /\ blocked' = NoPage /\ reply' = NoReply
        /\ UNCHANGED <<mapped, wire, closing, pages, created, orphans, mainQueue, managerQueue,
                       namespaces, byConnection, mapOf, maps>>
        /\ UNCHANGED managerVars
    BY DEF ReceiveReply, uiVars, managerVars
  <1>2. /\ wire = << >> /\ mainQueue = << >> /\ NoSync(managerQueue)
        /\ blocked \in inProcess /\ Len(<< >>) = 0
    BY <1>1 DEF SInv, Waiting
  <1>3. /\ created \subseteq Pages /\ pages \subseteq created /\ inProcess \subseteq created
        /\ view \in [Pages -> Items] /\ mapped \subseteq inProcess
    BY DEF IInv, SInv, OpenPages
  <1>4. /\ inProcess \subseteq inProcess' /\ inProcess' \subseteq inProcess \cup {reply}
        /\ inProcess' \subseteq created
        /\ view' \in [Pages -> Items]
        /\ \A n \in Pages : n # reply => view'[n] = view[n]
        /\ reply \in Pages => reply \notin inProcess /\ view'[reply] = NewItems(reply)
    <2>1. CASE reply \in Pages
      BY <1>2, <1>3, <2>1 DEF ReceiveReply, NewItems, SInv, OpenPages
    <2>2. CASE reply \notin Pages
      BY <1>3, <2>2 DEF ReceiveReply
    <2> QED
      BY <2>1, <2>2
  <1>5. Areas' /\ Now' = Now
    BY <1>1, SameNow DEF SInv
  <1>6. Waiting' /\ Fresh(managerQueue)' /\ Answered'
    BY <1>1, <1>2, RepliesAssumption DEF SInv, Waiting, NoSync, Fresh, Answered
  <1>7. OpenPages'
    <2>1. \A n \in Pages : n \notin created' \/ n = reply' => view'[n] = Empty
      BY <1>1, <1>3, <1>4, RepliesAssumption DEF SInv, OpenPages
    <2> QED
      BY <1>1, <1>3, <1>4, <2>1, RepliesAssumption DEF SInv, OpenPages, KnownIn
  <1>8. PICK f : AllTraced(f)
    BY DEF SInv, Traced
  <1>9. ASSUME NEW n \in pages' \cap inProcess'
        PROVE  \E g : /\ Trace(g, wire') /\ Alike(n, g[0], f[Len(managerQueue')])
                      /\ HasItsOwn(n, g[Len(wire')], mapped', view')
    <2>1. n \in Pages /\ n \in pages
      BY <1>1, <1>3, <1>9
    <2>2. CASE n # reply
      <3>1. PICK g : /\ Trace(g, wire) /\ Alike(n, g[0], f[Len(managerQueue)])
                     /\ HasItsOwn(n, g[Len(wire)], mapped, view)
        BY <1>1, <1>4, <1>8, <1>9, <2>2 DEF AllTraced
      <3>2. HasItsOwn(n, g[Len(wire)], mapped', view')
        BY <1>1, <1>4, <2>1, <2>2, <3>1 DEF HasItsOwn
      <3> QED
        BY <1>1, <3>1, <3>2
    <2>3. CASE n = reply
      <3>1. PICK s : s = f[Len(managerQueue)]
        OBVIOUS
      <3>2. s \in States /\ IsNew(n, s, NewItems(n))
        BY <1>8, <2>1, <2>3, <3>1, SMTT(60) DEF AllTraced, Trace, IInv
      <3>3. n \notin mapped' /\ view'[n] = NewItems(n)
        BY <1>1, <1>3, <1>4, <2>1, <2>3
      <3>4. HasItsOwn(n, s, mapped', view')
        BY <3>2, <3>3 DEF IsNew, HasItsOwn
      <3> DEFINE g == [i \in 0 .. 0 |-> s]
      <3>5. Trace(g, << >>) /\ g[0] = s
        BY <3>2, SMTT(30) DEF Trace
      <3>6. Alike(n, g[0], f[Len(managerQueue')])
        BY <1>1, <3>1, <3>5 DEF Alike
      <3> HIDE DEF g
      <3> QED
        BY <1>1, <1>2, <3>4, <3>5, <3>6
    <2> QED
      BY <2>2, <2>3
  <1>10. AllTraced(f)'
    <2>1. Trace(f, managerQueue') /\ f[0] = Now'
      BY <1>1, <1>5, <1>8 DEF AllTraced
    <2>2. ~(reply' \in pages')
      BY <1>1, <1>3, RepliesAssumption
    <2>3. \A i \in 1 .. Len(managerQueue') : managerQueue'[i].type # "GetValues"
      BY <1>1, <1>2 DEF NoSync, Sync
    <2> QED
      BY <1>9, <2>1, <2>2, <2>3 DEF AllTraced
  <1> QED
    BY <1>5, <1>6, <1>7, <1>10 DEF SInv, Traced

LEMMA DeliverSInv == ASSUME IInv, SInv, Deliver PROVE SInv'
  <1>1. PICK m : m = Head(wire)
    OBVIOUS
  <1>2. /\ wire # << >> /\ wire' = Tail(wire)
        /\ IF m.type = "CreateNewPage"
           THEN mainQueue' = Append(mainQueue, m) /\ UNCHANGED managerQueue
           ELSE managerQueue' = Append(managerQueue, m) /\ UNCHANGED mainQueue
        /\ UNCHANGED <<view, inProcess, mapped, blocked, reply, closing, pages, created, orphans,
                       namespaces, byConnection, mapOf, maps>>
        /\ UNCHANGED managerVars
    BY <1>1 DEF Deliver, webVars, uiVars, managerVars
  <1>3. /\ created \subseteq Pages /\ pages \subseteq created
        /\ wire \in Seq(Messages) /\ managerQueue \in Seq(Messages) /\ mainQueue \in Seq(Messages)
        /\ m \in WebMessages /\ m \in Messages
        /\ m.type \notin {"CloneNamespace", "CreateNamespace", "DestroyNamespace"}
    <2>1. m \in WebMessages
      BY <1>1, <1>2, QueueTypes DEF IInv
    <2> QED
      BY <2>1, WireType DEF IInv, WebMessages, NamespaceMessages
  <1>4. /\ Len(wire) \in Nat \ {0} /\ Len(wire') = Len(wire) - 1
        /\ \A i \in 1 .. Len(wire') : wire'[i] = wire[i + 1] /\ i + 1 \in 1 .. Len(wire)
        /\ m = wire[1] /\ 1 \in 1 .. Len(wire)
        /\ Len(wire) = 1 => wire' = << >>
    BY <1>1, <1>2, <1>3, Tailed, SMTT(30)
  <1>5. reply = NoReply
    BY <1>2 DEF SInv, Waiting
  <1>6. m.page \in created /\ m.to \in created \cup {NoPage}
    BY <1>4 DEF SInv, OpenPages, KnownIn
  <1>7. Sync(m) =>
          /\ Len(wire) = 1 /\ wire' = << >> /\ m.page = blocked
          /\ m.type = "GetValues" => blocked \in mapped
          /\ NoSync(managerQueue) /\ mainQueue = << >>
    BY <1>4 DEF SInv, Waiting
  <1>8. Areas' /\ Now' = Now
    BY <1>2, SameNow DEF SInv
  <1>9. Answered'
    BY <1>2 DEF SInv, Answered
  <1>10. KnownIn(wire)'
    BY <1>2, <1>4, SMTT(30) DEF SInv, OpenPages, KnownIn
  <1>11. wire # << >> /\ NoSync(managerQueue) /\ mainQueue = << >>
    BY <1>2 DEF SInv, Waiting, NoSync
  <1>12. \A i \in 1 .. Len(wire') : Sync(wire'[i]) =>
           /\ i = Len(wire') /\ wire'[i].page = blocked
           /\ wire'[i].type = "GetValues" => blocked \in mapped
    BY <1>4, SMTT(30) DEF SInv, Waiting
  <1>13. PICK f : AllTraced(f)
    BY DEF SInv, Traced
  <1>14. ASSUME NEW n \in pages \cap inProcess, NEW g, Trace(g, wire),
                HasItsOwn(n, g[Len(wire)], mapped, view)
         PROVE  \E h : /\ Trace(h, wire') /\ h[0] = After(g[0], m) /\ g[0] \in States
                       /\ HasItsOwn(n, h[Len(wire')], mapped, view)
    <2>1. PICK h : Trace(h, Tail(wire)) /\ \A i \in 0 .. Len(wire) - 1 : h[i] = g[i + 1]
      BY <1>2, <1>3, <1>14, TailTrace, SMTT(30)
    <2>2. g[1] = After(g[1 - 1], wire[1]) /\ g[0] \in States
      BY <1>4, <1>14, SMTT(30) DEF Trace
    <2>3. 1 - 1 = 0 /\ 0 \in 0 .. Len(wire) - 1 /\ Len(wire) - 1 \in 0 .. Len(wire) - 1
          /\ 0 + 1 = 1 /\ (Len(wire) - 1) + 1 = Len(wire)
      BY <1>4, SMTT(30)
    <2>4. h[0] = g[0 + 1] /\ h[Len(wire) - 1] = g[(Len(wire) - 1) + 1]
      BY <2>1, <2>3
    <2>5. h[0] = After(g[0], m) /\ h[Len(wire')] = g[Len(wire)]
      BY <1>4, <2>2, <2>3, <2>4
    <2> QED
      BY <1>2, <1>14, <2>1, <2>2, <2>5
  <1>15. CASE m.type = "CreateNewPage"
    <2>1. /\ mainQueue' = <<m>> /\ UNCHANGED managerQueue /\ wire' = << >>
          /\ m.page = blocked /\ Len(<<m>>) = 1 /\ <<m>>[1] = m /\ Len(<< >>) = 0
      BY <1>2, <1>7, <1>11, <1>15, SMTT(30) DEF Sync
    <2>2. OpenPages'
      <3>1. KnownIn(mainQueue)'
        BY <1>2, <1>6, <2>1, SMTT(30) DEF KnownIn
      <3> QED
        BY <1>2, <1>10, <2>1, <3>1 DEF SInv, OpenPages, KnownIn
    <2>3. Waiting'
      <3>1. Len(mainQueue') = 1 /\ mainQueue'[1].page = blocked /\ Len(wire') = 0
        BY <2>1
      <3>2. \A i \in 1 .. Len(wire') : FALSE
        BY <3>1, SMTT(30)
      <3>3. NoSync(managerQueue') /\ wire' = << >> /\ reply' = NoReply
        BY <1>2, <1>5, <1>11, <2>1
      <3>4. \A i \in 1 .. Len(managerQueue') : ~Sync(managerQueue'[i])
        BY <3>3 DEF NoSync
      <3>5. blocked' = NoPage \/ blocked' \in inProcess'
        BY <1>2 DEF SInv, Waiting
      <3> QED
        BY <1>2, <3>1, <3>2, <3>3, <3>4, <3>5 DEF Waiting
    <2>4. Fresh(managerQueue)'
      BY <1>2, <2>1 DEF SInv, Fresh
    <2>5. ASSUME NEW n \in pages' \cap inProcess'
          PROVE  \E h : /\ Trace(h, wire') /\ Alike(n, h[0], f[Len(managerQueue')])
                        /\ HasItsOwn(n, h[Len(wire')], mapped', view')
      <3>1. PICK g : /\ Trace(g, wire) /\ Alike(n, g[0], f[Len(managerQueue)])
                     /\ HasItsOwn(n, g[Len(wire)], mapped, view)
        BY <1>2, <1>13, <2>5 DEF AllTraced
      <3>2. PICK h : /\ Trace(h, wire') /\ h[0] = After(g[0], m) /\ g[0] \in States
                     /\ HasItsOwn(n, h[Len(wire')], mapped, view)
        BY <1>2, <1>14, <2>5, <3>1
      <3>3. Alike(n, h[0], g[0])
        BY <1>2, <1>3, <1>15, <2>5, <3>2, SyncAfter DEF Sync
      <3>4. Alike(n, h[0], f[Len(managerQueue)])
        BY <3>1, <3>3, AlikeHas
      <3> QED
        BY <1>2, <2>1, <3>2, <3>4
    <2>6. AllTraced(f)'
      <3>1. Trace(f, managerQueue') /\ f[0] = Now'
        BY <1>8, <1>13, <2>1 DEF AllTraced
      <3>2. ~(reply' \in pages')
        BY <1>2, <1>3, <1>5, RepliesAssumption
      <3>3. \A i \in 1 .. Len(managerQueue') : managerQueue'[i].type # "GetValues"
        BY <1>11, <2>1 DEF NoSync, Sync
      <3> QED
        BY <2>5, <3>1, <3>2, <3>3 DEF AllTraced
    <2> QED
      BY <1>8, <1>9, <2>2, <2>3, <2>4, <2>6 DEF SInv, Traced
  <1>16. CASE m.type # "CreateNewPage"
    <2>1. managerQueue' = Append(managerQueue, m) /\ UNCHANGED mainQueue
      BY <1>2, <1>16
    <2>2. /\ Len(managerQueue) \in Nat /\ Len(managerQueue') = Len(managerQueue) + 1
          /\ \A i \in 1 .. Len(managerQueue) : managerQueue'[i] = managerQueue[i]
          /\ managerQueue'[Len(managerQueue) + 1] = m
          /\ \A i \in 1 .. Len(managerQueue') :
               i = Len(managerQueue') \/ i \in 1 .. Len(managerQueue)
      BY <1>3, <2>1, Appended, SMTT(30)
    <2>3. OpenPages'
      <3>1. KnownIn(managerQueue)'
        BY <1>2, <1>6, <2>2 DEF SInv, OpenPages, KnownIn
      <3> QED
        BY <1>2, <1>10, <2>1, <3>1 DEF SInv, OpenPages, KnownIn
    <2>4. \A i \in 1 .. Len(managerQueue') : Sync(managerQueue'[i]) =>
            i = Len(managerQueue') /\ managerQueue'[i] = m /\ m.type = "GetValues"
      BY <1>11, <1>16, <2>2 DEF NoSync, Sync
    <2>5. Waiting'
      <3>1. \A i \in 1 .. Len(managerQueue') : Sync(managerQueue'[i]) =>
              /\ managerQueue'[i].type = "GetValues" /\ managerQueue'[i].page = blocked
              /\ blocked \in mapped
              /\ \A j \in 1 .. Len(managerQueue') : Sync(managerQueue'[j]) => i = j
              /\ wire' = << >> /\ mainQueue = << >> /\ reply = NoReply
        BY <1>5, <1>7, <1>11, <2>4
      <3>2. \A i \in 1 .. Len(wire') : Sync(wire'[i]) => NoSync(managerQueue')
        <4> SUFFICES ASSUME NEW i \in 1 .. Len(wire'), Sync(wire'[i]), Sync(m) PROVE FALSE
          BY <2>4 DEF NoSync
        <4>1. Len(wire) = 1
          BY <1>7
        <4>2. Len(wire') = 0
          BY <1>4, <4>1, SMTT(30)
        <4> QED
          BY <4>2, SMTT(30)
      <3> QED
        BY <1>2, <1>5, <1>11, <1>12, <2>1, <3>1, <3>2 DEF SInv, Waiting
    <2>6. Fresh(managerQueue)'
      <3>1. \A i \in 1 .. Len(managerQueue') : managerQueue'[i].type = "CloneNamespace" =>
              /\ i \in 1 .. Len(managerQueue) /\ managerQueue'[i] = managerQueue[i]
              /\ \A j \in 1 .. i - 1 : managerQueue'[j] = managerQueue[j]
        BY <1>3, <2>2, SMTT(30)
      <3> QED
        BY <1>2, <3>1 DEF SInv, Fresh
    <2>7. PICK e : /\ Trace(e, Append(managerQueue, m))
                   /\ \A i \in 0 .. Len(managerQueue) : e[i] = f[i]
                   /\ e[Len(managerQueue) + 1] = After(f[Len(managerQueue)], m)
      BY <1>3, <1>13, AppendTrace DEF AllTraced
    <2>8. f[Len(managerQueue)] \in States
      BY <1>13, <2>2, SMTT(30) DEF AllTraced, Trace
    <2>9. ASSUME NEW n \in pages \cap inProcess
          PROVE  \E h : /\ Trace(h, wire') /\ Alike(n, h[0], e[Len(managerQueue')])
                        /\ HasItsOwn(n, h[Len(wire')], mapped, view)
      <3>1. PICK g : /\ Trace(g, wire) /\ Alike(n, g[0], f[Len(managerQueue)])
                     /\ HasItsOwn(n, g[Len(wire)], mapped, view)
        BY <1>13, <2>9 DEF AllTraced
      <3>2. PICK h : /\ Trace(h, wire') /\ h[0] = After(g[0], m) /\ g[0] \in States
                     /\ HasItsOwn(n, h[Len(wire')], mapped, view)
        BY <1>14, <2>9, <3>1
      <3>3. Alike(n, After(g[0], m), After(f[Len(managerQueue)], m))
        BY <1>3, <2>8, <2>9, <3>1, <3>2, AlikeAfter
      <3>4. Alike(n, h[0], e[Len(managerQueue')])
        BY <2>2, <2>7, <3>2, <3>3
      <3> QED
        BY <3>2, <3>4
    <2>10. AllTraced(e)'
      <3>1. Trace(e, managerQueue') /\ e[0] = Now'
        BY <1>8, <1>13, <2>1, <2>2, <2>7, SMTT(60) DEF AllTraced
      <3>2. ~(reply' \in pages')
        BY <1>2, <1>3, <1>5, RepliesAssumption
      <3>3. ASSUME NEW i \in 1 .. Len(managerQueue'), managerQueue'[i].type = "GetValues",
                   managerQueue'[i].page \in pages'
            PROVE  HasItsOwn(managerQueue'[i].page, e[i], mapped', view')
        <4>1. i = Len(managerQueue') /\ managerQueue'[i] = m
          BY <2>4, <3>3 DEF Sync
        <4>2. m.page = blocked /\ wire' = << >> /\ Len(<< >>) = 0
          BY <1>7, <3>3, <4>1 DEF Sync
        <4>3. m.page \in pages \cap inProcess
          BY <1>2, <1>3, <3>3, <4>1, <4>2, PagesAssumption DEF SInv, Waiting
        <4>4. PICK h : /\ Trace(h, wire') /\ Alike(m.page, h[0], e[Len(managerQueue')])
                       /\ HasItsOwn(m.page, h[Len(wire')], mapped, view)
          BY <2>9, <4>3
        <4>5. HasItsOwn(m.page, e[i], mapped, view)
          BY <4>1, <4>2, <4>4, AlikeHas
        <4> QED
          BY <1>2, <4>1, <4>5
      <3>4. \A n \in pages' \cap inProcess' :
              \E h : /\ Trace(h, wire') /\ Alike(n, h[0], e[Len(managerQueue')])
                     /\ HasItsOwn(n, h[Len(wire')], mapped', view')
        BY <1>2, <2>9
      <3> QED
        BY <3>1, <3>2, <3>3, <3>4 DEF AllTraced
    <2> QED
      BY <1>8, <1>9, <2>3, <2>5, <2>6, <2>10 DEF SInv, Traced
  <1> QED
    BY <1>15, <1>16

\* What the main thread puts behind the manager's queue q for a new page.
Opening(q, r, n, c) ==
  /\ r \in Seq(Messages) /\ Len(q) < Len(r)
  /\ \A i \in 1 .. Len(q) : r[i] = q[i]
  /\ \A i \in Len(q) + 1 .. Len(r) :
       /\ r[i].type \in NamespaceMessages /\ r[i].page \in {n, c} /\ r[i].to \in {c, NoPage}
       /\ r[i].type = "CloneNamespace" => i = Len(r) /\ r[i].to = c

\* A message of the manager is answered if it is the synchronous one.
LEMMA ManagerFrame ==
  ASSUME IInv, SInv, Manager, NEW m, m = Head(managerQueue)
  PROVE  /\ managerQueue # << >> /\ managerQueue' = Tail(managerQueue)
         /\ UNCHANGED <<view, inProcess, mapped, blocked, wire, closing, pages, created, orphans,
                        mainQueue>>
         /\ \/ m.type # "GetValues" /\ reply' = reply
            \/ m.type = "GetValues"
               /\ reply' = IF m.page \in byConnection THEN maps[mapOf[m.page]].items
                           ELSE Create.items
  <1>1. /\ Handle(m.type, m)
        /\ \/ m.type # "GetValues" /\ reply' = reply
           \/ m.type = "GetValues" /\ GetValues(m)
    BY DEF Manager, CreateSessionStorageNamespace, DestroySessionStorageNamespace,
           CloneSessionStorageNamespace, CreateSessionStorageMap, DestroyStorageMap,
           ManagerSetItem, ManagerRemoveItem, ManagerClear, ChangeArea, GetValues, Handle
  <1> QED
    BY <1>1 DEF Handle, GetValues, webVars, uiVars

\* Messages that are not about a page leave it as it is, however many.
LEMMA UntouchedTrace ==
  ASSUME LeastNumbers, NEW q \in Seq(Messages), NEW f, Trace(f, q), NEW n \in Pages,
         \A i \in 1 .. Len(q) : ~Touches(q[i], n)
  PROVE  Alike(n, f[Len(q)], f[0])
  <1> DEFINE T == {i \in 0 .. Len(q) : ~Alike(n, f[i], f[0])}
  <1>1. Len(q) \in Nat
    BY SMTT(30)
  <1>2. T = {}
    <2> SUFFICES ASSUME T # {} PROVE FALSE
      OBVIOUS
    <2>1. T \in SUBSET Nat
      BY <1>1, SMTT(30)
    <2> HIDE DEF T
    <2>2. PICK x \in T : \A y \in T : ~(y < x)
      BY <2>1 DEF LeastNumbers
    <2>3. x \in 0 .. Len(q) /\ ~Alike(n, f[x], f[0])
      BY DEF T
    <2>4. x # 0
      BY <2>3 DEF Alike
    <2>5. x - 1 \in 0 .. Len(q) /\ x \in 1 .. Len(q) /\ x - 1 < x
      BY <1>1, <2>3, <2>4, SMTT(30)
    <2>6. Alike(n, f[x - 1], f[0])
      BY <2>2, <2>5 DEF T
    <2>7. f[x] = After(f[x - 1], q[x]) /\ f[x - 1] \in States /\ q[x] \in Messages
      BY <2>5, SMTT(30) DEF Trace
    <2>8. Alike(n, f[x], f[x - 1])
      BY <2>5, <2>7, OtherAfter
    <2> QED
      BY <2>3, <2>6, <2>8 DEF Alike
  <1> QED
    BY <1>1, <1>2, SMTT(30)

\* The opening of a page.
LEMMA CreateNewPageKeeps ==
  LeastNumbers /\ IInv /\ SInv /\ CreateNewPage => SInv'
  \* A new page's namespace, made of its opener's or, if that is destroyed
  \* before, empty.
  <1>OpenTrace.
    ASSUME NEW q \in Seq(Messages), NEW f, Trace(f, q), NEW n \in Pages, NEW c \in Pages, n # c,
           n \in f[Len(q)].spaces, c \notin f[Len(q)].listeners, f[Len(q)].items[c] = Empty
    PROVE  /\ \E h : /\ Trace(h, q \o <<CreateNamespace(c), CloneNamespace(n, c)>>)
                     /\ \A i \in 0 .. Len(q) : h[i] = f[i]
                     /\ IsNew(c, h[Len(q) + 2], f[Len(q)].items[n])
                     /\ \A p \in Pages \ {c} : Alike(p, f[Len(q)], h[Len(q) + 2])
           /\ \E h : /\ Trace(h, q \o <<CreateNamespace(c), DestroyNamespace(n), CloneNamespace(n, c)>>)
                     /\ \A i \in 0 .. Len(q) : h[i] = f[i]
                     /\ IsNew(c, h[Len(q) + 3], Empty)
                     /\ \A p \in Pages \ {c, n} : Alike(p, f[Len(q)], h[Len(q) + 3])
    <2> USE <1>OpenTrace
    <2>1. PICK m1 : m1 = CreateNamespace(c)
      OBVIOUS
    <2>2. PICK m2 : m2 = DestroyNamespace(n)
      OBVIOUS
    <2>3. PICK m3 : m3 = CloneNamespace(n, c)
      OBVIOUS
    <2>4. /\ m1 \in Messages /\ m1.type = "CreateNamespace" /\ m1.page = c
          /\ m2 \in Messages /\ m2.type = "DestroyNamespace" /\ m2.page = n
          /\ m3 \in Messages /\ m3.type = "CloneNamespace" /\ m3.page = n /\ m3.to = c
      BY <2>1, <2>2, <2>3 DEF CreateNamespace, DestroyNamespace, CloneNamespace, Msg, Messages
    <2>5. PICK q1 : q1 = Append(q, m1)
      OBVIOUS
    <2>6. q1 \in Seq(Messages) /\ Len(q1) = Len(q) + 1 /\ Len(q) \in Nat
      BY <2>4, <2>5, Appended
    <2>7. PICK f1 : /\ Trace(f1, q1) /\ \A i \in 0 .. Len(q) : f1[i] = f[i]
                    /\ f1[Len(q) + 1] = After(f[Len(q)], m1)
      BY <2>4, <2>5, AppendTrace, SMTT(30)
    <2>8. PICK s : s = f[Len(q)]
      OBVIOUS
    <2>9. PICK s1 : s1 = After(s, m1)
      OBVIOUS
    <2>10. s \in States /\ s1 \in States
      <3>1. s \in States
        BY <2>6, <2>8, SMTT(30) DEF Trace
      <3> QED
        BY <2>4, <2>9, <3>1, AfterType
    <2>11. /\ s1.spaces = s.spaces \cup {c} /\ s1.listeners = s.listeners
           /\ \A p \in Pages : s1.items[p] = s.items[p]
      <3>1. OwnItemsAfter(s, m1) = s.items[c]
        BY <2>4 DEF OwnItemsAfter
      <3> QED
        BY <2>4, <2>9, <2>10, <3>1 DEF After, SpacesAfter, ListenersAfter, ItemsAfter, States
    <2>12. ASSUME NEW q2 \in Seq(Messages), NEW f2, Trace(f2, q2), NEW t, t = f2[Len(q2)],
                  Len(q2) > Len(q), \A i \in 0 .. Len(q) : f2[i] = f[i], t \in States
           PROVE  \E h : /\ Trace(h, Append(q2, m3)) /\ \A i \in 0 .. Len(q) : h[i] = f[i]
                         /\ h[Len(q2) + 1] = After(t, m3)
                         /\ After(t, m3).spaces = t.spaces /\ After(t, m3).listeners = t.listeners
                         /\ \A p \in Pages :
                              After(t, m3).items[p] = IF p = c /\ n \in t.spaces THEN t.items[n]
                                                      ELSE t.items[p]
      <3>1. PICK h : /\ Trace(h, Append(q2, m3)) /\ \A i \in 0 .. Len(q2) : h[i] = f2[i]
                     /\ h[Len(q2) + 1] = After(f2[Len(q2)], m3)
        BY <2>4, <2>12, AppendTrace, SMTT(30)
      <3>2. Len(q2) \in Nat
        BY <2>12, SMTT(30)
      <3>3. \A i \in 0 .. Len(q) : h[i] = f[i]
        BY <2>6, <2>12, <3>1, <3>2, SMTT(30)
      <3>4. /\ After(t, m3).spaces = t.spaces /\ After(t, m3).listeners = t.listeners
            /\ \A p \in Pages :
                 After(t, m3).items[p] = IF p = c /\ n \in t.spaces THEN t.items[n]
                                         ELSE t.items[p]
        BY <2>4, <2>12 DEF After, SpacesAfter, ListenersAfter, ItemsAfter, States
      <3> QED
        BY <2>12, <3>1, <3>3, <3>4
    <2>13. \E h : /\ Trace(h, q \o <<m1, m3>>)
                  /\ \A i \in 0 .. Len(q) : h[i] = f[i]
                  /\ IsNew(c, h[Len(q) + 2], s.items[n])
                  /\ \A p \in Pages \ {c} : Alike(p, s, h[Len(q) + 2])
      <3>1. q \o <<m1, m3>> = Append(q1, m3)
        BY <2>4, <2>5, SMTT(30)
      <3>2. s1 = f1[Len(q1)] /\ Len(q1) > Len(q) /\ Len(q1) + 1 = Len(q) + 2
        BY <2>6, <2>7, <2>8, <2>9, SMTT(30)
      <3>3. PICK h : /\ Trace(h, Append(q1, m3)) /\ \A i \in 0 .. Len(q) : h[i] = f[i]
                     /\ h[Len(q1) + 1] = After(s1, m3)
                     /\ After(s1, m3).spaces = s1.spaces /\ After(s1, m3).listeners = s1.listeners
                     /\ \A p \in Pages :
                          After(s1, m3).items[p] = IF p = c /\ n \in s1.spaces THEN s1.items[n]
                                                   ELSE s1.items[p]
        BY <2>6, <2>7, <2>10, <2>12, <3>2, SMTT(60)
      <3>4. IsNew(c, After(s1, m3), s.items[n])
        BY <2>8, <2>11, <3>3 DEF IsNew
      <3>5. \A p \in Pages \ {c} : Alike(p, s, After(s1, m3))
        BY <2>11, <3>3 DEF Alike
      <3>6. h[Len(q) + 2] = After(s1, m3)
        BY <3>2, <3>3
      <3>7. /\ Trace(h, q \o <<m1, m3>>) /\ IsNew(c, h[Len(q) + 2], s.items[n])
            /\ \A p \in Pages \ {c} : Alike(p, s, h[Len(q) + 2])
        BY <3>1, <3>3, <3>4, <3>5, <3>6
      <3> QED
        BY <3>3, <3>7
    <2>14. \E h : /\ Trace(h, q \o <<m1, m2, m3>>)
                  /\ \A i \in 0 .. Len(q) : h[i] = f[i]
                  /\ IsNew(c, h[Len(q) + 3], Empty)
                  /\ \A p \in Pages \ {c, n} : Alike(p, s, h[Len(q) + 3])
      <3>1. PICK q2 : q2 = Append(q1, m2)
        OBVIOUS
      <3>2. q2 \in Seq(Messages) /\ Len(q2) = Len(q) + 2
        BY <2>4, <2>6, <3>1, Appended, SMTT(30)
      <3>3. q \o <<m1, m2, m3>> = Append(q2, m3)
        BY <2>4, <2>5, <3>1, SMTT(30)
      <3>4. PICK f2 : /\ Trace(f2, q2) /\ \A i \in 0 .. Len(q1) : f2[i] = f1[i]
                      /\ f2[Len(q1) + 1] = After(f1[Len(q1)], m2)
        BY <2>4, <2>6, <2>7, <3>1, AppendTrace, SMTT(30)
      <3>5. PICK s2 : s2 = After(s1, m2)
        OBVIOUS
      <3>6. s2 \in States
        BY <2>4, <2>10, <3>5, AfterType
      <3>7. /\ s2.spaces = s1.spaces \ {n} /\ s2.listeners = s1.listeners
            /\ \A p \in Pages \ {n} : s2.items[p] = s1.items[p]
        BY <2>4, <2>10, <3>5 DEF After, SpacesAfter, ListenersAfter, ItemsAfter, States
      <3>8. s2 = f2[Len(q2)] /\ Len(q2) > Len(q) /\ Len(q2) + 1 = Len(q) + 3
        BY <2>6, <2>7, <2>8, <2>9, <3>2, <3>4, <3>5, SMTT(30)
      <3>9. \A i \in 0 .. Len(q) : f2[i] = f[i]
        BY <2>6, <2>7, <3>4, SMTT(30)
      <3>10. PICK h : /\ Trace(h, Append(q2, m3)) /\ \A i \in 0 .. Len(q) : h[i] = f[i]
                      /\ h[Len(q2) + 1] = After(s2, m3)
                      /\ After(s2, m3).spaces = s2.spaces /\ After(s2, m3).listeners = s2.listeners
                      /\ \A p \in Pages :
                           After(s2, m3).items[p] = IF p = c /\ n \in s2.spaces THEN s2.items[n]
                                                    ELSE s2.items[p]
        BY <2>12, <3>2, <3>4, <3>6, <3>8, <3>9, SMTT(30)
      <3>11. IsNew(c, After(s2, m3), Empty)
        BY <2>8, <2>11, <3>7, <3>10 DEF IsNew
      <3>12. \A p \in Pages \ {c, n} : Alike(p, s, After(s2, m3))
        BY <2>11, <3>7, <3>10 DEF Alike
      <3>13. h[Len(q) + 3] = After(s2, m3)
        BY <3>8, <3>10
      <3>14. /\ Trace(h, q \o <<m1, m2, m3>>) /\ IsNew(c, h[Len(q) + 3], Empty)
             /\ \A p \in Pages \ {c, n} : Alike(p, s, h[Len(q) + 3])
        BY <3>3, <3>10, <3>11, <3>12, <3>13
      <3> QED
        BY <3>10, <3>14
    <2> QED
      BY <2>1, <2>2, <2>3, <2>8, <2>13, <2>14
  <1>OpeningFacts.
    ASSUME NEW q \in Seq(Messages), NEW n \in Pages, NEW c \in Pages
    PROVE  /\ Opening(q, q \o <<CreateNamespace(c), CloneNamespace(n, c)>>, n, c)
           /\ Opening(q, q \o <<CreateNamespace(c), DestroyNamespace(n), CloneNamespace(n, c)>>, n, c)
           /\ Len(q \o <<CreateNamespace(c), CloneNamespace(n, c)>>) = Len(q) + 2
           /\ Len(q \o <<CreateNamespace(c), DestroyNamespace(n), CloneNamespace(n, c)>>) = Len(q) + 3
    <2>1. PICK m1 : m1 = CreateNamespace(c)
      OBVIOUS
    <2>2. PICK m2 : m2 = DestroyNamespace(n)
      OBVIOUS
    <2>3. PICK m3 : m3 = CloneNamespace(n, c)
      OBVIOUS
    <2>4. /\ m1 \in Messages /\ m1.type = "CreateNamespace" /\ m1.page = c /\ m1.to = NoPage
          /\ m2 \in Messages /\ m2.type = "DestroyNamespace" /\ m2.page = n /\ m2.to = NoPage
          /\ m3 \in Messages /\ m3.type = "CloneNamespace" /\ m3.page = n /\ m3.to = c
      BY <2>1, <2>2, <2>3 DEF CreateNamespace, DestroyNamespace, CloneNamespace, Msg, Messages
    <2>5. ASSUME NEW r, r = q \o <<m1, m3>> PROVE Opening(q, r, n, c) /\ Len(r) = Len(q) + 2
      <3>1. /\ r \in Seq(Messages) /\ Len(q) \in Nat /\ Len(r) = Len(q) + 2
            /\ \A i \in 1 .. Len(q) : r[i] = q[i]
            /\ r[Len(q) + 1] = m1 /\ r[Len(q) + 2] = m3
        BY <2>4, <2>5, SMTT(30)
      <3>2. \A i \in Len(q) + 1 .. Len(r) : i = Len(q) + 1 \/ i = Len(q) + 2
        BY <3>1, SMTT(30)
      <3> QED
        BY <2>4, <3>1, <3>2, SMTT(30) DEF Opening, NamespaceMessages
    <2>6. ASSUME NEW r, r = q \o <<m1, m2, m3>> PROVE Opening(q, r, n, c) /\ Len(r) = Len(q) + 3
      <3>1. /\ r \in Seq(Messages) /\ Len(q) \in Nat /\ Len(r) = Len(q) + 3
            /\ \A i \in 1 .. Len(q) : r[i] = q[i]
            /\ r[Len(q) + 1] = m1 /\ r[Len(q) + 2] = m2 /\ r[Len(q) + 3] = m3
        BY <2>4, <2>6, SMTT(30)
      <3>2. \A i \in Len(q) + 1 .. Len(r) : i = Len(q) + 1 \/ i = Len(q) + 2 \/ i = Len(q) + 3
        BY <3>1, SMTT(30)
      <3> QED
        BY <2>4, <3>1, <3>2, SMTT(30) DEF Opening, NamespaceMessages
    <2> QED
      BY <2>1, <2>2, <2>3, <2>5, <2>6
  \* When the main thread opens a page, all that its opener has written is in
  \* the manager's queue.
  <1>OpenerState.
    ASSUME IInv, SInv, mainQueue # << >>
    PROVE  /\ Head(mainQueue).page = blocked /\ blocked \in inProcess /\ blocked # NoPage
           /\ wire = << >> /\ NoSync(managerQueue) /\ reply = NoReply /\ Tail(mainQueue) = << >>
    <2> USE <1>OpenerState
    <2>1. /\ Len(mainQueue) = 1 /\ mainQueue[1].page = blocked
          /\ wire = << >> /\ NoSync(managerQueue) /\ reply = NoReply
      BY DEF SInv, Waiting
    <2>2. mainQueue \in Seq(Messages)
      BY WireType
    <2>3. Head(mainQueue) = mainQueue[1] /\ mainQueue[1] \in Messages /\ Tail(mainQueue) = << >>
      BY <2>1, <2>2, Tailed
    <2>4. blocked \in Pages
      BY <2>1, <2>3 DEF Messages
    <2> QED
      BY <2>1, <2>3, <2>4, PagesAssumption DEF SInv, Waiting
  <1>OpenSInv.
    ASSUME IInv, SInv, mainQueue # << >>, mainQueue' = Tail(mainQueue),
           UNCHANGED <<webVars, wire, managerVars>>,
           NEW n \in pages, n = Head(mainQueue).page,
           NEW c \in Pages \ created, created' = created \cup {c}, reply' = c,
           Opening(managerQueue, managerQueue', n, c),
           pages' \subseteq pages \cup {c}, pages' \cap closing' = {},
           closing' \cup orphans' \subseteq created',
           NEW f, AllTraced(f), NEW h, Trace(h, managerQueue'),
           \A i \in 0 .. Len(managerQueue) : h[i] = f[i],
           IsNew(c, h[Len(managerQueue')], NewItems(c)'),
           \A p \in pages' \ {c} : Alike(p, f[Len(managerQueue)], h[Len(managerQueue')])
    PROVE  SInv'
    <2> USE <1>OpenSInv
    <2>1. /\ UNCHANGED <<view, inProcess, mapped, blocked, namespaces, byConnection, mapOf, maps>>
          /\ wire' = wire
      BY DEF webVars, managerVars
    <2>2. /\ n = blocked /\ blocked \in inProcess /\ blocked # NoPage
          /\ wire = << >> /\ NoSync(managerQueue) /\ reply = NoReply /\ mainQueue' = << >>
      BY <1>OpenerState
    <2>3. /\ created \subseteq Pages /\ pages \subseteq created /\ managerQueue \in Seq(Messages)
          /\ inProcess \subseteq created /\ c \notin inProcess /\ Len(managerQueue) \in Nat
          /\ byConnection \subseteq created /\ namespaces \subseteq created
      BY SMTT(60) DEF IInv, SInv, OpenPages, Areas
    <2>4. Areas'
      BY <2>1, <2>3 DEF SInv, Areas, MapsTyped
    <2>5. Now' = Now
      BY <2>1 DEF Now, Contents
    <2>6. /\ Len(managerQueue) < Len(managerQueue') /\ Len(managerQueue') \in Nat
          /\ \A i \in 1 .. Len(managerQueue) : managerQueue'[i] = managerQueue[i]
          /\ \A i \in Len(managerQueue) + 1 .. Len(managerQueue') :
               /\ managerQueue'[i].type \in NamespaceMessages
               /\ managerQueue'[i].page \in {n, c} /\ managerQueue'[i].to \in {c, NoPage}
               /\ managerQueue'[i].type = "CloneNamespace" =>
                    i = Len(managerQueue') /\ managerQueue'[i].to = c
      BY SMTT(60) DEF Opening
    <2>7. \A i \in 1 .. Len(managerQueue') :
            i \in 1 .. Len(managerQueue) \/ i \in Len(managerQueue) + 1 .. Len(managerQueue')
      BY <2>3, <2>6, SMTT(60)
    <2>8. KnownIn(managerQueue)
      BY DEF SInv, OpenPages
    <2>9. OpenPages'
      <3>1. KnownIn(managerQueue)'
        BY <2>3, <2>6, <2>7, <2>8 DEF KnownIn
      <3>2. /\ \A i \in 1 .. Len(wire') : FALSE
            /\ \A i \in 1 .. Len(mainQueue') : FALSE
        <4>1. Len(wire') = 0 /\ Len(mainQueue') = 0
          BY <2>1, <2>2
        <4>2. \A i \in 1 .. 0 : FALSE
          BY SMTT(60)
        <4> QED
          BY <4>1, <4>2
      <3>3. KnownIn(wire)' /\ KnownIn(mainQueue)'
        BY <3>2 DEF KnownIn
      <3>4. /\ \A p \in Pages : p \notin created => view[p] = Empty
            /\ mapped \subseteq inProcess /\ view \in [Pages -> Items]
        BY DEF SInv, OpenPages
      <3>5. /\ inProcess' \subseteq created' /\ mapped' \subseteq inProcess'
            /\ view' \in [Pages -> Items] /\ reply' \in Pages /\ reply' \in created' \ inProcess'
            /\ \A p \in Pages : p \notin created' \/ p = reply' => view'[p] = Empty
        BY <2>1, <2>3, <3>4
      <3> QED
        BY <3>1, <3>3, <3>5 DEF OpenPages
    <2>10. NoSync(managerQueue')
      BY <2>2, <2>6, <2>7 DEF NoSync, Sync, NamespaceMessages
    <2>11. Waiting'
      <3>1. Len(wire') = 0 /\ \A i \in 1 .. Len(wire') : FALSE
        BY <2>1, <2>2, SMTT(60)
      <3>2. \A i \in 1 .. Len(managerQueue') : ~Sync(managerQueue'[i])
        BY <2>10 DEF NoSync
      <3> QED
        BY <2>1, <2>2, <2>10, <3>1, <3>2 DEF Waiting
    <2>12. Fresh(managerQueue)'
      <3>1. Fresh(managerQueue) /\ mapOf[c] = NoPage /\ c \notin byConnection
        BY <2>3 DEF SInv, Areas
      <3> SUFFICES ASSUME NEW i \in 1 .. Len(managerQueue'),
                          managerQueue'[i].type = "CloneNamespace"
                   PROVE  LET q == managerQueue'
                          IN  /\ q[i].to \in Pages /\ mapOf[q[i].to] = NoPage
                              /\ q[i].to \notin byConnection
                              /\ \A j \in 1 .. i - 1 :
                                   /\ ~Is(q[j], "CreateSessionStorageMap", q[i].to)
                                   /\ ~(q[j].type = "CloneNamespace" /\ q[j].to = q[i].to)
        BY <2>1 DEF Fresh
      <3>2. CASE i \in 1 .. Len(managerQueue)
        <4>1. /\ managerQueue'[i] = managerQueue[i]
              /\ \A j \in 1 .. i - 1 : managerQueue'[j] = managerQueue[j]
          BY <2>3, <2>6, <3>2, SMTT(60)
        <4> QED
          BY <3>1, <3>2, <4>1 DEF Fresh
      <3>3. CASE i \in Len(managerQueue) + 1 .. Len(managerQueue')
        <4>1. i = Len(managerQueue') /\ managerQueue'[i].to = c
          BY <2>6, <3>3
        <4>2. \A j \in 1 .. Len(managerQueue) :
                /\ managerQueue'[j].page # c /\ managerQueue'[j].to # c
          BY <2>3, <2>6, <2>8, PagesAssumption, SMTT(60) DEF KnownIn
        <4>3. ASSUME NEW j \in 1 .. i - 1
              PROVE  /\ ~Is(managerQueue'[j], "CreateSessionStorageMap", c)
                     /\ ~(managerQueue'[j].type = "CloneNamespace" /\ managerQueue'[j].to = c)
          <5>1. CASE j \in 1 .. Len(managerQueue)
            BY <4>2, <5>1 DEF Is
          <5>2. CASE j \notin 1 .. Len(managerQueue)
            <6>1. j \in Len(managerQueue) + 1 .. Len(managerQueue') /\ j # Len(managerQueue')
              BY <2>3, <2>6, <4>1, <5>2, SMTT(60)
            <6> QED
              BY <2>6, <6>1 DEF Is, NamespaceMessages
          <5> QED
            BY <5>1, <5>2
        <4> QED
          BY <3>1, <4>1, <4>3
      <3> QED
        BY <2>7, <3>2, <3>3
    <2>13. Answered'
      BY RepliesAssumption DEF Answered
    <2>14. AllTraced(h)'
      <3>1. Trace(h, managerQueue') /\ h[0] = Now'
        BY <2>3, <2>5, SMTT(60) DEF AllTraced
      <3>2. ASSUME NEW p \in pages' \cap inProcess'
            PROVE  \E g : /\ Trace(g, wire') /\ Alike(p, g[0], h[Len(managerQueue')])
                          /\ HasItsOwn(p, g[Len(wire')], mapped', view')
        <4>1. p \in pages \cap inProcess /\ p # c
          BY <2>1, <2>3, <3>2
        <4>2. PICK g : /\ Trace(g, wire) /\ Alike(p, g[0], f[Len(managerQueue)])
                       /\ HasItsOwn(p, g[Len(wire)], mapped, view)
          BY <4>1 DEF AllTraced
        <4>3. Alike(p, f[Len(managerQueue)], h[Len(managerQueue')])
          BY <3>2, <4>1
        <4>4. Alike(p, g[0], h[Len(managerQueue')])
          BY <4>2, <4>3, AlikeHas
        <4> QED
          BY <2>1, <4>2, <4>4
      <3>3. IsNew(reply', h[Len(managerQueue')], NewItems(reply)')
        BY DEF NewItems
      <3>4. \A i \in 1 .. Len(managerQueue') : managerQueue'[i].type # "GetValues"
        BY <2>10 DEF NoSync, Sync
      <3> QED
        BY <3>1, <3>2, <3>3, <3>4 DEF AllTraced
    <2> QED
      BY <2>4, <2>9, <2>11, <2>12, <2>13, <2>14 DEF SInv, Traced
  <1>CreateNewPageSInv.
    ASSUME LeastNumbers, IInv, SInv, CreateNewPage
    PROVE  SInv'
    <2> USE <1>CreateNewPageSInv
    <2>1. PICK n : n = Head(mainQueue).page
      OBVIOUS
    <2>2. /\ mainQueue # << >> /\ mainQueue' = Tail(mainQueue)
          /\ UNCHANGED <<webVars, wire, managerVars>>
          /\ \/ n \in pages /\ (Opened(n) \/ OpenedAndClosed(n))
             \/ Refused
      BY <2>1 DEF CreateNewPage
    <2>3. /\ n = blocked /\ blocked \in inProcess /\ blocked # NoPage
          /\ wire = << >> /\ NoSync(managerQueue) /\ reply = NoReply /\ mainQueue' = << >>
      BY <2>1, <2>2, <1>OpenerState
    <2>4. /\ created \subseteq Pages /\ pages \subseteq created /\ managerQueue \in Seq(Messages)
          /\ byConnection \subseteq created /\ Len(managerQueue) \in Nat
          /\ pages \cap closing = {}
      BY SMTT(30) DEF IInv, SInv, OpenPages, Areas
    <2>5. PICK f : AllTraced(f)
      BY DEF SInv, Traced
    <2>6. ASSUME n \in pages, NEW c \in Pages \ created
          PROVE  /\ n \in Pages /\ n # c
                 /\ n \in f[Len(managerQueue)].spaces
                 /\ f[Len(managerQueue)].items[n] = view[n]
                 /\ c \notin f[Len(managerQueue)].listeners
                 /\ f[Len(managerQueue)].items[c] = Empty
      <3>1. PICK g : /\ Trace(g, wire) /\ Alike(n, g[0], f[Len(managerQueue)])
                     /\ HasItsOwn(n, g[Len(wire)], mapped, view)
        BY <2>3, <2>5, <2>6 DEF AllTraced
      <3>2. Len(wire) = 0
        BY <2>3
      <3>3. n \in f[Len(managerQueue)].spaces /\ f[Len(managerQueue)].items[n] = view[n]
        BY <3>1, <3>2 DEF Alike, HasItsOwn
      <3>4. \A i \in 1 .. Len(managerQueue) : ~Touches(managerQueue[i], c)
        BY <2>4, <2>6, PagesAssumption DEF SInv, OpenPages, KnownIn, Touches
      <3>5. Alike(c, f[Len(managerQueue)], f[0])
        BY <2>4, <2>5, <2>6, <3>4, UntouchedTrace DEF AllTraced
      <3>6. f[0] = Now /\ c \notin Now.listeners /\ Now.items[c] = Empty
        BY <2>4, <2>5, <2>6 DEF AllTraced, Now, Contents, Empty, SInv, Areas
      <3> QED
        BY <2>4, <2>6, <3>3, <3>5, <3>6 DEF Alike
    <2>7. CASE n \in pages /\ Opened(n)
      <3>1. PICK c \in Pages : /\ OpenPage(c, <<CreateNamespace(c), CloneNamespace(n, c)>>)
                               /\ pages' = pages \cup {c} /\ UNCHANGED <<closing, orphans>>
        BY <2>7 DEF Opened
      <3>2. /\ c \in Pages \ created /\ created' = created \cup {c} /\ reply' = c
            /\ managerQueue' = managerQueue \o <<CreateNamespace(c), CloneNamespace(n, c)>>
        BY <3>1 DEF OpenPage
      <3>3. /\ n \in Pages /\ n # c /\ n \in f[Len(managerQueue)].spaces
            /\ f[Len(managerQueue)].items[n] = view[n]
            /\ c \notin f[Len(managerQueue)].listeners /\ f[Len(managerQueue)].items[c] = Empty
        BY <2>6, <2>7, <3>2
      <3>4. Trace(f, managerQueue)
        BY <2>5 DEF AllTraced
      <3>5. PICK h : /\ Trace(h, managerQueue \o <<CreateNamespace(c), CloneNamespace(n, c)>>)
                     /\ \A i \in 0 .. Len(managerQueue) : h[i] = f[i]
                     /\ IsNew(c, h[Len(managerQueue) + 2], f[Len(managerQueue)].items[n])
                     /\ \A p \in Pages \ {c} :
                          Alike(p, f[Len(managerQueue)], h[Len(managerQueue) + 2])
        BY <2>4, <3>2, <3>3, <3>4, <1>OpenTrace
      <3>6. /\ Opening(managerQueue, managerQueue', n, c)
            /\ Len(managerQueue') = Len(managerQueue) + 2
        BY <2>4, <3>2, <3>3, <1>OpeningFacts
      <3>7. c \notin orphans' /\ view'[blocked'] = view[n]
        <4>1. orphans \subseteq created
          BY DEF SInv, OpenPages
        <4> QED
          BY <2>2, <2>3, <3>1, <3>2, <4>1 DEF webVars
      <3>8. NewItems(c)' = view[n]
        BY <3>7 DEF NewItems
      <3>9. /\ pages' \subseteq pages \cup {c} /\ pages' \cap closing' = {}
            /\ closing' \cup orphans' \subseteq created'
        <4>1. closing \cup orphans \subseteq created
          BY DEF SInv, OpenPages
        <4> QED
          BY <2>4, <3>1, <3>2, <4>1
      <3>10. Trace(h, managerQueue') /\ IsNew(c, h[Len(managerQueue')], NewItems(c)')
        BY <3>2, <3>3, <3>5, <3>6, <3>8
      <3>11. \A p \in pages' \ {c} : Alike(p, f[Len(managerQueue)], h[Len(managerQueue')])
        BY <2>4, <3>5, <3>6, <3>9
      <3> QED
        BY <2>1, <2>2, <2>5, <2>7, <3>2, <3>5, <3>6, <3>9, <3>10, <3>11, <1>OpenSInv
    <2>8. CASE n \in pages /\ OpenedAndClosed(n)
      <3>1. PICK c \in Pages :
              /\ OpenPage(c, <<CreateNamespace(c), DestroyNamespace(n), CloneNamespace(n, c)>>)
              /\ pages' = (pages \ {n}) \cup {c} /\ orphans' = orphans \cup {c}
              /\ closing' = closing \cup {n}
        BY <2>8 DEF OpenedAndClosed
      <3>2. /\ c \in Pages \ created /\ created' = created \cup {c} /\ reply' = c
            /\ managerQueue' =
                 managerQueue \o <<CreateNamespace(c), DestroyNamespace(n), CloneNamespace(n, c)>>
        BY <3>1 DEF OpenPage
      <3>3. /\ n \in Pages /\ n # c /\ n \in f[Len(managerQueue)].spaces
            /\ f[Len(managerQueue)].items[n] = view[n]
            /\ c \notin f[Len(managerQueue)].listeners /\ f[Len(managerQueue)].items[c] = Empty
        BY <2>6, <2>8, <3>2
      <3>4. Trace(f, managerQueue)
        BY <2>5 DEF AllTraced
      <3>5. PICK h : /\ Trace(h, managerQueue
                                \o <<CreateNamespace(c), DestroyNamespace(n), CloneNamespace(n, c)>>)
                     /\ \A i \in 0 .. Len(managerQueue) : h[i] = f[i]
                     /\ IsNew(c, h[Len(managerQueue) + 3], Empty)
                     /\ \A p \in Pages \ {c, n} :
                          Alike(p, f[Len(managerQueue)], h[Len(managerQueue) + 3])
        BY <2>4, <3>2, <3>3, <3>4, <1>OpenTrace
      <3>6. /\ Opening(managerQueue, managerQueue', n, c)
            /\ Len(managerQueue') = Len(managerQueue) + 3
        BY <2>4, <3>2, <3>3, <1>OpeningFacts
      <3>7. NewItems(c)' = Empty
        BY <3>1 DEF NewItems, Empty
      <3>8. /\ pages' \subseteq pages \cup {c} /\ pages' \cap closing' = {}
            /\ closing' \cup orphans' \subseteq created'
        <4>1. closing \cup orphans \subseteq created
          BY DEF SInv, OpenPages
        <4> QED
          BY <2>4, <2>8, <3>1, <3>2, <3>3, <4>1
      <3>9. Trace(h, managerQueue') /\ IsNew(c, h[Len(managerQueue')], NewItems(c)')
        BY <3>2, <3>5, <3>6, <3>7
      <3>10. \A p \in pages' \ {c} : Alike(p, f[Len(managerQueue)], h[Len(managerQueue')])
        BY <2>4, <3>1, <3>3, <3>5, <3>6
      <3> QED
        BY <2>1, <2>2, <2>5, <2>8, <3>2, <3>5, <3>6, <3>8, <3>9, <3>10, <1>OpenSInv
    <2>9. CASE Refused
      <3>1. /\ reply' = NoPage /\ mainQueue' = << >>
            /\ UNCHANGED <<view, inProcess, mapped, blocked, wire, closing, pages, created, orphans,
                           managerQueue, namespaces, byConnection, mapOf, maps, managerVars>>
        BY <2>2, <2>3, <2>9 DEF Refused, webVars, uiVars, managerVars
      <3>2. Areas' /\ Now' = Now
        BY <3>1, SameNow DEF SInv
      <3>3. OpenPages'
        BY <2>3, <3>1, PagesAssumption, RepliesAssumption DEF SInv, OpenPages, KnownIn
      <3>4. Waiting'
        <4>1. Len(wire') = 0 /\ \A i \in 1 .. Len(wire') : FALSE
          BY <2>3, <3>1, SMTT(30)
        <4>2. NoSync(managerQueue')
          BY <2>3, <3>1
        <4>3. \A i \in 1 .. Len(managerQueue') : ~Sync(managerQueue'[i])
          BY <4>2 DEF NoSync
        <4> QED
          BY <2>3, <3>1, <4>1, <4>2, <4>3 DEF Waiting
      <3>5. Fresh(managerQueue)' /\ Answered'
        BY <3>1, RepliesAssumption DEF SInv, Fresh, Answered
      <3>6. AllTraced(f)'
        <4>1. ~(reply' \in pages')
          BY <2>4, <3>1, PagesAssumption
        <4>2. Trace(f, managerQueue') /\ f[0] = Now'
          BY <2>5, <3>1, <3>2 DEF AllTraced
        <4>3. \A p \in pages' \cap inProcess' :
                \E g : /\ Trace(g, wire') /\ Alike(p, g[0], f[Len(managerQueue')])
                       /\ HasItsOwn(p, g[Len(wire')], mapped', view')
          BY <2>5, <3>1 DEF AllTraced
        <4>4. \A i \in 1 .. Len(managerQueue') : managerQueue'[i].type # "GetValues"
          BY <2>3, <3>1 DEF NoSync, Sync
        <4> QED
          BY <4>1, <4>2, <4>3, <4>4 DEF AllTraced
      <3> QED
        BY <3>2, <3>3, <3>4, <3>5, <3>6 DEF SInv, Traced
    <2> QED
      BY <2>2, <2>7, <2>8, <2>9
  <1> QED
    BY <1>CreateNewPageSInv
-----------------------------------------------------------------------------
(* Copy on write, and the steps of the manager.                            *)

\* A write changes the storage of its page and of no other.
LEMMA WriteContents ==
  ASSUME Counts, MapsTyped, NEW n \in Pages, mapOf[n] # NoPage, NEW map, map.items \in Items,
         Write(n, map)
  PROVE  /\ MapsTyped'
         /\ \A p \in Pages : mapOf'[p] = NoPage <=> mapOf[p] = NoPage
         /\ \A p \in Pages : Contents(p)' = IF p = n THEN map.items ELSE Contents(p)
  <1>1. PICK to : to = IF References(mapOf[n]) > 1 THEN Unused ELSE mapOf[n]
    OBVIOUS
  <1>2. maps' = [maps EXCEPT ![to] = map] /\ mapOf' = [mapOf EXCEPT ![n] = to]
    BY <1>1 DEF Write
  <1>3. to \in Pages /\ \A p \in Pages : p # n => mapOf[p] # to
    <2>1. CASE References(mapOf[n]) > 1
      BY <1>1, <2>1 DEF Counts
    <2>2. CASE ~(References(mapOf[n]) > 1)
      BY <1>1, <2>2 DEF Counts, MapsTyped
    <2> QED
      BY <2>1, <2>2
  <1>4. MapsTyped'
    BY <1>2, <1>3 DEF MapsTyped
  <1>5. \A p \in Pages : mapOf'[p] = IF p = n THEN to ELSE mapOf[p]
    BY <1>2 DEF MapsTyped
  <1>6. \A a \in Pages : maps'[a] = IF a = to THEN map ELSE maps[a]
    BY <1>2 DEF MapsTyped
  <1> QED
    BY <1>3, <1>4, <1>5, <1>6, PagesAssumption, SMTT(30) DEF MapsTyped, Contents

\* So does the creation of an area.
LEMMA NewAreaContents ==
  ASSUME Counts, MapsTyped, NEW n \in Pages, mapOf[n] = NoPage,
         mapOf' = [mapOf EXCEPT ![n] = Unused], maps' = [maps EXCEPT ![Unused] = Create]
  PROVE  /\ MapsTyped'
         /\ \A p \in Pages : mapOf'[p] = NoPage <=> mapOf[p] = NoPage /\ p # n
         /\ \A p \in Pages : Contents(p)' = Contents(p)
  <1>1. PICK to : to = Unused
    OBVIOUS
  <1>2. to \in Pages /\ \A p \in Pages : mapOf[p] # to
    BY <1>1 DEF Counts
  <1>3. Create.items \in Items
    BY DEF Create, Items
  <1>4. MapsTyped'
    BY <1>1, <1>2, <1>3 DEF MapsTyped
  <1>5. \A p \in Pages : mapOf'[p] = IF p = n THEN to ELSE mapOf[p]
    BY <1>1 DEF MapsTyped
  <1>6. \A a \in Pages : maps'[a] = IF a = to THEN Create ELSE maps[a]
    BY <1>1 DEF MapsTyped
  <1> QED
    BY <1>2, <1>4, <1>5, <1>6, PagesAssumption DEF MapsTyped, Contents

LEMMA ChangeAreaDone ==
  ASSUME Counts, IInv, Areas, NEW m \in Messages, NEW map, map.items \in Items,
         m.type \in {"SetItem", "RemoveItem", "Clear"},
         m.page \in byConnection => map.items = OwnItemsAfter(Now, m),
         ChangeArea(m.type, m, map), UNCHANGED created
  PROVE  DoneBy(m)
  <1>1. /\ UNCHANGED <<namespaces, byConnection>> /\ m.page \in Pages
        /\ IF m.page \in byConnection THEN Write(m.page, map) ELSE UNCHANGED <<mapOf, maps>>
    BY DEF ChangeArea, Messages
  <1>2. SpacesAfter(Now, m) = namespaces /\ ListenersAfter(Now, m) = byConnection
    BY NowFacts DEF SpacesAfter, ListenersAfter
  <1>3. CASE m.page \in byConnection
    <2>1. /\ MapsTyped'
          /\ \A p \in Pages : mapOf'[p] = NoPage <=> mapOf[p] = NoPage
          /\ \A p \in Pages : Contents(p)' = IF p = m.page THEN map.items ELSE Contents(p)
      BY <1>1, <1>3, WriteContents DEF Areas
    <2>2. \A p \in Pages : Contents(p)' = ItemsAfter(Now, m)[p]
      BY <1>3, <2>1, OwnItems
    <2>3. Areas'
      BY <1>1, <2>1 DEF Areas, IInv
    <2> QED
      BY <1>1, <1>2, <2>1, <2>2, <2>3 DEF DoneBy
  <1>4. CASE m.page \notin byConnection
    <2>1. OwnItemsAfter(Now, m) = Contents(m.page)
      BY <1>1, <1>4, NowFacts DEF OwnItemsAfter
    <2>2. \A p \in Pages : Contents(p)' = Contents(p)
      BY <1>1, <1>4 DEF Contents
    <2>3. \A p \in Pages : Contents(p)' = ItemsAfter(Now, m)[p]
      BY <2>1, <2>2, OwnItems
    <2>4. Areas'
      BY <1>1, <1>4 DEF Areas, MapsTyped
    <2> QED
      BY <1>1, <1>2, <1>4, <2>3, <2>4 DEF DoneBy
  <1> QED
    BY <1>3, <1>4

LEMMA ManagerDone ==
  ASSUME Counts, IInv, Areas, Fresh(managerQueue), KnownIn(managerQueue), Manager
  PROVE  DoneBy(Head(managerQueue))
  <1>1. SUFFICES ASSUME NEW m, m = Head(managerQueue) PROVE DoneBy(m)
    OBVIOUS
  <1>2. /\ managerQueue # << >> /\ m = managerQueue[1] /\ 1 \in 1 .. Len(managerQueue)
        /\ m \in Messages
    BY <1>1, QueueTypes, SMTT(30) DEF Manager, IInv
  <1>3. /\ m.page \in created /\ m.to \in created \cup {NoPage} /\ created \subseteq Pages
        /\ m.page \in Pages
    BY <1>2 DEF KnownIn, IInv
  <1>4. UNCHANGED created
    BY DEF Manager, CreateSessionStorageNamespace, DestroySessionStorageNamespace,
           CloneSessionStorageNamespace, CreateSessionStorageMap, DestroyStorageMap,
           ManagerSetItem, ManagerRemoveItem, ManagerClear, ChangeArea, GetValues, Handle,
           uiVars
  <1>5. Empty \in Items /\ \A p \in Pages : mapOf[p] = NoPage => Contents(p) = Empty
    BY DEF Empty, Create, Items, Contents
  <1>6. CASE CreateSessionStorageNamespace(m)
    <2>1. /\ m.type = "CreateNamespace" /\ namespaces' = namespaces \cup {m.page}
          /\ UNCHANGED <<byConnection, mapOf, maps>>
      BY <1>6 DEF CreateSessionStorageNamespace, Handle
    <2>2. OwnItemsAfter(Now, m) = Contents(m.page)
      BY <1>3, <2>1, NowFacts DEF OwnItemsAfter
    <2>3. \A p \in Pages : Contents(p)' = Contents(p)
      BY <2>1 DEF Contents
    <2>4. \A p \in Pages : Contents(p)' = ItemsAfter(Now, m)[p]
      BY <1>2, <2>1, <2>2, <2>3, OwnItems
    <2>5. namespaces' = SpacesAfter(Now, m) /\ byConnection' = ListenersAfter(Now, m)
      BY <2>1, NowFacts DEF SpacesAfter, ListenersAfter
    <2>6. Areas'
      BY <1>3, <1>4, <2>1 DEF Areas, MapsTyped
    <2> QED
      BY <2>1, <2>4, <2>5, <2>6 DEF DoneBy
  <1>7. CASE DestroySessionStorageNamespace(m)
    <2>1. /\ m.type = "DestroyNamespace" /\ namespaces' = namespaces \ {m.page}
          /\ mapOf' = IF m.page \in byConnection THEN mapOf ELSE [mapOf EXCEPT ![m.page] = NoPage]
          /\ UNCHANGED <<byConnection, maps>>
      BY <1>7 DEF DestroySessionStorageNamespace, Handle, Unkept
    <2>2. OwnItemsAfter(Now, m) = IF m.page \in byConnection THEN Contents(m.page) ELSE Empty
      BY <1>3, <2>1, NowFacts DEF OwnItemsAfter
    <2>3. /\ \A p \in Pages : mapOf'[p] = IF p = m.page /\ p \notin byConnection THEN NoPage
                                          ELSE mapOf[p]
          /\ MapsTyped'
      BY <1>3, <2>1 DEF Areas, MapsTyped
    <2>4. \A p \in Pages : Contents(p)' = ItemsAfter(Now, m)[p]
      BY <1>2, <2>1, <2>2, <2>3, OwnItems, SMTT(60) DEF Contents, Empty
    <2>5. namespaces' = SpacesAfter(Now, m) /\ byConnection' = ListenersAfter(Now, m)
      BY <2>1, NowFacts DEF SpacesAfter, ListenersAfter
    <2>6. Areas'
      BY <1>3, <1>4, <2>1, <2>3 DEF Areas
    <2> QED
      BY <2>3, <2>4, <2>5, <2>6 DEF DoneBy
  <1>8. CASE CloneSessionStorageNamespace(m)
    <2>1. /\ m.type = "CloneNamespace" /\ UNCHANGED <<namespaces, byConnection, maps>>
          /\ mapOf' = IF HasArea(m.page) /\ mapOf[m.to] = NoPage
                      THEN [mapOf EXCEPT ![m.to] = mapOf[m.page]] ELSE mapOf
      BY <1>8 DEF CloneSessionStorageNamespace, Handle
    <2>2. m.to \in Pages /\ mapOf[m.to] = NoPage /\ m.to \in created
      BY <1>2, <1>3, <2>1, PagesAssumption DEF Fresh
    <2>3. /\ \A p \in Pages : mapOf'[p] = IF p = m.to /\ HasArea(m.page) THEN mapOf[m.page]
                                          ELSE mapOf[p]
          /\ MapsTyped'
      BY <1>3, <2>1, <2>2 DEF Areas, MapsTyped
    <2>4. \A p \in Pages :
            ItemsAfter(Now, m)[p] = IF p = m.to /\ m.page \in namespaces THEN Contents(m.page)
                                    ELSE Contents(p)
      BY <1>3, <2>1, <2>2, NowFacts DEF ItemsAfter
    <2>5. \A p \in Pages : Contents(p)' = ItemsAfter(Now, m)[p]
      BY <1>3, <1>5, <2>1, <2>2, <2>3, <2>4, SMTT(30) DEF Contents, HasArea
    <2>6. namespaces' = SpacesAfter(Now, m) /\ byConnection' = ListenersAfter(Now, m)
      BY <2>1, NowFacts DEF SpacesAfter, ListenersAfter
    <2>7. Areas'
      BY <1>3, <1>4, <2>1, <2>2, <2>3, SMTT(30) DEF Areas, HasArea
    <2> QED
      BY <2>1, <2>3, <2>5, <2>6, <2>7 DEF DoneBy
  <1>9. CASE CreateSessionStorageMap(m)
    <2>1. m.type = "CreateSessionStorageMap" /\ UNCHANGED namespaces
      BY <1>9 DEF CreateSessionStorageMap, Handle
    <2>2. OwnItemsAfter(Now, m) = Contents(m.page)
      BY <1>3, <2>1, NowFacts DEF OwnItemsAfter
    <2>3. \/ m.page \notin namespaces /\ UNCHANGED <<byConnection, mapOf, maps>>
          \/ /\ m.page \in namespaces /\ byConnection' = byConnection \cup {m.page}
             /\ mapOf[m.page] # NoPage /\ UNCHANGED <<mapOf, maps>>
          \/ /\ m.page \in namespaces /\ byConnection' = byConnection \cup {m.page}
             /\ mapOf[m.page] = NoPage
             /\ mapOf' = [mapOf EXCEPT ![m.page] = Unused]
             /\ maps' = [maps EXCEPT ![Unused] = Create]
      BY <1>9 DEF CreateSessionStorageMap, HasArea
    <2>4. /\ MapsTyped'
          /\ \A p \in Pages : mapOf[p] # NoPage => mapOf'[p] # NoPage
          /\ \A p \in Pages : p # m.page /\ mapOf[p] = NoPage => mapOf'[p] = NoPage
          /\ m.page \in namespaces => mapOf'[m.page] # NoPage
          /\ \A p \in Pages : Contents(p)' = Contents(p)
      <3>1. CASE UNCHANGED <<mapOf, maps>>
        <4>1. MapsTyped' /\ \A p \in Pages : Contents(p)' = Contents(p)
          BY <3>1 DEF Areas, MapsTyped, Contents
        <4>2. m.page \in namespaces => mapOf'[m.page] # NoPage
          BY <1>3, <2>3, <3>1, PagesAssumption
          DEF Counts, Areas, MapsTyped
        <4> QED
          BY <3>1, <4>1, <4>2
      <3>2. CASE /\ mapOf[m.page] = NoPage
                 /\ mapOf' = [mapOf EXCEPT ![m.page] = Unused]
                 /\ maps' = [maps EXCEPT ![Unused] = Create]
        BY <1>3, <3>2, NewAreaContents DEF Areas
      <3> QED
        BY <2>3, <3>1, <3>2
    <2>5. \A p \in Pages : Contents(p)' = ItemsAfter(Now, m)[p]
      BY <1>2, <2>1, <2>2, <2>4, OwnItems, SMTT(30)
    <2>6. namespaces' = SpacesAfter(Now, m) /\ byConnection' = ListenersAfter(Now, m)
      BY <2>1, <2>3, NowFacts DEF SpacesAfter, ListenersAfter
    <2>7. Areas'
      BY <1>3, <1>4, <2>1, <2>3, <2>4 DEF Areas
    <2> QED
      BY <2>1, <2>4, <2>5, <2>6, <2>7 DEF DoneBy, Is
  <1>10. CASE DestroyStorageMap(m)
    <2>1. /\ m.type = "DestroyStorageMap" /\ byConnection' = byConnection \ {m.page}
          /\ mapOf' = IF m.page \in namespaces THEN mapOf ELSE [mapOf EXCEPT ![m.page] = NoPage]
          /\ UNCHANGED <<namespaces, maps>>
      BY <1>10 DEF DestroyStorageMap, Handle, Unkept
    <2>2. OwnItemsAfter(Now, m) = IF m.page \in namespaces THEN Contents(m.page) ELSE Empty
      BY <1>3, <2>1, NowFacts DEF OwnItemsAfter
    <2>3. /\ \A p \in Pages : mapOf'[p] = IF p = m.page /\ p \notin namespaces THEN NoPage
                                          ELSE mapOf[p]
          /\ MapsTyped'
      BY <1>3, <2>1 DEF Areas, MapsTyped
    <2>4. \A p \in Pages : Contents(p)' = ItemsAfter(Now, m)[p]
      BY <1>2, <2>1, <2>2, <2>3, OwnItems, SMTT(30) DEF Contents, Empty
    <2>5. namespaces' = SpacesAfter(Now, m) /\ byConnection' = ListenersAfter(Now, m)
      BY <2>1, NowFacts DEF SpacesAfter, ListenersAfter
    <2>6. Areas'
      BY <1>3, <1>4, <2>1, <2>3 DEF Areas
    <2> QED
      BY <2>3, <2>4, <2>5, <2>6 DEF DoneBy
  <1>11. m.page \in byConnection =>
           /\ mapOf[m.page] \in Pages /\ maps[mapOf[m.page]].items \in Items
           /\ Contents(m.page) = maps[mapOf[m.page]].items
    BY <1>3 DEF Areas, MapsTyped, Contents
  <1>12. ASSUME NEW map, m.type \in {"SetItem", "RemoveItem"}, ChangeArea(m.type, m, map),
                m.page \in byConnection => map.items \in Items /\ map.items = OwnItemsAfter(Now, m)
         PROVE  DoneBy(m)
    <2>1. CASE m.page \in byConnection
      BY <1>2, <1>4, <1>12, <2>1, ChangeAreaDone
    <2>2. CASE m.page \notin byConnection
      <3>1. ChangeArea(m.type, m, Create) /\ Create.items \in Items
        BY <1>5, <1>12, <2>2 DEF ChangeArea, Empty
      <3> QED
        BY <1>2, <1>4, <1>12, <2>2, <3>1, ChangeAreaDone
    <2> QED
      BY <2>1, <2>2
  <1>13. CASE ManagerSetItem(m)
    <2>1. PICK map : map = SetItem(maps[mapOf[m.page]], m.key, m.value, noQuota)
      OBVIOUS
    <2>2. m.type = "SetItem" /\ ChangeArea(m.type, m, map)
      BY <1>13, <2>1 DEF ManagerSetItem, ChangeArea, Handle
    <2>3. map.items = [maps[mapOf[m.page]].items EXCEPT ![m.key] = m.value]
      BY <2>1 DEF SetItem, QuotaException
    <2>4. ASSUME m.page \in byConnection
          PROVE  map.items \in Items /\ map.items = OwnItemsAfter(Now, m)
      <3>1. map.items = OwnItemsAfter(Now, m)
        BY <1>3, <1>11, <2>2, <2>3, <2>4, NowFacts DEF OwnItemsAfter
      <3>2. map.items \in Items
        BY <1>2, <1>11, <2>3, <2>4 DEF Items, Messages
      <3> QED
        BY <3>1, <3>2
    <2> QED
      BY <1>12, <2>2, <2>4, SMTT(30)
  <1>14. CASE ManagerRemoveItem(m)
    <2>1. PICK map : map = RemoveItem(maps[mapOf[m.page]], m.key)
      OBVIOUS
    <2>2. m.type = "RemoveItem" /\ ChangeArea(m.type, m, map)
      BY <1>14, <2>1 DEF ManagerRemoveItem, ChangeArea, Handle
    <2>3. map.items = [maps[mapOf[m.page]].items EXCEPT ![m.key] = Absent]
      BY <2>1 DEF RemoveItem
    <2>4. ASSUME m.page \in byConnection
          PROVE  map.items \in Items /\ map.items = OwnItemsAfter(Now, m)
      <3>1. map.items = OwnItemsAfter(Now, m)
        BY <1>3, <1>11, <2>2, <2>3, <2>4, NowFacts DEF OwnItemsAfter
      <3>2. map.items \in Items
        BY <1>2, <1>11, <2>3, <2>4 DEF Items, Messages
      <3> QED
        BY <3>1, <3>2
    <2> QED
      BY <1>12, <2>2, <2>4, SMTT(30)
  <1>15. CASE ManagerClear(m)
    <2>1. CASE m.page \in byConnection /\ Size(maps[mapOf[m.page]]) = 0
      <3>1. m.type = "Clear" /\ UNCHANGED <<namespaces, byConnection, mapOf, maps>>
        BY <1>15, <2>1 DEF ManagerClear, Handle, managerVars
      <3>2. OwnItemsAfter(Now, m) = Contents(m.page)
        BY <1>3, <1>11, <2>1, <3>1, NowFacts DEF Counts, OwnItemsAfter
      <3>3. \A p \in Pages : Contents(p)' = Contents(p)
        BY <3>1 DEF Contents
      <3>4. \A p \in Pages : Contents(p)' = ItemsAfter(Now, m)[p]
        BY <1>2, <3>1, <3>2, <3>3, OwnItems
      <3>5. namespaces' = SpacesAfter(Now, m) /\ byConnection' = ListenersAfter(Now, m)
        BY <3>1, NowFacts DEF SpacesAfter, ListenersAfter
      <3>6. Areas'
        BY <1>4, <3>1 DEF Areas, MapsTyped
      <3> QED
        BY <3>1, <3>4, <3>5, <3>6 DEF DoneBy
    <2>2. CASE ~(m.page \in byConnection /\ Size(maps[mapOf[m.page]]) = 0)
      <3>1. m.type = "Clear" /\ ChangeArea(m.type, m, Create)
        BY <1>15, <2>2 DEF ManagerClear, ChangeArea, Handle
      <3>2. m.page \in byConnection => Create.items = OwnItemsAfter(Now, m)
        BY <3>1, NowFacts DEF OwnItemsAfter, Empty
      <3> QED
        BY <1>2, <1>4, <1>5, <3>1, <3>2, ChangeAreaDone DEF Empty
    <2> QED
      BY <2>1, <2>2
  <1>16. CASE GetValues(m)
    <2>1. m.type = "GetValues" /\ UNCHANGED <<namespaces, byConnection, mapOf, maps>>
      BY <1>16 DEF GetValues, Handle, managerVars
    <2>2. OwnItemsAfter(Now, m) = Contents(m.page)
      BY <1>3, <2>1, NowFacts DEF OwnItemsAfter
    <2>3. \A p \in Pages : Contents(p)' = Contents(p)
      BY <2>1 DEF Contents
    <2>4. \A p \in Pages : Contents(p)' = ItemsAfter(Now, m)[p]
      BY <1>2, <2>1, <2>2, <2>3, OwnItems
    <2>5. namespaces' = SpacesAfter(Now, m) /\ byConnection' = ListenersAfter(Now, m)
      BY <2>1, NowFacts DEF SpacesAfter, ListenersAfter
    <2>6. Areas'
      BY <1>4, <2>1 DEF Areas, MapsTyped
    <2> QED
      BY <2>1, <2>4, <2>5, <2>6 DEF DoneBy
  <1> QED
    BY <1>1, <1>6, <1>7, <1>8, <1>9, <1>10, <1>13, <1>14, <1>15, <1>16 DEF Manager

LEMMA NowAfter ==
  ASSUME Counts, IInv, Areas, Fresh(managerQueue), KnownIn(managerQueue), Manager
  PROVE  Now' = After(Now, Head(managerQueue))
  <1>1. PICK m : m = Head(managerQueue)
    OBVIOUS
  <1>2. m \in Messages /\ DoneBy(m)
    BY <1>1, ManagerDone, QueueTypes DEF Manager, IInv
  <1>3. After(Now, m) \in States
    BY <1>2, NowType, AfterType
  <1>4. ItemsAfter(Now, m) \in [Pages -> Items]
    BY <1>3 DEF After, States
  <1>5. ItemsAfter(Now, m) = [p \in Pages |-> Contents(p)']
    BY <1>2, <1>4 DEF DoneBy
  <1> QED
    BY <1>1, <1>2, <1>5 DEF Now, After, DoneBy

LEMMA ManagerSInv == ASSUME Counts, IInv, SInv, Manager PROVE SInv'
  <1>1. PICK m : m = Head(managerQueue)
    OBVIOUS
  <1>2. /\ managerQueue # << >> /\ managerQueue' = Tail(managerQueue)
        /\ UNCHANGED <<view, inProcess, mapped, blocked, wire, closing, pages, created, orphans,
                       mainQueue>>
        /\ \/ m.type # "GetValues" /\ reply' = reply
           \/ m.type = "GetValues"
              /\ reply' = IF m.page \in byConnection THEN maps[mapOf[m.page]].items
                          ELSE Create.items
    BY <1>1, ManagerFrame
  <1>3. /\ created \subseteq Pages /\ pages \subseteq created /\ managerQueue \in Seq(Messages)
        /\ byConnection \subseteq Pages
    BY DEF IInv, SInv, Areas
  <1>4. /\ Len(managerQueue) \in Nat \ {0} /\ Len(managerQueue') = Len(managerQueue) - 1
        /\ \A i \in 1 .. Len(managerQueue') :
             managerQueue'[i] = managerQueue[i + 1] /\ i + 1 \in 1 .. Len(managerQueue)
        /\ m = managerQueue[1] /\ m \in Messages /\ 1 \in 1 .. Len(managerQueue)
    BY <1>1, <1>2, <1>3, Tailed
  <1>5. Areas /\ OpenPages /\ Waiting /\ Fresh(managerQueue) /\ KnownIn(managerQueue)
    BY DEF SInv, OpenPages
  <1>6. DoneBy(m) /\ Areas' /\ Now' = After(Now, m)
    <2>1. DoneBy(m)
      BY <1>1, <1>5, ManagerDone
    <2>2. Now' = After(Now, m)
      BY <1>1, <1>5, NowAfter
    <2> QED
      BY <2>1, <2>2 DEF DoneBy
  <1>7. PICK f : AllTraced(f)
    BY DEF SInv, Traced
  <1>8. PICK h : /\ Trace(h, managerQueue')
                 /\ \A i \in 0 .. Len(managerQueue) - 1 : h[i] = f[i + 1]
    BY <1>2, <1>3, <1>7, TailTrace, SMTT(60) DEF AllTraced
  <1>9. /\ f[1] = After(Now, m) /\ Now \in States
        /\ h[0] = f[1] /\ h[Len(managerQueue')] = f[Len(managerQueue)]
        /\ \A i \in 1 .. Len(managerQueue') : h[i] = f[i + 1]
    <2>1. f[1] = After(f[1 - 1], managerQueue[1]) /\ f[0] = Now
      BY <1>4, <1>7 DEF AllTraced, Trace
    <2>2. /\ 1 - 1 = 0 /\ 0 \in 0 .. Len(managerQueue) - 1 /\ 0 + 1 = 1
          /\ Len(managerQueue) - 1 \in 0 .. Len(managerQueue) - 1
          /\ (Len(managerQueue) - 1) + 1 = Len(managerQueue)
          /\ \A i \in 1 .. Len(managerQueue') : i \in 0 .. Len(managerQueue) - 1
      BY <1>4, SMTT(30)
    <2>3. h[0] = f[0 + 1] /\ h[Len(managerQueue) - 1] = f[(Len(managerQueue) - 1) + 1]
      BY <1>8, <2>2
    <2>4. \A i \in 1 .. Len(managerQueue') : h[i] = f[i + 1]
      BY <1>8, <2>2
    <2>5. Now \in States
      BY <1>5, NowType
    <2> QED
      BY <1>4, <2>1, <2>2, <2>3, <2>4, <2>5
  <1>10. m.type = "GetValues" =>
           /\ m.page = blocked /\ blocked \in mapped /\ blocked # NoPage
           /\ wire = << >> /\ mainQueue = << >> /\ reply = NoReply
           /\ reply' \in Items /\ reply' \notin Pages
           /\ NoSync(managerQueue')
    <2> SUFFICES ASSUME m.type = "GetValues"
                 PROVE  /\ m.page = blocked /\ blocked \in mapped /\ blocked # NoPage
                        /\ wire = << >> /\ mainQueue = << >> /\ reply = NoReply
                        /\ reply' \in Items /\ reply' \notin Pages
                        /\ NoSync(managerQueue')
      OBVIOUS
    <2>1. /\ Sync(managerQueue[1]) /\ m.page = blocked /\ blocked \in mapped
          /\ \A j \in 1 .. Len(managerQueue) : Sync(managerQueue[j]) => 1 = j
          /\ wire = << >> /\ mainQueue = << >> /\ reply = NoReply
      BY <1>4, <1>5 DEF Waiting, Sync
    <2>2. blocked # NoPage
      BY <1>3, <1>5, <2>1, PagesAssumption DEF OpenPages
    <2>3. NoSync(managerQueue')
      BY <1>4, <2>1, SMTT(30) DEF NoSync
    <2>4. Create.items \in Items
      BY DEF Create, Items
    <2>5. m.page \in byConnection => maps[mapOf[m.page]].items \in Items
      BY <1>3, <1>5 DEF Areas, MapsTyped
    <2> QED
      BY <1>2, <2>1, <2>2, <2>3, <2>4, <2>5, RepliesAssumption
  <1>11. OpenPages'
    <2>1. KnownIn(managerQueue)'
      BY <1>2, <1>4, <1>5 DEF KnownIn
    <2>2. KnownIn(wire)' /\ KnownIn(mainQueue)'
      BY <1>2, <1>5 DEF OpenPages, KnownIn
    <2>3. /\ reply' \in Items \cup Pages \cup {NoPage, NoReply}
          /\ reply' \in Pages => reply' = reply
      BY <1>2, <1>5, <1>10 DEF OpenPages
    <2> QED
      BY <1>2, <1>5, <2>1, <2>2, <2>3 DEF OpenPages
  <1>12. NoSync(managerQueue) => NoSync(managerQueue') /\ m.type # "GetValues"
    BY <1>4 DEF NoSync, Sync
  <1>13. Waiting'
    <2>1. blocked' = NoPage \/ blocked' \in inProcess'
      BY <1>2, <1>5 DEF Waiting
    <2>2. \A i \in 1 .. Len(wire') : Sync(wire'[i]) =>
            /\ i = Len(wire') /\ wire'[i].page = blocked'
            /\ wire'[i].type = "GetValues" => blocked' \in mapped'
            /\ NoSync(managerQueue') /\ mainQueue' = << >> /\ reply' = NoReply
      BY <1>2, <1>5, <1>12 DEF Waiting
    <2>3. \A i \in 1 .. Len(managerQueue') : Sync(managerQueue'[i]) =>
            /\ managerQueue'[i].type = "GetValues" /\ managerQueue'[i].page = blocked'
            /\ blocked' \in mapped'
            /\ \A j \in 1 .. Len(managerQueue') : Sync(managerQueue'[j]) => i = j
            /\ wire' = << >> /\ mainQueue' = << >> /\ reply' = NoReply
      <3> SUFFICES ASSUME NEW i \in 1 .. Len(managerQueue'), Sync(managerQueue'[i])
                   PROVE  /\ managerQueue'[i].type = "GetValues"
                          /\ managerQueue'[i].page = blocked' /\ blocked' \in mapped'
                          /\ \A j \in 1 .. Len(managerQueue') : Sync(managerQueue'[j]) => i = j
                          /\ wire' = << >> /\ mainQueue' = << >> /\ reply' = NoReply
        OBVIOUS
      <3>1. managerQueue'[i] = managerQueue[i + 1] /\ i + 1 \in 1 .. Len(managerQueue)
        BY <1>4
      <3>2. /\ managerQueue[i + 1].type = "GetValues" /\ managerQueue[i + 1].page = blocked
            /\ blocked \in mapped
            /\ \A j \in 1 .. Len(managerQueue) : Sync(managerQueue[j]) => i + 1 = j
            /\ wire = << >> /\ mainQueue = << >> /\ reply = NoReply
        BY <1>5, <3>1 DEF Waiting
      <3>3. m.type # "GetValues"
        BY <1>10, <3>1 DEF NoSync
      <3>4. \A j \in 1 .. Len(managerQueue') : Sync(managerQueue'[j]) => i = j
        BY <1>4, <3>2, SMTT(30)
      <3> QED
        BY <1>2, <3>1, <3>2, <3>3, <3>4
    <2>4. mainQueue' # << >> =>
            /\ Len(mainQueue') = 1 /\ mainQueue'[1].page = blocked'
            /\ wire' = << >> /\ NoSync(managerQueue') /\ reply' = NoReply
      BY <1>2, <1>5, <1>12 DEF Waiting
    <2>5. reply' # NoReply =>
            /\ blocked' # NoPage /\ wire' = << >> /\ mainQueue' = << >>
            /\ NoSync(managerQueue')
      BY <1>2, <1>5, <1>10, <1>12 DEF Waiting
    <2> QED
      BY <2>1, <2>2, <2>3, <2>4, <2>5 DEF Waiting
  <1>14. Fresh(managerQueue)'
    <2> SUFFICES ASSUME NEW i \in 1 .. Len(managerQueue'),
                        managerQueue'[i].type = "CloneNamespace"
                 PROVE  LET q == managerQueue'
                        IN  /\ q[i].to \in Pages /\ mapOf'[q[i].to] = NoPage
                            /\ q[i].to \notin byConnection'
                            /\ \A j \in 1 .. i - 1 :
                                 /\ ~Is(q[j], "CreateSessionStorageMap", q[i].to)
                                 /\ ~(q[j].type = "CloneNamespace" /\ q[j].to = q[i].to)
      BY DEF Fresh
    <2>1. PICK c : c = managerQueue'[i].to
      OBVIOUS
    <2>2. managerQueue'[i] = managerQueue[i + 1] /\ i + 1 \in 1 .. Len(managerQueue)
      BY <1>4
    <2>3. /\ c \in Pages /\ mapOf[c] = NoPage /\ c \notin byConnection
          /\ \A j \in 1 .. (i + 1) - 1 :
               /\ ~Is(managerQueue[j], "CreateSessionStorageMap", c)
               /\ ~(managerQueue[j].type = "CloneNamespace" /\ managerQueue[j].to = c)
      BY <1>5, <2>1, <2>2 DEF Fresh
    <2>4. 1 \in 1 .. (i + 1) - 1 /\ \A j \in 1 .. i - 1 : j + 1 \in 1 .. (i + 1) - 1
      BY SMTT(30)
    <2>5. /\ ~Is(m, "CreateSessionStorageMap", c)
          /\ ~(m.type = "CloneNamespace" /\ m.to = c)
      BY <1>4, <2>3, <2>4
    <2>6. mapOf'[c] = NoPage
      BY <1>6, <2>3, <2>5 DEF DoneBy
    <2>7. byConnection' = ListenersAfter(Now, m) /\ Now.listeners = byConnection
      BY <1>6, NowFacts DEF DoneBy
    <2>8. c \notin byConnection'
      BY <2>3, <2>5, <2>7 DEF ListenersAfter, Is
    <2>9. \A j \in 1 .. i - 1 : managerQueue'[j] = managerQueue[j + 1]
      BY <1>4, SMTT(30)
    <2> QED
      BY <2>1, <2>3, <2>4, <2>6, <2>8, <2>9
  <1>15. Answered'
    <2>1. CASE m.type # "GetValues"
      BY <1>2, <2>1 DEF SInv, Answered
    <2>2. CASE m.type = "GetValues"
      <3> SUFFICES ASSUME blocked \in pages PROVE reply' = view[blocked]
        BY <1>2 DEF Answered
      <3>1. m.page = blocked /\ blocked \in mapped /\ blocked \in Pages
        BY <1>3, <1>10, <2>2
      <3>2. HasItsOwn(blocked, f[1], mapped, view)
        BY <1>4, <1>7, <2>2, <3>1 DEF AllTraced
      <3>3. Alike(blocked, f[1], Now)
        BY <1>4, <1>9, <2>2, <3>1, SyncAfter DEF Sync
      <3>4. HasItsOwn(blocked, Now, mapped, view)
        BY <3>2, <3>3, AlikeHas
      <3>5. blocked \in byConnection /\ Contents(blocked) = view[blocked]
        BY <3>1, <3>4, NowFacts DEF HasItsOwn
      <3>6. Contents(blocked) = maps[mapOf[blocked]].items
        BY <1>5, <3>5 DEF Contents, Areas
      <3> QED
        BY <1>2, <2>2, <3>1, <3>5, <3>6
    <2> QED
      BY <2>1, <2>2
  <1>16. AllTraced(h)'
    <2>1. Trace(h, managerQueue') /\ h[0] = Now'
      BY <1>6, <1>8, <1>9
    <2>2. \A p \in pages' \cap inProcess' :
            \E g : /\ Trace(g, wire') /\ Alike(p, g[0], h[Len(managerQueue')])
                   /\ HasItsOwn(p, g[Len(wire')], mapped', view')
      BY <1>2, <1>7, <1>9 DEF AllTraced
    <2>3. reply' \in pages' => IsNew(reply', h[Len(managerQueue')], NewItems(reply)')
      <3> SUFFICES ASSUME reply' \in pages
                   PROVE  IsNew(reply', h[Len(managerQueue')], NewItems(reply)')
        BY <1>2
      <3>1. reply' = reply
        BY <1>2, <1>3, <1>10
      <3>2. IsNew(reply, f[Len(managerQueue)], NewItems(reply))
        BY <1>7, <3>1 DEF AllTraced
      <3>3. NewItems(reply)' = NewItems(reply)
        BY <1>2, <3>1 DEF NewItems
      <3> QED
        BY <1>9, <3>1, <3>2, <3>3
    <2>4. \A i \in 1 .. Len(managerQueue') :
            managerQueue'[i].type = "GetValues" /\ managerQueue'[i].page \in pages'
              => HasItsOwn(managerQueue'[i].page, h[i], mapped', view')
      <3> SUFFICES ASSUME NEW i \in 1 .. Len(managerQueue'),
                          managerQueue'[i].type = "GetValues", managerQueue'[i].page \in pages
                   PROVE  HasItsOwn(managerQueue'[i].page, h[i], mapped, view)
        BY <1>2
      <3>1. managerQueue'[i] = managerQueue[i + 1] /\ i + 1 \in 1 .. Len(managerQueue)
        BY <1>4
      <3>2. HasItsOwn(managerQueue[i + 1].page, f[i + 1], mapped, view)
        BY <1>7, <3>1 DEF AllTraced
      <3> QED
        BY <1>9, <3>1, <3>2
    <2> QED
      BY <2>1, <2>2, <2>3, <2>4 DEF AllTraced
  <1> QED
    BY <1>6, <1>11, <1>13, <1>14, <1>15, <1>16 DEF SInv, Traced

LEMMA NextSInv == Counts /\ LeastNumbers /\ IInv /\ SInv /\ [Next]_vars => SInv'
  <1> SUFFICES ASSUME Counts, LeastNumbers, IInv, SInv, [Next]_vars PROVE SInv'
    OBVIOUS
  <1>1. CASE \E n \in Pages : Web(n) \/ Close(n)
    BY <1>1, WebKeeps, CloseSInv
  <1>2. CASE ReceiveReply
    BY <1>2, ReceiveSInv
  <1>3. CASE Deliver
    BY <1>3, DeliverSInv
  <1>4. CASE CreateNewPage
    BY <1>4, CreateNewPageKeeps
  <1>5. CASE Manager
    BY <1>5, ManagerSInv
  <1>6. CASE UNCHANGED vars
    <2>1. UNCHANGED <<view, inProcess, mapped, blocked, reply, wire, closing, pages, created,
                      orphans, mainQueue, managerQueue, namespaces, byConnection, mapOf, maps>>
      BY <1>6 DEF vars, webVars, uiVars, managerVars
    <2>2. Areas' /\ OpenPages' /\ Waiting' /\ Fresh(managerQueue)' /\ Answered'
      BY <2>1 DEF SInv, Areas, MapsTyped, OpenPages, KnownIn, Waiting, NoSync, Fresh, Answered
    <2>3. Now' = Now
      BY <2>1 DEF Now, Contents
    <2>4. PICK f : AllTraced(f)
      BY DEF SInv, Traced
    <2>5. AllTraced(f)'
      BY <2>1, <2>3, <2>4 DEF AllTraced, NewItems
    <2> QED
      BY <2>2, <2>5 DEF SInv, Traced
  <1> QED
    BY <1>1, <1>2, <1>3, <1>4, <1>5, <1>6 DEF Next

LEMMA SInvStorage == LeastNumbers /\ IInv /\ SInv => PagesHaveTheirStorage
  <1> SUFFICES ASSUME LeastNumbers, IInv, SInv PROVE PagesHaveTheirStorage
    OBVIOUS
  <1>1. ASSUME NEW n \in pages \cap inProcess, Settled(n) PROVE Contents(n) = view[n]
    <2>1. /\ n \in Pages /\ wire \in Seq(Messages) /\ managerQueue \in Seq(Messages)
      BY WireType DEF IInv
    <2>2. /\ \A i \in 1 .. Len(wire) : ~Touches(wire[i], n)
          /\ \A i \in 1 .. Len(managerQueue) : ~Touches(managerQueue[i], n)
      BY <1>1, <2>1, SMTT(30) DEF Settled, Touches
    <2>3. PICK f : AllTraced(f)
      BY DEF SInv, Traced
    <2>4. PICK g : /\ Trace(g, wire) /\ Alike(n, g[0], f[Len(managerQueue)])
                   /\ HasItsOwn(n, g[Len(wire)], mapped, view)
      BY <1>1, <2>3 DEF AllTraced
    <2>5. Alike(n, g[Len(wire)], g[0])
      BY <2>1, <2>2, <2>4, UntouchedTrace
    <2>6. Alike(n, f[Len(managerQueue)], f[0]) /\ f[0] = Now
      BY <2>1, <2>2, <2>3, UntouchedTrace DEF AllTraced
    <2>7. Now.items[n] = view[n]
      BY <2>4, <2>5, <2>6 DEF Alike, HasItsOwn
    <2> QED
      BY <2>1, <2>7, NowFacts
  <1> QED
    BY <1>1 DEF PagesHaveTheirStorage, SInv, Answered
-----------------------------------------------------------------------------
(* Counting.                                                               *)

INSTANCE FiniteSetTheorems

LEMMA LeastNumbersHold == LeastNumbers
  <1> SUFFICES ASSUME NEW T \in SUBSET Nat, T # {} PROVE \E x \in T : \A y \in T : ~(y < x)
    BY DEF LeastNumbers
  <1>1. PICK x \in T : \A y \in T : ~(<<y, x>> \in OpToRel(<, Nat))
    BY NatLessThanWellFounded, WFMin
  <1> QED
    BY <1>1 DEF OpToRel

\* Two areas with the same map are two references.
LEMMA SharedReferences ==
  ASSUME NEW n \in Pages, NEW p \in Pages, n # p, mapOf[p] = mapOf[n]
  PROVE  References(mapOf[n]) > 1
  <1> DEFINE S == {x \in Pages : mapOf[x] = mapOf[n]}
  <1>1. IsFiniteSet(S)
    BY FiniteAssumption, FS_Subset
  <1>2. IsFiniteSet({n}) /\ Cardinality({n}) = 1
    BY FS_Singleton
  <1>3. Cardinality({n} \cup {p}) = 2
    BY <1>2, FS_AddElement, SMTT(30)
  <1>4. {n} \cup {p} \in SUBSET S
    OBVIOUS
  <1>5. Cardinality({n} \cup {p}) <= Cardinality(S) /\ Cardinality(S) \in Nat
    BY <1>1, <1>4, FS_Subset, FS_CardinalityType
  <1> QED
    BY <1>3, <1>5, SMTT(30) DEF References

\* Conversely, a map with two references belongs to another page as well.
LEMMA ReferencesShared ==
  ASSUME NEW n \in Pages, References(mapOf[n]) > 1
  PROVE  \E p \in Pages : p # n /\ mapOf[p] = mapOf[n]
  <1> SUFFICES ASSUME \A p \in Pages : mapOf[p] = mapOf[n] => p = n PROVE FALSE
    OBVIOUS
  <1>1. {x \in Pages : mapOf[x] = mapOf[n]} = {n}
    OBVIOUS
  <1>2. References(mapOf[n]) = 1
    BY <1>1, FS_Singleton DEF References
  <1> QED
    BY <1>2, SMTT(30)

\* There are as many addresses as pages: one is free while a page has no
\* map of its own.
LEMMA UnusedIsFree ==
  ASSUME NEW n \in Pages, mapOf[n] = NoPage \/ References(mapOf[n]) > 1
  PROVE  Unused \in Pages /\ \A p \in Pages : mapOf[p] # Unused
  <1>1. \E a \in Pages : References(a) = 0
    <2> SUFFICES ASSUME \A a \in Pages : References(a) # 0 PROVE FALSE
      OBVIOUS
    <2> DEFINE S == Pages \ {n}
    <2>1. \A a \in Pages : \E p \in Pages : mapOf[p] = a
      <3> SUFFICES ASSUME NEW a \in Pages, \A p \in Pages : mapOf[p] # a PROVE FALSE
        OBVIOUS
      <3>1. {p \in Pages : mapOf[p] = a} = {}
        OBVIOUS
      <3>2. References(a) = 0
        BY <3>1, FS_EmptySet DEF References
      <3> QED
        BY <3>2
    <2>2. \A a \in Pages : \E p \in S : mapOf[p] = a
      BY <2>1, PagesAssumption, ReferencesShared
    <2>3. IsFiniteSet(S) /\ Cardinality(S) = Cardinality(Pages) - 1 /\ Cardinality(Pages) \in Nat
      BY FiniteAssumption, FS_RemoveElement, FS_CardinalityType
    <2> DEFINE g == [a \in Pages |-> CHOOSE p \in S : mapOf[p] = a]
    <2>4. \A a \in Pages : g[a] \in S /\ mapOf[g[a]] = a
      BY <2>2
    <2>5. g \in [Pages -> S]
      BY <2>4
    <2> HIDE DEF g, S
    <2>6. \E x, y \in Pages : x # y /\ g[x] = g[y]
      BY <2>3, <2>5, FiniteAssumption, FS_PigeonHole, SMTT(30)
    <2> QED
      BY <2>4, <2>6
  <1>2. Unused \in Pages /\ References(Unused) = 0
    BY <1>1 DEF Unused
  <1>3. IsFiniteSet({p \in Pages : mapOf[p] = Unused})
    BY FiniteAssumption, FS_Subset
  <1>4. {p \in Pages : mapOf[p] = Unused} = {}
    BY <1>2, <1>3, FS_EmptySet DEF References
  <1> QED
    BY <1>2, <1>4

\* A map of size 0 has no items.
LEMMA SizeZero ==
  ASSUME NEW map, map.items \in Items, Size(map) = 0
  PROVE  map.items = Empty
  <1>1. IsFiniteSet({k \in Keys : Contains(map, k)})
    BY FiniteAssumption, FS_Subset
  <1>2. {k \in Keys : Contains(map, k)} = {}
    BY <1>1, FS_EmptySet DEF Size
  <1>3. \A k \in Keys : map.items[k] = Absent
    BY <1>2 DEF Contains
  <1>4. map.items = [k \in Keys |-> Absent]
    BY <1>3 DEF Items
  <1> QED
    BY <1>4 DEF Empty, Create

LEMMA CountsHold == Counts
  BY SharedReferences, UnusedIsFree, SizeZero DEF Counts

\* For any number of pages, keys and values, a page that has no message on
\* its way finds in its storage what it has made of it, a cloned page what
\* its opener had written before window.open, and a page that loads its
\* values is answered with all it has written: cloneTo, the copy on write of
\* StorageMap and getValues lose and leak nothing between pages, whichever of
\* their two ways the messages take first.
THEOREM PagesKeepTheirStorage == Spec => []PagesHaveTheirStorage
  <1>1. Spec => []IInv
    BY InitIInv, NextIInv, PTL DEF Spec
  <1>2. Spec => []SInv
    BY <1>1, InitSInv, NextSInv, CountsHold, LeastNumbersHold, PTL DEF Spec
  <1> QED
    BY <1>1, <1>2, SInvStorage, LeastNumbersHold, PTL
=============================================================================
