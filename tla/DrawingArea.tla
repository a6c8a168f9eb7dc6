----------------------------- MODULE DrawingArea -----------------------------
(***************************************************************************)
(* How a page gets onto the screen.  The web process draws; the UI process *)
(* keeps what it drew in a backing store, numbers the states of that store *)
(* (a new size, a discarded store), and paints from it.  The two processes *)
(* change between painting and accelerated compositing while messages of   *)
(* older states are still on their way.  When it has to paint, the UI      *)
(* process blocks in Connection::waitForMessage, so that one message may   *)
(* overtake the others, and the call it blocks in may be the handler of an *)
(* earlier message.                                                        *)
(***************************************************************************)
EXTENDS DrawingAreaImpl, DrawingAreaProxyImpl

CONSTANTS
  Sizes,        \* the sizes a view may have, 0 the empty one
  MaxStates,    \* bound: the number of backing store states
  MaxChanges,   \* bound: what the page does of its own accord
  WaitRaces     \* a message may arrive while waitForMessage holds no lock

ASSUME DrawingAreaAssumption ==
  /\ Sizes \subseteq Nat
  /\ MaxStates \in Nat /\ MaxChanges \in Nat
  /\ WaitRaces \in BOOLEAN

VARIABLES
  ui,        \* DrawingAreaProxyImpl
  frames,    \* the UI process's calls below the wait, the outermost first
  wait,      \* the stage of waitForMessage
  slot,      \* m_waitingForMessage->decoder, a sequence of at most one
  incoming,  \* Connection::m_incomingMessages of the UI process
  wire,      \* sent by the web process and not yet received
  toWeb,     \* sent by the UI process and not yet handled
  web,       \* DrawingAreaImpl
  changes    \* counted against MaxChanges

uiVars == <<ui, frames, wait>>
webVars == <<web, changes>>
vars == <<ui, frames, wait, slot, incoming, wire, toWeb, web, changes>>

IsDid(m) == m.type = "DidUpdateBackingStoreState"

PaintFrame == [of |-> "paint", info |-> NoInfo]

DidFrame(info) == [of |-> "did", info |-> info]

Init ==
  \E size \in Sizes, visible, relaunched \in BOOLEAN :
    /\ ui = NewDrawingAreaProxy(size, relaunched)
    /\ web = NewDrawingArea(size, visible)
    /\ frames = << >> /\ wait = "no" /\ slot = << >>
    /\ incoming = << >> /\ wire = << >> /\ toWeb = << >>
    /\ changes = 0

---------------------------------------------------------------------------
(* The UI process *)

Idle == frames = << >> /\ wait = "no"

\* What is left of a call once nothing in it waits any more.
Finish(u, frame) ==
  IF frame.of = "paint" THEN PaintBackingStore(u)
  ELSE ReuseBackingStore(u, frame.info)

\* Every one of the calls fs returns, the innermost first.  On their way out
\* they change nothing but the backing store and the timer that discards it.
Return(u, fs) ==
  LET after[i \in 1 .. Len(fs) + 1] ==
        IF i > Len(fs) THEN u ELSE Finish(after[i + 1], fs[i])
  IN  [u EXCEPT !.store = after[1].store, !.discardTimer = after[1].discardTimer]

\* The UI process goes on with record u above the calls fs.  It blocks if u
\* says so; otherwise the calls return.
Continue(u, fs) ==
  LET sent == [u EXCEPT !.out = << >>, !.blocked = FALSE]
  IN  /\ toWeb' = toWeb \o u.out
      /\ IF u.blocked
         THEN /\ ui' = sent /\ frames' = fs /\ wait' = "look"
         ELSE /\ ui' = Return(sent, fs)
              /\ frames' = << >> /\ wait' = "no"

HandleDid(m, fs) ==
  LET u == DidUpdateBackingStoreState(ui, m)
  IN  Continue([u EXCEPT !.nested = \E i \in DOMAIN fs : fs[i].of = "did"],
               Append(fs, DidFrame(m.info)))

PaintView ==
  /\ Idle /\ ~ui.context
  /\ LET u == Paint(ui)
     IN  Continue(u, IF ui.current < ui.next /\ ~ui.received
                     THEN << >> ELSE <<PaintFrame>>)
  /\ UNCHANGED <<slot, incoming, wire, webVars>>

SizeDidChange ==
  /\ Idle /\ ui.next < MaxStates
  /\ \E size \in Sizes \ {ui.size} : Continue(SetSize(ui, size), << >>)
  /\ UNCHANGED <<slot, incoming, wire, webVars>>

DiscardableDidChange ==
  /\ Idle
  /\ Continue(SetBackingStoreIsDiscardable(ui, ~ui.discardable), << >>)
  /\ UNCHANGED <<slot, incoming, wire, webVars>>

DiscardTimerFired ==
  /\ Idle /\ ui.discardTimer /\ ui.next < MaxStates
  /\ Continue(DiscardBackingStore(ui), << >>)
  /\ UNCHANGED <<slot, incoming, wire, webVars>>

DispatchMessage ==
  /\ Idle /\ incoming # << >>
  /\ LET m == Head(incoming)
     IN  CASE m.type = "Update" -> Continue(Update(ui, m), << >>)
           [] m.type = "EnterAcceleratedCompositingMode" ->
                Continue(EnterMode(ui, m), << >>)
           [] m.type = "ExitAcceleratedCompositingMode" ->
                Continue(ExitMode(ui, m), << >>)
           [] IsDid(m) -> HandleDid(m, << >>)
  /\ incoming' = Tail(incoming)
  /\ UNCHANGED <<slot, wire, webVars>>

---------------------------------------------------------------------------
(* Connection::waitForMessage for a DidUpdateBackingStoreState message *)

\* The places of the messages it waits for in the queue.
Dids == {i \in DOMAIN incoming : IsDid(incoming[i])}

FirstDid == IF Dids = {} THEN 0 ELSE CHOOSE i \in Dids : \A j \in Dids : i <= j

\* q without the message at i, which has been taken out of it.
RemoveAt(q, i) == SubSeq(q, 1, i - 1) \o SubSeq(q, i + 1, Len(q))

\* First it looks through the messages that are already there.
LookForMessage ==
  /\ wait = "look"
  /\ IF FirstDid # 0
     THEN /\ HandleDid(incoming[FirstDid], frames)
          /\ incoming' = RemoveAt(incoming, FirstDid)
     ELSE /\ wait' = "found nothing"
          /\ UNCHANGED <<ui, frames, incoming, toWeb>>
  /\ UNCHANGED <<slot, wire, webVars>>

\* Then, under another lock, it says what it is waiting for.
StartWaiting ==
  /\ wait = "found nothing"
  /\ wait' = "waiting"
  /\ UNCHANGED <<ui, frames, slot, incoming, wire, toWeb, webVars>>

WakeUp ==
  /\ wait = "waiting" /\ slot # << >>
  /\ HandleDid(slot[1], frames)
  /\ slot' = << >>
  /\ UNCHANGED <<incoming, wire, webVars>>

\* The wait ends without a look at the slot.
TimeOut ==
  /\ wait = "waiting"
  /\ slot = << >> \/ WaitRaces
  /\ Continue(ui, frames)
  /\ slot' = << >>
  /\ UNCHANGED <<incoming, wire, webVars>>

\* The connection's thread receives a message (processIncomingMessage).
ReceiveMessage ==
  /\ wire # << >>
  /\ wait = "found nothing" => WaitRaces
  /\ IF wait = "waiting" /\ IsDid(Head(wire))
     THEN slot' = <<Head(wire)>> /\ UNCHANGED incoming
     ELSE incoming' = Append(incoming, Head(wire)) /\ UNCHANGED slot
  /\ wire' = Tail(wire)
  /\ UNCHANGED <<uiVars, toWeb, webVars>>

---------------------------------------------------------------------------
(* The web process *)

\* The web process becomes w; what the call sent is on its way.
WebBecomes(w) ==
  /\ web' = [w EXCEPT !.out = << >>]
  /\ wire' = wire \o w.out
  /\ UNCHANGED <<uiVars, slot, incoming>>

HandleMessage ==
  /\ toWeb # << >>
  /\ \E layout \in Layouts, turnsOn \in BOOLEAN :
       WebBecomes(IF Head(toWeb).type = "DidUpdate" THEN DidUpdate(web, turnsOn)
                  ELSE UpdateBackingStoreState(web, Head(toWeb), layout, turnsOn))
  /\ toWeb' = Tail(toWeb)
  /\ UNCHANGED changes

WebTimerFired ==
  /\ \/ /\ web.displayTimer
        /\ \E turnsOn \in BOOLEAN : WebBecomes(DisplayTimerFired(web, turnsOn))
     \/ /\ web.exitTimer
        /\ \E turnsOn \in BOOLEAN :
             WebBecomes(ExitAcceleratedCompositingMode(web, turnsOn))
     \/ /\ web.flush
        /\ \E flushed \in BOOLEAN :
             WebBecomes(LayerFlushTimerFired(web, flushed))
  /\ UNCHANGED <<toWeb, changes>>

PageChanges ==
  /\ changes < MaxChanges
  /\ \/ \E area \in Areas \ {"none"} : WebBecomes(SetNeedsDisplay(web, area))
     \/ WebBecomes(SetRootCompositingLayer(web, TRUE))
     \/ web.root /\ WebBecomes(SetRootCompositingLayer(web, FALSE))
     \/ WebBecomes(SetLayerTreeStateIsFrozen(web, ~web.frozen))
     \/ \E layout \in Layouts, turnsOn \in BOOLEAN :
          WebBecomes(ForceRepaint(web, layout, turnsOn))
  /\ changes' = changes + 1
  /\ UNCHANGED toWeb

UIStep == DispatchMessage \/ LookForMessage \/ StartWaiting \/ WakeUp \/ TimeOut

Next ==
  \/ PaintView \/ SizeDidChange \/ DiscardableDidChange \/ DiscardTimerFired
  \/ UIStep
  \/ ReceiveMessage
  \/ HandleMessage \/ WebTimerFired \/ PageChanges

Spec == Init /\ [][Next]_vars

---------------------------------------------------------------------------
Infos == [size : Sizes \cup {0}, area : Areas]

Messages ==
  [type : {"Update", "EnterAcceleratedCompositingMode",
           "ExitAcceleratedCompositingMode", "DidUpdateBackingStoreState"},
   id : 0 .. MaxStates, info : Infos, context : BOOLEAN]

\* The type invariant; a handler leaves nothing unsent and no
\* m_inUpdateBackingStoreState behind.
TypeOK ==
  /\ ui.current \in 0 .. MaxStates /\ ui.next \in 0 .. MaxStates
  /\ ui.size \in Sizes
  /\ ui.store \in [size : Sizes, whole : BOOLEAN] \cup {NoStore}
  /\ ~ui.blocked /\ ui.out = << >>
  /\ wait \in {"no", "look", "found nothing", "waiting"}
  /\ (wait = "waiting") \/ slot = << >>
  /\ \A i \in DOMAIN wire : wire[i] \in Messages
  /\ \A i \in DOMAIN incoming : incoming[i] \in Messages
  /\ \A i \in DOMAIN frames : frames[i].info \in Infos
  /\ web.out = << >> /\ ~web.inUpdate
  /\ web.size \in Sizes /\ web.stateID \in 0 .. MaxStates
  /\ changes \in 0 .. MaxChanges

\* Every message of the web process the UI process has not handled yet, in
\* the order they were sent.
Unhandled == slot \o incoming \o wire

\* The message that is handled next, if there is one: the first in the queue
\* of an idle UI process, or the one a wait has found.
Due ==
  CASE Idle /\ incoming # << >>            -> {Head(incoming)}
    [] wait = "look" /\ FirstDid # 0        -> {incoming[FirstDid]}
    [] wait = "waiting" /\ slot # << >>     -> {slot[1]}
    [] OTHER                                -> {}

\* The state numbers are as DrawingAreaProxyImpl asserts them to be when a
\* message is handled (DrawingAreaProxyImpl.cpp:133, 145, 146, 184, 193): an
\* answer to a change of state is for a state newer than the current one that
\* was asked for, and everything else is for a state already entered.
HandledInItsState ==
  \A m \in Due : IF IsDid(m) THEN ui.current < m.id /\ m.id <= ui.next
                 ELSE m.id <= ui.current

\* A message of the current state finds the UI process in the mode that
\* DrawingAreaProxyImpl asserts (DrawingAreaProxyImpl.cpp:213, 296, 305):
\* however messages overtake each other, no update is drawn and no mode is
\* entered while compositing, and no mode is left that was not entered.  An
\* update finds a store of the size it was made for (BackingStore.cpp:50).
HandledInItsMode ==
  \A m \in Due : ~IsDid(m) /\ m.id = ui.current =>
    /\ ui.context <=> m.type = "ExitAcceleratedCompositingMode"
    /\ m.info.area # "none" =>
         ui.store = NoStore \/ ui.store.size = m.info.size

\* Neither process waits for the other in vain.  A UI process that has asked
\* for a new state (m_isWaitingForDidUpdateBackingStoreState), and will not
\* ask again before it is answered, has an answer on its way, or the web
\* process has yet to read a request that it will not take for one it has
\* answered already.  A web process that has sent an update
\* (m_isWaitingForDidUpdate), and draws nothing meanwhile, has the update or
\* its acknowledgement on its way, or a new state that ends the wait: the UI
\* process does not acknowledge the updates of older states it ignores.
NobodyWaitsInVain ==
  /\ ui.waiting =>
       \/ \E i \in DOMAIN Unhandled :
            IsDid(Unhandled[i]) /\ ui.current < Unhandled[i].id
       \/ \E i \in DOMAIN toWeb :
            /\ toWeb[i].type = "UpdateBackingStoreState" /\ toWeb[i].respond
            /\ toWeb[i].id > web.stateID \/ web.shouldSend
  /\ web.waiting =>
       \/ \E i \in DOMAIN Unhandled :
            Unhandled[i].type = "Update" /\ Unhandled[i].id = web.stateID
       \/ \E i \in DOMAIN toWeb :
            toWeb[i].type = "DidUpdate" \/ toWeb[i].id > web.stateID

\* The web process's timers run when they have to and find it as display()
\* and exitAcceleratedCompositingMode() assert (DrawingAreaImpl.cpp:487, 492,
\* 564, 565): nothing is drawn behind the layer tree's back or ahead of an
\* acknowledgement, and a dirty page that is not suspended has its display
\* timer running, waits for the UI process, or owes it the first drawing of a
\* new state.
DisplayIsScheduled ==
  /\ web.displayTimer => ~web.host /\ ~web.waiting
  /\ web.exitTimer => web.host /\ ~web.frozen
  /\ web.host => web.dirty = "none"
  /\ web.dirty # "none" /\ ~web.suspended =>
       web.displayTimer \/ web.waiting \/ web.shouldSend

\* Once every message is handled both processes agree on whether the page is
\* composited and on its state (m_layerTreeContext of the UI process against
\* m_compositingAccordingToProxyMessages of the web process).  If the web
\* process has nothing left to draw either, the backing store holds the whole
\* page at the size of the view, so that only "before the web process has
\* painted anything" does paint() find nothing to paint
\* (DrawingAreaProxyImpl.cpp:92).  The exception is a state that was entered
\* inside the handler of an earlier one: the outer handler, when it goes on,
\* throws away a store of another size than the one it was told of
\* (DrawingAreaProxyImpl.cpp:177).
ViewShowsThePage ==
  Idle /\ Unhandled = << >> /\ toWeb = << >> =>
    /\ ui.context = web.compositing
    /\ ui.current = ui.next => web.stateID = ui.current
    /\ /\ 0 < ui.current /\ ui.current = ui.next /\ ~ui.nested
       /\ ~web.host /\ ~web.suspended /\ web.dirty = "none"
       => ui.store = [size |-> web.size, whole |-> TRUE]
=============================================================================
