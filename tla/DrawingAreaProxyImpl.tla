------------------------- MODULE DrawingAreaProxyImpl -------------------------
(***************************************************************************)
(* The UI process's half of the drawing protocol (DrawingAreaProxyImpl),   *)
(* as operators on a record u.  u.out collects the messages a call sends   *)
(* to the web process.  A call that blocks in waitForMessage leaves        *)
(* u.blocked TRUE; what it still has to do is a frame of the call stack,   *)
(* which DrawingArea keeps.  u.nested is no state of the program: it tells *)
(* whether the current state was entered inside the handler of another.    *)
(***************************************************************************)
EXTENDS Naturals, Sequences

NoStore == [size |-> 0, whole |-> FALSE]

NewDrawingAreaProxy(size, waitsOnFirstPaint) ==
  [current |-> 0, next |-> 0, waiting |-> FALSE, size |-> size,
   received |-> waitsOnFirstPaint, store |-> NoStore, context |-> FALSE,
   discardable |-> TRUE, discardTimer |-> FALSE,
   blocked |-> FALSE, nested |-> FALSE, out |-> << >>]

SendUpdateBackingStoreState(u, respond) ==
  IF u.waiting \/ u.size = 0 THEN u
  ELSE [u EXCEPT !.waiting = respond,
                 !.blocked = respond /\ u.context,
                 !.out = Append(@, [type |-> "UpdateBackingStoreState",
                                    id |-> u.next, respond |-> respond,
                                    size |-> u.size])]

BackingStoreStateDidChange(u, respond) ==
  SendUpdateBackingStoreState([u EXCEPT !.next = @ + 1], respond)

DiscardBackingStoreSoon(u) ==
  [u EXCEPT !.discardTimer = @ \/ u.discardable]

SetBackingStoreIsDiscardable(u, discardable) ==
  IF discardable
  THEN DiscardBackingStoreSoon([u EXCEPT !.discardable = TRUE])
  ELSE [u EXCEPT !.discardable = FALSE, !.discardTimer = FALSE]

DiscardBackingStore(u) ==
  BackingStoreStateDidChange([u EXCEPT !.store = NoStore,
                                       !.discardTimer = FALSE], FALSE)

SetSize(u, size) == BackingStoreStateDidChange([u EXCEPT !.size = size], TRUE)

\* A store is whole once all of the page has been drawn into it.
IncorporateUpdate(u, info) ==
  IF info.area = "none" THEN u
  ELSE [u EXCEPT !.store =
          [size  |-> IF @ = NoStore THEN info.size ELSE @.size,
           whole |-> @.whole \/ info.area = "all"]]

\* An update of an older state is ignored and not acknowledged.
Update(u, m) ==
  IF m.id < u.current THEN u
  ELSE [IncorporateUpdate(u, m.info)
          EXCEPT !.out = Append(@, [type |-> "DidUpdate"])]

EnterMode(u, m) ==
  IF m.id < u.current THEN u
  ELSE [u EXCEPT !.store = NoStore, !.context = TRUE]

ExitMode(u, m) ==
  IF m.id < u.current THEN u
  ELSE IncorporateUpdate([u EXCEPT !.context = FALSE], m.info)

\* didUpdateBackingStoreState up to the return of its call of
\* sendUpdateBackingStoreState ...
DidUpdateBackingStoreState(u, m) ==
  LET x == [u EXCEPT !.current = m.id, !.waiting = FALSE,
                     !.context = m.context,
                     !.store = IF m.context /\ ~u.context THEN NoStore ELSE @]
  IN  IF x.next # x.current THEN SendUpdateBackingStoreState(x, TRUE)
      ELSE [x EXCEPT !.received = TRUE]

\* Mutant: the update is lost with the backing store it did not fit.
ReuseOrDropUpdate(u, info) ==
  IF u.context THEN u
  ELSE IF u.store.size # info.size THEN [u EXCEPT !.store = NoStore]
  ELSE IncorporateUpdate(u, info)

\* ... and from there on, with the update of the message it was called for.
ReuseBackingStore(u, info) ==
  IF u.context THEN u
  ELSE IncorporateUpdate(
         [u EXCEPT !.store = IF @.size # info.size THEN NoStore ELSE @], info)

\* paint up to its wait ...
Paint(u) ==
  IF u.current < u.next
  THEN LET x == SendUpdateBackingStoreState(u, TRUE)
       IN  [x EXCEPT !.blocked = x.received /\ x.waiting]
  ELSE u

\* ... and from there on.
PaintBackingStore(u) ==
  IF u.store = NoStore \/ u.context THEN u ELSE DiscardBackingStoreSoon(u)
=============================================================================
