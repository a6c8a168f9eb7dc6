--------------------------- MODULE DrawingAreaImpl ---------------------------
(***************************************************************************)
(* The web process's half of the drawing protocol (DrawingAreaImpl, with   *)
(* the flags of LayerTreeHostGtk it depends on), as operators on a record  *)
(* w.  Every operator returns the record after a call; w.out collects the  *)
(* messages the call sends to the UI process.                              *)
(*                                                                         *)
(* A region of the page is "none", "part" or "all" of it; a size stands    *)
(* for the view's size with its device scale factor, 0 being empty.        *)
(* `turnsOn' is the outcome of the layout inside display(updateInfo): the  *)
(* page may put itself into accelerated compositing mode there.            *)
(***************************************************************************)
EXTENDS Naturals, Sequences

Areas == {"none", "part", "all"}

NoInfo == [size |-> 0, area |-> "none"]

\* What a layout may do to the root compositing layer.
Layouts == {"same", "attach", "detach"}

NewDrawingArea(size, visible) ==
  [stateID |-> 0, size |-> size, shouldSend |-> FALSE, inUpdate |-> FALSE,
   waiting |-> FALSE, compositing |-> FALSE, frozen |-> FALSE,
   wantsToExit |-> FALSE, exitTimer |-> FALSE, suspended |-> ~visible,
   dirty |-> "none", displayTimer |-> FALSE, root |-> FALSE,
   host |-> FALSE, notify |-> FALSE, flush |-> FALSE, flushEnabled |-> TRUE,
   out |-> << >>]

Send(w, m) == [w EXCEPT !.out = Append(@, m)]

Bounds(w) == IF w.size = 0 THEN "none" ELSE "all"

---------------------------------------------------------------------------
(* LayerTreeHostGtk *)

ScheduleLayerFlush(w) == [w EXCEPT !.flush = @ \/ w.flushEnabled]

SetLayerFlushSchedulingEnabled(w, enabled) ==
  IF w.flushEnabled = enabled THEN w
  ELSE [w EXCEPT !.flushEnabled = enabled, !.flush = enabled]

---------------------------------------------------------------------------
(* Displaying without compositing *)

ScheduleDisplay(w) ==
  [w EXCEPT !.displayTimer =
     @ \/ (~w.waiting /\ ~w.suspended /\ w.dirty # "none")]

\* setNeedsDisplay, setNeedsDisplayInRect and scroll: `area' of the page is
\* to be drawn again.
SetNeedsDisplay(w, area) ==
  IF w.host THEN ScheduleLayerFlush(w)
  ELSE IF w.size = 0 THEN w
  ELSE ScheduleDisplay([w EXCEPT !.dirty = IF area = "all" THEN area
                                           ELSE IF @ = "all" THEN @ ELSE area])

\* Mutant: the display timer keeps running behind the layer tree host.
EnterWithTimer(w) ==
  [w EXCEPT !.exitTimer = FALSE, !.wantsToExit = FALSE, !.host = TRUE,
            !.notify = ~w.inUpdate, !.flush = TRUE, !.flushEnabled = TRUE,
            !.dirty = "none", !.waiting = FALSE, !.root = TRUE]

EnterAcceleratedCompositingMode(w) ==
  [w EXCEPT !.exitTimer = FALSE, !.wantsToExit = FALSE, !.host = TRUE,
            !.notify = ~w.inUpdate, !.flush = TRUE, !.flushEnabled = TRUE,
            !.dirty = "none", !.displayTimer = FALSE, !.waiting = FALSE,
            !.root = TRUE]

\* display(updateInfo): the area drawn is left in w.info.
DisplayInfo(w, turnsOn) ==
  IF turnsOn THEN [w |-> EnterAcceleratedCompositingMode(w), info |-> NoInfo]
  ELSE [w |-> [w EXCEPT !.dirty = "none", !.displayTimer = FALSE],
        info |-> [size |-> w.size, area |-> w.dirty]]

\* Mutant: the layer tree host still notifies after its next flush.
SendDidAndNotify(w, turnsOn) ==
  LET drawn == IF w.suspended \/ w.host
               THEN [w |-> w, info |-> [NoInfo EXCEPT !.size = w.size]]
               ELSE DisplayInfo(w, turnsOn)
      x     == drawn.w
  IN  Send([x EXCEPT !.shouldSend = FALSE, !.compositing = x.host],
           [type |-> "DidUpdateBackingStoreState", id |-> x.stateID,
            info |-> drawn.info, context |-> x.host])

SendDidUpdateBackingStoreState(w, turnsOn) ==
  LET drawn == IF w.suspended \/ w.host
               THEN [w |-> w, info |-> NoInfo]
               ELSE DisplayInfo(w, turnsOn)
      x     == drawn.w
      y     == IF x.host
               THEN ScheduleLayerFlush([x EXCEPT !.notify = FALSE]) ELSE x
      info  == IF x.suspended \/ x.host
               THEN [NoInfo EXCEPT !.size = x.size] ELSE drawn.info
  IN  Send([y EXCEPT !.shouldSend = FALSE, !.compositing = x.host],
           [type |-> "DidUpdateBackingStoreState", id |-> x.stateID,
            info |-> info, context |-> x.host])

\* display() and displayTimerFired().
Display(w, turnsOn) ==
  IF w.suspended \/ w.dirty = "none" THEN w
  ELSE IF w.shouldSend THEN SendDidUpdateBackingStoreState(w, turnsOn)
  ELSE LET drawn == DisplayInfo(w, turnsOn)
       IN  IF drawn.w.host THEN drawn.w
           ELSE Send([drawn.w EXCEPT !.waiting = TRUE],
                     [type |-> "Update", id |-> w.stateID,
                      info |-> drawn.info, context |-> FALSE])

DisplayTimerFired(w, turnsOn) ==
  Display([w EXCEPT !.displayTimer = FALSE], turnsOn)

DidUpdate(w, turnsOn) ==
  IF w.host THEN w ELSE Display([w EXCEPT !.waiting = FALSE], turnsOn)

---------------------------------------------------------------------------
(* Entering and leaving accelerated compositing mode *)

ExitAcceleratedCompositingModeSoon(w) ==
  IF w.frozen THEN [w EXCEPT !.wantsToExit = TRUE]
  ELSE [w EXCEPT !.exitTimer = TRUE]

\* The update carries what display(updateInfo) drew, an empty area when
\* painting is suspended or the layout entered the mode again.
ExitAcceleratedCompositingMode(w, turnsOn) ==
  LET left  == [w EXCEPT !.exitTimer = FALSE, !.wantsToExit = FALSE,
                         !.host = FALSE, !.notify = FALSE, !.flush = FALSE,
                         !.dirty = Bounds(w)]
      drawn == IF w.suspended
               THEN [w |-> left, info |-> [NoInfo EXCEPT !.size = w.size]]
               ELSE DisplayInfo(left, turnsOn)
  IN  IF w.inUpdate THEN left
      ELSE IF w.shouldSend
           THEN SendDidUpdateBackingStoreState(left, turnsOn)
      ELSE Send([drawn.w EXCEPT !.compositing = FALSE],
                [type |-> IF w.compositing
                          THEN "ExitAcceleratedCompositingMode"
                          ELSE "Update",
                 id |-> w.stateID, info |-> drawn.info, context |-> FALSE])

SetRootCompositingLayer(w, attach) ==
  LET changed == ScheduleLayerFlush([w EXCEPT !.root = attach])
  IN  CASE attach /\ ~w.host  -> EnterAcceleratedCompositingMode(w)
        [] attach /\ w.host   -> [changed EXCEPT !.exitTimer = FALSE,
                                                 !.wantsToExit = FALSE,
                                                 !.notify = @ \/ ~w.compositing]
        [] ~attach /\ ~w.host -> [w EXCEPT !.root = FALSE]
        [] ~attach /\ w.host  ->
             IF w.inUpdate
             THEN ExitAcceleratedCompositingMode(changed, FALSE)
             ELSE ExitAcceleratedCompositingModeSoon(changed)

Layout(w, layout) ==
  CASE layout = "attach" -> SetRootCompositingLayer(w, TRUE)
    [] layout = "detach" /\ w.root -> SetRootCompositingLayer(w, FALSE)
    [] OTHER -> w

LayerHostDidFlushLayers(w) ==
  LET x == ScheduleLayerFlush(w)
  IN  IF w.exitTimer THEN x
      ELSE IF w.shouldSend THEN SendDidUpdateBackingStoreState(x, FALSE)
      ELSE Send([x EXCEPT !.compositing = TRUE],
                [type |-> "EnterAcceleratedCompositingMode",
                 id |-> w.stateID, info |-> NoInfo, context |-> TRUE])

\* layerFlushTimerFired and flushAndRenderLayers; `flushed' is FALSE when
\* there is no usable GL context or the layers could not be flushed.
LayerFlushTimerFired(w, flushed) ==
  LET x == [w EXCEPT !.flush = FALSE]
  IN  IF flushed /\ w.notify
      THEN [LayerHostDidFlushLayers(x) EXCEPT !.notify = FALSE] ELSE x

SetLayerTreeStateIsFrozen(w, frozen) ==
  LET x == [w EXCEPT !.frozen = frozen]
      y == IF w.host THEN SetLayerFlushSchedulingEnabled(x, ~frozen) ELSE x
  IN  IF frozen THEN [y EXCEPT !.exitTimer = FALSE]
      ELSE IF w.wantsToExit THEN ExitAcceleratedCompositingModeSoon(y)
      ELSE y

ForceRepaint(w, layout, turnsOn) ==
  LET x == Layout(SetNeedsDisplay(w, "all"), layout)
  IN  CASE x.host /\ x.compositing  -> ScheduleLayerFlush(x)
        [] x.host /\ ~x.compositing ->
             LayerHostDidFlushLayers([x EXCEPT !.notify = FALSE])
        [] ~x.host -> Display([x EXCEPT !.waiting = FALSE], turnsOn)

---------------------------------------------------------------------------
(* A new backing store state *)

ResumePainting(w) ==
  IF w.suspended THEN SetNeedsDisplay([w EXCEPT !.suspended = FALSE], "all")
  ELSE w

\* Mutant: the wait for an update of the older state goes on.
UpdateStateStillWaiting(w, m, layout, turnsOn) ==
  LET resized == Layout([w EXCEPT !.inUpdate = TRUE, !.stateID = m.id,
                                  !.shouldSend = TRUE, !.size = m.size],
                        layout)
      laidOut == IF resized.host THEN resized
                 ELSE [resized EXCEPT !.dirty = Bounds(resized)]
      done    == IF m.respond
                 THEN SendDidUpdateBackingStoreState(ResumePainting(laidOut), turnsOn)
                 ELSE laidOut
  IN  IF m.id = w.stateID THEN w ELSE [done EXCEPT !.inUpdate = FALSE]

\* Mutant: a state that was answered already is answered again.
UpdateStateAgain(w, m, layout, turnsOn) ==
  LET resized == Layout([w EXCEPT !.inUpdate = TRUE, !.stateID = m.id,
                                  !.shouldSend = TRUE, !.size = m.size],
                        layout)
      laidOut == IF resized.host THEN resized
                 ELSE [resized EXCEPT !.dirty = Bounds(resized)]
      ready   == ResumePainting([laidOut EXCEPT !.waiting = FALSE])
      done    == IF m.respond
                 THEN SendDidUpdateBackingStoreState(ready, turnsOn) ELSE ready
  IN  [done EXCEPT !.inUpdate = FALSE]

UpdateBackingStoreState(w, m, layout, turnsOn) ==
  LET isNew   == m.id # w.stateID
      resized == Layout([w EXCEPT !.inUpdate = TRUE, !.stateID = m.id,
                                  !.shouldSend = TRUE, !.size = m.size],
                        layout)
      laidOut == IF ~isNew THEN [w EXCEPT !.inUpdate = TRUE]
                 ELSE IF resized.host THEN resized
                 ELSE [resized EXCEPT !.dirty = Bounds(resized)]
      ready   == [laidOut EXCEPT !.waiting = FALSE]
      done    == IF m.respond
                 THEN SendDidUpdateBackingStoreState(ResumePainting(ready), turnsOn)
                 ELSE ready
  IN  IF ~isNew /\ ~w.shouldSend THEN w
      ELSE [done EXCEPT !.inUpdate = FALSE]
=============================================================================
