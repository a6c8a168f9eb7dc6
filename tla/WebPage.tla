------------------------------- MODULE WebPage -------------------------------
(***************************************************************************)
(* The page in the web process, as operators on a record w: the items it   *)
(* knows by ID (WebBackForwardListProxy), and what WebPage makes of the UI *)
(* process's requests.  What WebCore loads is left open: w.loader is the   *)
(* main frame's state, w.load what it loads, w.shown and w.provisional the *)
(* current and the provisional item of its HistoryController.              *)
(* w.out collects the messages a call sends; w.wait is "goTo" or "policy"  *)
(* while the process is blocked in a synchronous one, and w.next what it   *)
(* goes on with.  w.strayed only serves a property: the list was moved     *)
(* under the load of another item, or by one that came to nothing.         *)
(***************************************************************************)
EXTENDS Naturals, Sequences

Nothing == [kind |-> "none", url |-> 0]

NewWebProcess ==
  [known |-> {}, uniqueHistoryItemID |-> 1, created |-> FALSE,
   loader |-> "Finished", load |-> Nothing, shown |-> 0, provisional |-> 0,
   document |-> FALSE, wait |-> "no", next |-> Nothing, handling |-> FALSE,
   strayed |-> FALSE, out |-> << >>]

Report(w, type, id) ==
  [w EXCEPT !.out = Append(@, [type |-> type, id |-> id])]

\* Mutant: the even ID of the UI process's newest item is gone on from.
SetHighestKeepsParity(w, id) ==
  [w EXCEPT !.uniqueHistoryItemID = IF id > @ THEN id ELSE @]

SetHighestItemIDFromUIProcess(w, id) ==
  [w EXCEPT !.uniqueHistoryItemID =
     IF id <= @ THEN @ ELSE IF id % 2 = 1 THEN id ELSE id + 1]

RestoreSession(w, items) == [w EXCEPT !.known = @ \cup items]

CreateWebPage(w, m) ==
  [RestoreSession(SetHighestItemIDFromUIProcess(w, m.highest), m.items)
     EXCEPT !.created = TRUE]

RemoveItem(w, id) == [w EXCEPT !.known = @ \ {id}]

LoadsItem(w) == w.loader = "Provisional" /\ w.load.kind = "item"

\* The page shows a new item.
AddItem(w) ==
  LET id == w.uniqueHistoryItemID + 2
      x  == [w EXCEPT !.uniqueHistoryItemID = id, !.known = @ \cup {id},
                      !.shown = id, !.strayed = LoadsItem(w)]
  IN  Report(Report(x, "AddBackForwardItem", id), "BackForwardAddItem", id)

\* An item that is no longer known has ID 0.
GoToItem(w, id, next) ==
  [Report(w, "BackForwardGoToItem", IF id \in w.known THEN id ELSE 0)
     EXCEPT !.wait = "goTo", !.next = next, !.strayed = LoadsItem(w)]

AskForPolicy(w, load) ==
  [Report(w, "DecidePolicyForNavigationAction", load.url)
     EXCEPT !.wait = "policy", !.next = load]

\* Mutant: the timer is left running.
ReturnWithoutStop(w) ==
  [w EXCEPT !.wait = "no", !.next = Nothing, !.handling = FALSE]

\* The call returns, to the event loop or to a handler that stops the timer.
Return(w) ==
  LET x == [w EXCEPT !.wait = "no", !.next = Nothing, !.handling = FALSE]
  IN  IF w.handling THEN Report(x, "StopResponsivenessTimer", 0) ELSE x

\* The load that is in the way is stopped; the list stays where it is.
StopAllLoaders(w) ==
  CASE w.loader = "Provisional" ->
         [Report(w, "DidFailProvisionalLoad", 0)
            EXCEPT !.strayed = @ \/ LoadsItem(w)]
    [] w.loader = "Committed"   -> Report(w, "DidFailLoad", 0)
    [] OTHER                    -> w

\* A load that fails leaves the list where it is.
FailProvisionalLoad(w) ==
  [StopAllLoaders(w) EXCEPT !.loader = "Finished", !.load = Nothing]

\* A load that is stopped for a client moves the list back.
StopLoading(w) ==
  LET x == [FailProvisionalLoad(w) EXCEPT !.provisional = 0]
  IN  IF LoadsItem(w) /\ w.shown # 0
      THEN GoToItem(x, w.shown, Nothing) ELSE Return(x)

\* loadRequest, stopLoading, reload, goBack, goForward, goToBackForwardItem
Ignores(w, m) ==
  \/ m.type = "Reload" /\ ~w.document
  \/ m.type = "GoToBackForwardItem" /\ m.id \notin w.known

HandleRequest(w, m) ==
  LET x == [w EXCEPT !.handling = TRUE]
  IN  CASE Ignores(w, m) -> Return(x)
        [] m.type = "StopLoading" -> StopLoading(x)
        [] m.type = "LoadRequest" ->
             AskForPolicy(x, [kind |-> "new", url |-> 1])
        [] m.type = "Reload" /\ w.document ->
             AskForPolicy(x, [kind |-> "reload", url |-> w.shown])
        [] m.type = "GoToBackForwardItem" /\ m.id \in w.known ->
             GoToItem(x, m.id, [kind |-> "item", url |-> m.id])

FollowLink(w) == AskForPolicy(w, [kind |-> "new", url |-> 0])

\* The synchronous BackForwardGoToItem has been answered.
WentToItem(w) ==
  IF w.next = Nothing THEN Return(w)
  ELSE AskForPolicy([w EXCEPT !.provisional = w.next.url], w.next)

\* The item belongs to the document that is shown: nothing is loaded, and
\* nobody is asked.
NavigateWithinDocument(w) ==
  Return([Report(w, "DidSameDocumentNavigation", 0) EXCEPT !.shown = w.next.url])

\* Mutant: the list is left where the navigation moved it.
GiveUpInPlace(w) == Return(w)

\* A navigation that is given up moves the list back to the item shown.
GiveUp(w) ==
  IF w.next.kind = "item" /\ w.shown # 0 THEN GoToItem(w, w.shown, Nothing)
  ELSE Return(w)

StartProvisionalLoad(w) ==
  Return([Report(StopAllLoaders(w), "DidStartProvisionalLoad", 0)
            EXCEPT !.loader = "Provisional", !.load = w.next,
                   !.strayed = @ /\ w.next.kind # "item"])

PushState(w) == Report(AddItem(w), "DidSameDocumentNavigation", 0)

CommitLoad(w) ==
  LET x == CASE w.load.kind = "new"    -> AddItem(w)
             [] w.load.kind = "item"   -> [w EXCEPT !.shown = w.provisional,
                                           !.provisional = 0]
             [] w.load.kind = "reload" -> w
  IN  [Report(x, "DidCommitLoad", 0)
         EXCEPT !.loader = "Committed", !.load = Nothing, !.document = TRUE]

FinishLoad(w, how) == [Report(w, how, 0) EXCEPT !.loader = "Finished"]
=============================================================================
