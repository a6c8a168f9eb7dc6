---------------------------- MODULE WebPageProxy ----------------------------
(***************************************************************************)
(* A page in the UI process (WebPageProxy), as operators on a record p: its *)
(* back/forward list, its load state, the items its process is known to    *)
(* have, and the responsiveness timer of that process.  An item is its ID; *)
(* a URL is the ID of the item it belongs to, 1 for the one a client loads *)
(* and 0 for the null string.  p.out collects the messages a call sends;   *)
(* p.fresh says that they go to a new web process.                         *)
(***************************************************************************)
EXTENDS WebBackForwardList

NewWebPageProxy ==
  [entries |-> << >>, cur |-> 0, canGoBack |-> FALSE, canGoForward |-> FALSE,
   pending |-> 0, state |-> "Finished",
   valid |-> TRUE, items |-> {}, lastID |-> 0, highest |-> 0,
   timer |-> FALSE, responsive |-> TRUE,
   announced |-> TRUE, dropped |-> FALSE,
   out |-> <<[type |-> "CreateWebPage", items |-> {}, highest |-> 0]>>,
   fresh |-> FALSE]

\* Nothing is sent to a process that has ended.
Send(p, m) == IF p.valid THEN [p EXCEPT !.out = Append(@, m)] ELSE p

Request(p, type, id) ==
  [Send(p, [type |-> type, id |-> id]) EXCEPT !.timer = TRUE]

SetPendingAPIRequestURL(p, url) ==
  [p EXCEPT !.pending = url, !.dropped = FALSE]

IsLoading(p) == p.pending # 0 \/ p.state # "Finished"

---------------------------------------------------------------------------
(* The back/forward list *)

CurrentItem(p) == IF p.cur = 0 THEN {} ELSE {p.entries[p.cur]}

DidChangeBackForwardList(p) ==
  [p EXCEPT !.canGoBack    = BackItem(p.entries, p.cur) # {},
            !.canGoForward = ForwardItem(p.entries, p.cur) # {},
            !.announced    = TRUE]

BackForwardRemovedItems(p, removed) ==
  LET messages == [i \in DOMAIN removed |->
                     [type |-> "DidRemoveBackForwardItem", id |-> removed[i]]]
  IN  IF p.valid THEN [p EXCEPT !.out = @ \o messages] ELSE p

SetList(p, entries, cur) ==
  DidChangeBackForwardList([p EXCEPT !.entries = entries, !.cur = cur])

\* Mutant: the new item is taken to come after the place the list had.
AddItemAfterOldPlace(p, item, keep) ==
  IF item \notin p.items THEN p
  ELSE LET entries == EntriesAfterAdd(p.entries, p.cur, item, keep)
           told    == BackForwardRemovedItems(p, RemovedByAdd(p.entries, p.cur))
       IN  SetList(told, entries, p.cur + 1)

BackForwardAddItem(p, item, keep) ==
  IF item \notin p.items THEN p
  ELSE LET entries == EntriesAfterAdd(p.entries, p.cur, item, keep)
           told    == BackForwardRemovedItems(p, RemovedByAdd(p.entries, p.cur))
       IN  SetList(told, entries, Len(entries))

\* Mutant: the buttons are not told of the new place.
GoToItemQuietly(p, item, keep) ==
  IF ~CanGoTo(p.entries, p.cur, item) THEN p
  ELSE LET entries == EntriesAfterGoTo(p.entries, p.cur, item, keep)
       IN  [p EXCEPT !.entries = entries, !.cur = IndexOf(entries, item)]

GoToItem(p, item, keep) ==
  IF ~CanGoTo(p.entries, p.cur, item) THEN p
  ELSE LET entries == EntriesAfterGoTo(p.entries, p.cur, item, keep)
       IN  SetList(p, entries, IndexOf(entries, item))

BackForwardGoToItem(p, item, keep) ==
  IF item \in p.items THEN GoToItem(p, item, keep) ELSE p

ClearList(p) ==
  IF Len(p.entries) <= 1 THEN p
  ELSE SetList(BackForwardRemovedItems(p, RemoveEntry(p.entries, p.cur)),
               EntriesAfterClear(p.entries, p.cur), 1)

RemoveAllItems(p) ==
  SetList(BackForwardRemovedItems(p, p.entries), << >>, 0)

---------------------------------------------------------------------------
(* What clients ask for *)

\* Mutant: the new process is not told of the items of the list.
ReattachWithoutItems(p) ==
  [p EXCEPT !.valid = TRUE, !.items = Range(p.entries), !.fresh = TRUE,
            !.timer = FALSE, !.responsive = TRUE,
            !.out = <<[type |-> "CreateWebPage", items |-> {},
                       highest |-> p.highest]>>]

\* A new process is created; it is told of every item of the list.
ReattachToWebProcess(p) ==
  [p EXCEPT !.valid = TRUE, !.items = Range(p.entries), !.fresh = TRUE,
            !.timer = FALSE, !.responsive = TRUE,
            !.out = <<[type |-> "CreateWebPage", items |-> Range(p.entries),
                       highest |-> p.highest]>>]

ReattachToWebProcessWithItem(p, item, keep) ==
  LET moved == IF item \in CurrentItem(p) THEN p ELSE GoToItem(p, item, keep)
  IN  Request(ReattachToWebProcess(moved), "GoToBackForwardItem", item)

LoadRequest(p) ==
  LET x == SetPendingAPIRequestURL(p, 1)
  IN  Request(IF x.valid THEN x ELSE ReattachToWebProcess(x), "LoadRequest", 1)

StopLoading(p) == IF p.valid THEN Request(p, "StopLoading", 0) ELSE p

GoToBackForwardItem(p, item, keep) ==
  IF ~p.valid THEN ReattachToWebProcessWithItem(p, item, keep)
  ELSE Request(SetPendingAPIRequestURL(p, item), "GoToBackForwardItem", item)

\* goBack and goForward
GoToNeighbour(p, item, keep) ==
  GoToBackForwardItem(SetPendingAPIRequestURL(p, item), item, keep)

Reload(p) ==
  IF p.cur = 0
  THEN IF p.valid THEN Request(p, "Reload", 0) ELSE ReattachToWebProcess(p)
  ELSE LET item == p.entries[p.cur]
           x    == SetPendingAPIRequestURL(p, item)
       IN  IF p.valid THEN Request(x, "Reload", 0)
           ELSE ReattachToWebProcessWithItem(x, item, TRUE)

\* A saved list of n items, the i-th one current, is restored: the items get
\* IDs of their own, and the page navigates, as every caller asks for.
\* Clients are not told of the new list.
RestoreFromSessionState(p, n, i, url) ==
  LET entries == [k \in 1 .. n |-> p.lastID + 2 * k]
      last    == p.lastID + 2 * n
      x == [p EXCEPT !.entries = entries, !.cur = i, !.lastID = last,
                     !.highest = IF last > @ THEN last ELSE @,
                     !.items = @ \cup Range(entries), !.announced = FALSE]
      sent == Send(x, [type |-> "RestoreSession", items |-> Range(entries)])
  IN  IF url THEN LoadRequest(sent)
      ELSE GoToBackForwardItem(sent, entries[i], TRUE)

---------------------------------------------------------------------------
(* What the web process reports *)

\* Mutant: an ended process's load is still taken for the page's.
ExitedStillLoading(p) ==
  [p EXCEPT !.valid = FALSE, !.pending = 0, !.timer = FALSE]

ResetStateAfterProcessExited(p) ==
  [p EXCEPT !.valid = FALSE, !.pending = 0, !.state = "Finished",
            !.timer = FALSE]

TimerFired(p) == [p EXCEPT !.timer = FALSE, !.responsive = FALSE]

StopResponsivenessTimer(p) == [p EXCEPT !.timer = FALSE, !.responsive = TRUE]

AddBackForwardItem(p, item) ==
  [p EXCEPT !.items = @ \cup {item},
            !.highest = IF item > @ THEN item ELSE @]

DidStartProvisionalLoad(p) ==
  [p EXCEPT !.pending = 0, !.state = "Provisional"]

DidFailProvisionalLoad(p) == [p EXCEPT !.state = "Finished"]

DidCommitLoad(p) == [p EXCEPT !.state = "Committed"]

DidFinishLoad(p) == [p EXCEPT !.state = "Finished"]

\* Mutant: the request that led to it still counts as pending.
SameDocumentStillPending(p) == p

DidSameDocumentNavigation(p) == [p EXCEPT !.pending = 0]

DecidePolicyForNavigationAction(p, url, action) ==
  [p EXCEPT !.pending = IF url # @ \/ action = "ignore" THEN 0 ELSE @]
=============================================================================
