----------------------------- MODULE Navigation -----------------------------
(***************************************************************************)
(* Navigation of a page.  Clients ask the UI process to load, reload, go   *)
(* through the back/forward list or restore a session; the page follows    *)
(* links of its own; both change the list, which the UI process keeps and  *)
(* the web process refers to by item IDs that either may give out.  The    *)
(* web process may crash, and be replaced, at any time.                    *)
(***************************************************************************)
EXTENDS WebPageProxy, FiniteSets

CONSTANTS
  MaxRequests,   \* bound: what clients ask for
  MaxActs,       \* bound: what the page does by itself
  MaxRestored    \* bound: the items of a restored session

ASSUME NavigationAssumption ==
  /\ {MaxRequests, MaxActs, MaxRestored} \subseteq Nat
  /\ MaxRestored <= Capacity

VARIABLES
  page,      \* the WebPageProxy
  web,       \* the WebPage of the page's web process
  alive,     \* that process is running; web is as new while it is not
  toWeb,     \* sent by the UI process and not yet handled
  toUI,      \* sent by the web process and not yet handled
  requests,  \* counted against MaxRequests
  acts       \* counted against MaxActs

vars == <<page, web, alive, toWeb, toUI, requests, acts>>

Web == INSTANCE WebPage

Init ==
  /\ page = [NewWebPageProxy EXCEPT !.out = << >>]
  /\ web = Web!NewWebProcess /\ alive = TRUE
  /\ toWeb = NewWebPageProxy.out /\ toUI = << >>
  /\ requests = 0 /\ acts = 0

\* The UI process goes on with p; messages to a dead process are lost.
PageBecomes(p) ==
  /\ page' = [p EXCEPT !.out = << >>, !.fresh = FALSE]
  /\ alive' = (alive \/ p.fresh)
  /\ toWeb' = IF p.fresh THEN p.out
              ELSE IF alive THEN toWeb \o p.out ELSE << >>

---------------------------------------------------------------------------
(* Clients of the UI process *)

Ask(p) ==
  /\ requests < MaxRequests
  /\ requests' = requests + 1
  /\ PageBecomes(p)
  /\ UNCHANGED <<web, toUI, acts>>

Client ==
  \/ Ask(LoadRequest(page))
  \/ Ask(StopLoading(page))
  \/ Ask(Reload(page))
  \/ Ask(RemoveAllItems(page))
  \/ \E item \in BackItem(page.entries, page.cur)
                   \cup ForwardItem(page.entries, page.cur), keep \in BOOLEAN :
       Ask(GoToNeighbour(page, item, keep))
  \/ \E item \in Range(page.entries), keep \in BOOLEAN :
       Ask(GoToBackForwardItem(page, item, keep))
  \/ \E n \in 1 .. MaxRestored, url \in BOOLEAN :
       \E i \in 1 .. n : Ask(RestoreFromSessionState(page, n, i, url))

TerminateProcess ==
  /\ page.valid
  /\ requests < MaxRequests
  /\ requests' = requests + 1
  /\ page' = ResetStateAfterProcessExited(page)
  /\ alive' = FALSE /\ web' = Web!NewWebProcess
  /\ toWeb' = << >> /\ toUI' = << >>
  /\ UNCHANGED acts

---------------------------------------------------------------------------
(* The UI process *)

Handle(p, m, keep) ==
  CASE m.type = "AddBackForwardItem"        -> AddBackForwardItem(p, m.id)
    [] m.type = "BackForwardAddItem"        -> BackForwardAddItem(p, m.id, keep)
    [] m.type = "BackForwardGoToItem"       -> BackForwardGoToItem(p, m.id, keep)
    [] m.type = "BackForwardClear"          -> ClearList(p)
    [] m.type = "DidStartProvisionalLoad"   -> DidStartProvisionalLoad(p)
    [] m.type = "DidFailProvisionalLoad"    -> DidFailProvisionalLoad(p)
    [] m.type = "DidCommitLoad"             -> DidCommitLoad(p)
    [] m.type \in {"DidFinishLoad", "DidFailLoad"} -> DidFinishLoad(p)
    [] m.type = "DidSameDocumentNavigation" -> DidSameDocumentNavigation(p)
    [] m.type = "StopResponsivenessTimer"   -> StopResponsivenessTimer(p)

WebResumes(with) == web' = IF alive THEN [web EXCEPT !.wait = with] ELSE web

\* The next message is handled; the process that waits for it goes on.
DispatchMessage ==
  /\ page.valid /\ toUI # << >>
  /\ LET m == Head(toUI)
     IN  IF m.type = "DecidePolicyForNavigationAction"
         THEN \E action \in {"use", "ignore", "download"} :
                /\ PageBecomes(DecidePolicyForNavigationAction(page, m.id, action))
                /\ WebResumes(action)
         ELSE \E keep \in BOOLEAN :
                /\ PageBecomes(Handle(page, m, keep))
                /\ IF m.type = "BackForwardGoToItem" THEN WebResumes("went")
                   ELSE UNCHANGED web
  /\ toUI' = Tail(toUI)
  /\ UNCHANGED <<requests, acts>>

ResponsivenessTimerFired ==
  /\ page.timer
  /\ page' = TimerFired(page)
  /\ UNCHANGED <<web, alive, toWeb, toUI, requests, acts>>

\* The connection is closed; all that came through it has been handled.
ProcessDidCrash ==
  /\ page.valid /\ ~alive /\ toUI = << >>
  /\ page' = ResetStateAfterProcessExited(page)
  /\ UNCHANGED <<web, alive, toWeb, toUI, requests, acts>>

---------------------------------------------------------------------------
(* The web process *)

WebBecomes(w) ==
  /\ alive
  /\ web' = [w EXCEPT !.out = << >>]
  /\ toUI' = toUI \o w.out
  /\ UNCHANGED <<alive, requests>>

\* A request comes to nothing without a word to the UI process.
Drop == page' = [page EXCEPT !.dropped = page.pending # 0]

HandleMessage ==
  /\ toWeb # << >> /\ web.wait = "no"
  /\ LET m == Head(toWeb)
     IN  /\ WebBecomes(
              CASE m.type = "CreateWebPage"  -> Web!CreateWebPage(web, m)
                [] m.type = "RestoreSession" -> Web!RestoreSession(web, m.items)
                [] m.type = "DidRemoveBackForwardItem" -> Web!RemoveItem(web, m.id)
                [] OTHER -> Web!HandleRequest(web, m))
         /\ IF Web!Ignores(web, m) THEN Drop ELSE UNCHANGED page
  /\ toWeb' = Tail(toWeb)
  /\ UNCHANGED acts

\* The process goes on after a synchronous message.  A navigation is given up
\* that the policy turns down, that the document does not want to be left
\* for (beforeunload), or whose URL is invalid.
GoOn ==
  /\ UNCHANGED <<toWeb, acts>>
  /\ \/ web.wait = "went" /\ WebBecomes(Web!WentToItem(web)) /\ UNCHANGED page
     \/ /\ web.wait = "went" /\ web.document /\ web.next.kind = "item"
        /\ WebBecomes(Web!NavigateWithinDocument(web)) /\ UNCHANGED page
     \/ web.wait = "ignore" /\ WebBecomes(Web!GiveUp(web)) /\ UNCHANGED page
     \/ /\ \/ web.wait = "download"
           \/ web.wait = "use" /\ (web.document \/ web.next.kind = "new")
        /\ WebBecomes(Web!GiveUp(web)) /\ Drop
     \/ /\ web.wait = "use"
        /\ WebBecomes(Web!StartProvisionalLoad(web)) /\ UNCHANGED page

Load ==
  /\ web.wait = "no"
  /\ UNCHANGED <<page, toWeb, acts>>
  /\ \/ web.loader = "Provisional" /\ WebBecomes(Web!FailProvisionalLoad(web))
     \/ web.loader = "Provisional" /\ WebBecomes(Web!CommitLoad(web))
     \/ /\ web.loader = "Committed"
        /\ \E how \in {"DidFinishLoad", "DidFailLoad"} :
             WebBecomes(Web!FinishLoad(web, how))

\* The page follows a link, pushes a state or clears the list.
PageActs ==
  /\ web.wait = "no" /\ web.document
  /\ acts < MaxActs
  /\ acts' = acts + 1
  /\ UNCHANGED <<page, toWeb>>
  /\ \/ WebBecomes(Web!FollowLink(web))
     \/ WebBecomes(Web!PushState(web))
     \/ WebBecomes(Web!Report(web, "BackForwardClear", 0))

Crash ==
  /\ alive
  /\ alive' = FALSE /\ web' = Web!NewWebProcess /\ toWeb' = << >>
  /\ UNCHANGED <<page, toUI, requests, acts>>

Next ==
  \/ Client \/ TerminateProcess
  \/ DispatchMessage \/ ResponsivenessTimerFired \/ ProcessDidCrash
  \/ HandleMessage \/ GoOn \/ Load \/ PageActs \/ Crash

Spec == Init /\ [][Next]_vars

---------------------------------------------------------------------------
(* Correctness *)

Sent(q, types) == \E i \in DOMAIN q : q[i].type \in types

Requests == {"LoadRequest", "StopLoading", "Reload", "GoToBackForwardItem"}

MaxID == 2 * (MaxRequests * (MaxRestored + 1) + MaxActs) + 1

\* The type invariant; the IDs the UI process gives out (m_itemID) are even
\* and those of the web process (uniqueHistoryItemID) odd.
TypeOK ==
  /\ page.lastID % 2 = 0 /\ web.uniqueHistoryItemID % 2 = 1
  /\ page.pending \in 0 .. MaxID
  /\ page.state \in {"Provisional", "Committed", "Finished"}
  /\ page.items \cup web.known \subseteq 2 .. MaxID
  /\ page.valid \in BOOLEAN /\ alive \in BOOLEAN
  /\ web.loader \in {"Provisional", "Committed", "Finished"}
  /\ web.wait \in {"no", "goTo", "went", "policy", "use", "ignore", "download"}
  /\ page.out = << >> /\ web.out = << >>

List == INSTANCE BackForwardList
          WITH Items <- Nat \ {0, 1}, entries <- page.entries, cur <- page.cur

\* Whatever the messages and processes do, a page's list only ever changes by
\* one operation of WebBackForwardList at a time, and no item that is listed
\* is ever added again.  NavigationProofs shows what follows: the list
\* has a current item, holds none twice and no more than its capacity.
ListSpec == List!Spec

\* An item that one process names to the other is known there when the message
\* is handled, although items come and go on both sides meanwhile: the one
\* the UI process asks for (ASSERT(item) in WebPage::goForward, goBack and
\* goToBackForwardItem), and the one the web process adds, which
\* backForwardAddItem ignores if it cannot find it.
NamedItemsAreKnown ==
  /\ alive /\ toWeb # << >> /\ Head(toWeb).type = "GoToBackForwardItem"
       => Head(toWeb).id \in web.known
  /\ page.valid /\ toUI # << >> /\ Head(toUI).type = "BackForwardAddItem"
       => Head(toUI).id \in page.items

\* The next ID a web process gives out is nobody's, though the UI process and
\* the processes before it have given out others:
\* ASSERT(!idToHistoryItemMap().contains(itemID)) in addItem; an item that
\* addBackForwardItem finds by a used ID would be overwritten.
IDsAreFresh ==
  alive /\ web.created =>
    web.uniqueHistoryItemID + 2
      \notin page.items \cup web.known \cup Range(page.entries)

\* What clients are told of going back and forward is what the list allows,
\* except from the time a session is restored until the list changes again:
\* restoreFromState does not call didChangeBackForwardList.
CanGoIsCurrent ==
  page.announced =>
    /\ page.canGoBack = (BackItem(page.entries, page.cur) # {})
    /\ page.canGoForward = (ForwardItem(page.entries, page.cur) # {})

\* Load events reach the page's load state in the order its assertions ask
\* for, whichever loads are interrupted and however processes end:
\* PageLoadState::didStartProvisionalLoad, didFailProvisionalLoad,
\* didCommitLoad, didFinishLoad and didFailLoad.
LoadEventsInOrder ==
  page.valid /\ toUI # << >> =>
    LET type == Head(toUI).type
    IN  /\ type \in {"DidStartProvisionalLoad", "DidFailLoad"}
             => page.state # "Provisional"
        /\ type \in {"DidFailProvisionalLoad", "DidCommitLoad"}
             => page.state = "Provisional"
        /\ type = "DidFinishLoad" => page.state = "Committed"

\* A page that says it is loading has a load, or a request that will be
\* answered, behind it, unless the web process dropped the request; a page
\* without a process is not loading.
LoadingIsReal ==
  IsLoading(page) =>
    \/ ~alive /\ page.valid
    \/ page.dropped
    \/ Sent(toWeb, Requests \ {"StopLoading"})
    \/ web.wait # "no" \/ web.loader # "Finished"
    \/ Sent(toUI, {"DidStartProvisionalLoad", "DidFailProvisionalLoad",
                   "DidFinishLoad", "DidFailLoad", "DidSameDocumentNavigation"})

\* The responsiveness timer runs, or the process counts as unresponsive, only
\* while a request has yet to be handled or its answer to arrive, or the
\* process has ended and this is not known yet.
UnresponsiveIsReal ==
  page.valid /\ (page.timer \/ ~page.responsive) =>
    \/ ~alive
    \/ Sent(toWeb, Requests) \/ web.handling
    \/ Sent(toUI, {"StopResponsivenessTimer"})

\* Both processes have nothing left to do.
Quiet ==
  /\ page.valid /\ alive /\ web.wait = "no" /\ web.loader = "Finished"
  /\ toWeb = << >> /\ toUI = << >>

\* When all is done, the list is at the item the page shows: navigations that
\* are refused or stopped move it back.  It is not if that item has left the
\* list, if the load of another item failed, or if the list was moved while
\* the load of another item went on.
ListIsWhereThePageIs ==
  Quiet /\ ~web.strayed /\ IsListed(page.entries, web.shown)
    => web.shown \in CurrentItem(page)

\* WebKitWebView:is-loading: "When the load operation finishes the property
\* is set to %FALSE".  PageLoadState::isLoading holds as long as there is a
\* pending API request.
LoadingEnds == Quiet => ~IsLoading(page)
=============================================================================
