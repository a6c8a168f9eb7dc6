-------------------------- MODULE NavigationProofs --------------------------
(***************************************************************************)
(* Navigation: what clients ask for, and the theorems about pages and their *)
(* lists.                                                                  *)
(***************************************************************************)
EXTENDS NavigationMessageProofs

\* The prover of a step that names none.
USE ZenonT(60)

-----------------------------------------------------------------------------
(* What clients ask for.                                                   *)

\* The UI process has gone on to y, and what y sends is on its way.
Leaves(y, w, a, tw, tu) ==
  Good(Posted(y), w, a \/ y.fresh, IF y.fresh THEN y.out ELSE Sends(a, tw, y.out), tu)

\* y asks the process of p for something, perhaps to load the item or URL.
Asks(p, y, type, id) ==
  /\ type \in Requests /\ id \in Nat
  /\ type = "GoToBackForwardItem" => id \in Range(p.entries)
  /\ \/ y = Request(p, type, id)
     \/ /\ type # "StopLoading"
        /\ \E url \in Nat : y = Request(SetPendingAPIRequestURL(p, url), type, id)

\* A list of n items with IDs of their own replaces that of p.
RestoredList(p, n) == [k \in 1 .. n |-> p.lastID + 2 * k]

Restores(p, x, n, i) ==
  /\ x \in Pages /\ x.entries = RestoredList(p, n) /\ x.cur = i
  /\ x.lastID = p.lastID + 2 * n
  /\ x.highest = (IF x.lastID > p.highest THEN x.lastID ELSE p.highest)
  /\ x.items = p.items \cup Range(x.entries) /\ x.announced = FALSE
  /\ x.pending = p.pending /\ x.state = p.state /\ x.valid = p.valid
  /\ x.timer = p.timer /\ x.responsive = p.responsive /\ x.dropped = p.dropped
  /\ x.fresh = p.fresh

RestoredPage(p, n, i) ==
  [p EXCEPT !.entries = RestoredList(p, n), !.cur = i, !.lastID = p.lastID + 2 * n,
            !.highest = IF p.lastID + 2 * n > @ THEN p.lastID + 2 * n ELSE @,
            !.items = @ \cup Range(RestoredList(p, n)), !.announced = FALSE]

\* Where a client goes: the page the process is created for, if it has none.
Moved(p, item, keep) ==
  IF item \in CurrentItem(p) THEN p ELSE GoToItem(p, item, keep)

GoesOnTo(p, r, y, item) ==
  \/ /\ p.valid
     /\ y = Request(SetPendingAPIRequestURL(p, item), "GoToBackForwardItem", item)
  \/ /\ ~p.valid
     /\ \/ y = Request(ReattachToWebProcess(r), "GoToBackForwardItem", item)
        \/ y = Request(ReattachToWebProcess(SetPendingAPIRequestURL(r, item)),
                       "GoToBackForwardItem", item)

\* A client asks the page for something.
LEMMA ClientKeeps ==
  Good(page, web, alive, toWeb, toUI) /\ List!ListOK /\ Client
    => Good(page, web, alive, toWeb, toUI)' /\ [List!Next]_(List!vars)
  <1>ShortFacts.
    ASSUME NEW S, NEW a \in S, NEW b \in S, NEW c \in S
    PROVE  /\ << >> \in Seq(S) /\ Len(<< >>) = 0
           /\ <<a>> \in Seq(S) /\ Len(<<a>>) = 1 /\ <<a>>[1] = a
           /\ Append(<< >>, a) = <<a>>
           /\ Append(<<a>>, b) \in Seq(S) /\ Len(Append(<<a>>, b)) = 2
           /\ Append(<<a>>, b)[1] = a /\ Append(<<a>>, b)[2] = b
           /\ Append(Append(<<a>>, b), c) \in Seq(S) /\ Len(Append(Append(<<a>>, b), c)) = 3
           /\ Append(Append(<<a>>, b), c)[1] = a /\ Append(Append(<<a>>, b), c)[2] = b
           /\ Append(Append(<<a>>, b), c)[3] = c
    <2>1. /\ << >> \in Seq(S) /\ Len(<< >>) = 0
          /\ <<a>> \in Seq(S) /\ Len(<<a>>) = 1 /\ <<a>>[1] = a
          /\ Append(<< >>, a) = <<a>>
      BY SMTT(30)
    <2>2. PICK q : q = <<a>>
      OBVIOUS
    <2>3. PICK r : r = Append(q, b)
      OBVIOUS
    <2>4. q \in Seq(S)
      BY <2>1, <2>2
    <2>5. r \in Seq(S)
      BY <2>3, <2>4, SMTT(30)
    <2>6. Len(r) = 2 /\ r[1] = a /\ r[2] = b
      <3>1. /\ r \in Seq(S) /\ Len(r) = Len(q) + 1
            /\ \A i \in 1 .. Len(q) : r[i] = q[i]
            /\ r[Len(q) + 1] = b
        BY <2>3, <2>4, AppendFacts, SMTT(30)
      <3>2. Len(q) = 1 /\ q[1] = a
        BY <2>2
      <3> QED
        BY <3>1, <3>2, SMTT(30)
    <2>7. /\ Append(r, c) \in Seq(S) /\ Len(Append(r, c)) = 3
          /\ Append(r, c)[1] = a /\ Append(r, c)[2] = b /\ Append(r, c)[3] = c
      <3>1. /\ Append(r, c) \in Seq(S) /\ Len(Append(r, c)) = Len(r) + 1
            /\ \A i \in 1 .. Len(r) : Append(r, c)[i] = r[i]
            /\ Append(r, c)[Len(r) + 1] = c
        BY <2>5, AppendFacts, SMTT(30)
      <3> QED
        BY <2>6, <3>1, SMTT(30)
    <2> QED
      BY <2>1, <2>2, <2>3, <2>5, <2>6, <2>7
  <1>TeachesAppend.
    ASSUME NEW q \in Seq(WebMessages), NEW a, NEW b \in SUBSET Nat, Teaches(q, a, b),
           NEW m \in WebMessages, m.type = "GoToBackForwardItem" => m.id \in b
    PROVE  Teaches(Append(q, m), a, KnownAfter(b, m))
    <2> USE <1>TeachesAppend
    <2>1. PICK r : r = <<m>>
      OBVIOUS
    <2>2. r \in Seq(WebMessages) /\ Append(q, m) = q \o r
      BY <2>1, SMTT(30)
    <2>3. Teaches(r, b, KnownAfter(b, m))
      BY <2>1, TeachesOne
    <2> QED
      BY <2>2, <2>3, TeachesConcat
  <1>EvenSum.
    ASSUME NEW n \in Nat, ~Odd(n), NEW k \in Nat, NEW e, e = n + 2 * k
    PROVE  ~Odd(e)
    BY <1>EvenSum, SMTT(30) DEF Odd
  \* The UI process sends a request; the item it names is in the list.
  <1>IDsRequest.
    ASSUME NEW p \in Pages, NEW w \in Webs, NEW tw \in Seq(WebMessages),
           NEW tu \in Seq(UIMessages), IDs(p, w, TRUE, tw, tu),
           NEW m \in WebMessages, m.type \in Requests,
           m.type = "GoToBackForwardItem" => m.id \in Range(p.entries)
    PROVE  IDs(p, w, TRUE, Append(tw, m), tu)
    <2> USE <1>IDsRequest
    <2>1. PICK t : t = Append(tw, m)
      OBVIOUS
    <2>2. /\ t \in Seq(WebMessages) /\ Len(t) = Len(tw) + 1 /\ Len(tw) \in Nat
          /\ \A i \in 1 .. Len(tw) : t[i] = tw[i]
          /\ t[Len(tw) + 1] = m
      BY <2>1, AppendFacts, SMTT(30)
    <2>3. /\ m.type # "CreateWebPage" /\ m.type # "RestoreSession"
          /\ m.type # "DidRemoveBackForwardItem"
      BY DEF Requests
    <2>4. \A i \in 1 .. Len(t) : (i \in 1 .. Len(tw) /\ t[i] = tw[i]) \/ t[i] = m
      <3>1. ASSUME NEW i \in 1 .. Len(t) PROVE i \in 1 .. Len(tw) \/ i = Len(tw) + 1
        BY <2>2, SMTT(30)
      <3> QED
        BY <2>2, <3>1
    <2>5. Counted(p, w, TRUE, t, tu)
      <3>1. tw # << >> => t # << >> /\ t[1] = tw[1]
        BY <2>2, SeqFacts, SMTT(30)
      <3> QED
        BY <3>1 DEF IDs, Counted
    <2>6. InWeb(p, w, t)
      BY <2>3, <2>4 DEF IDs, InWeb
    <2>7. InUI(p, w, TRUE, t, tu)
      BY <2>3, <2>4 DEF IDs, InUI
    <2>8. Known(p, w, TRUE, t, tu)
      <3>1. PICK k \in SUBSET Nat :
               /\ Teaches(tw, w.known, k) /\ Range(p.entries) \subseteq k
               /\ \A i \in 1 .. Len(tu) : tu[i].type = "BackForwardAddItem" => tu[i].id \in k
        BY DEF IDs, Known
      <3>2. KnownAfter(k, m) = k
        BY <2>3 DEF KnownAfter
      <3>3. m.type = "GoToBackForwardItem" => m.id \in k
        BY <3>1
      <3>4. Teaches(t, w.known, k)
        BY <2>1, <3>1, <3>2, <3>3, <1>TeachesAppend
      <3> QED
        BY <3>1, <3>4 DEF Known
    <2> QED
      BY <2>1, <2>5, <2>6, <2>7, <2>8 DEF IDs
  \* A session is restored: the items get IDs that nobody has.
  <1>IDsRestore.
    ASSUME NEW p \in Pages, NEW w \in Webs, NEW a \in BOOLEAN,
           NEW tw \in Seq(WebMessages), NEW tu \in Seq(UIMessages), IDs(p, w, a, tw, tu),
           NEW n \in Nat, NEW q \in Pages,
           q.entries = [k \in 1 .. n |-> p.lastID + 2 * k],
           q.items = p.items \cup Range(q.entries), q.lastID = p.lastID + 2 * n,
           q.highest = IF q.lastID > p.highest THEN q.lastID ELSE p.highest,
           NEW m \in WebMessages, m.type = "RestoreSession", m.items = Range(q.entries),
           NEW t, t = IF a THEN Append(tw, m) ELSE tw
    PROVE  IDs(q, w, a, t, tu)
    <2> USE <1>IDsRestore
    <2>1. p.lastID \in Nat /\ p.highest \in Nat /\ ~Odd(p.lastID) /\ p.lastID <= p.highest
      BY DEF Pages, IDs, Counted
    <2>2. ASSUME NEW e \in Range(q.entries)
          PROVE  e \in Nat /\ ~Odd(e) /\ 1 < e /\ e <= q.highest
      <3>1. PICK k \in 1 .. n : e = p.lastID + 2 * k
        BY <2>2 DEF Range
      <3>2. ~Odd(e)
        <4>1. k \in Nat
          BY SMTT(30)
        <4> QED
          BY <2>1, <3>1, <4>1, <1>EvenSum
      <3>3. e \in Nat /\ 1 < e /\ e <= q.lastID
        BY <2>1, <3>1, SMTT(30)
      <3> QED
        BY <2>1, <3>2, <3>3, SMTT(30)
    <2>3. ~Odd(q.lastID) /\ q.lastID <= q.highest /\ p.highest <= q.highest /\ q.highest \in Nat
      <3>1. ~Odd(q.lastID)
        BY <2>1, <1>EvenSum
      <3> QED
        BY <2>1, <3>1, SMTT(30)
    <2>4. /\ Len(tw) \in Nat /\ Len(t) \in Nat /\ \A i \in 1 .. Len(tw) : t[i] = tw[i] /\ i \in 1 .. Len(t)
          /\ \A i \in 1 .. Len(t) : (i \in 1 .. Len(tw) /\ t[i] = tw[i]) \/ t[i] = m
      <3>1. CASE ~a
        BY <3>1, SeqFacts
      <3>2. CASE a
        <4>1. /\ Len(t) = Len(tw) + 1 /\ Len(tw) \in Nat
              /\ \A i \in 1 .. Len(tw) : t[i] = tw[i]
              /\ t[Len(tw) + 1] = m
          BY <3>2, AppendFacts, SMTT(30)
        <4>2. ASSUME NEW i \in 1 .. Len(t) PROVE i \in 1 .. Len(tw) \/ i = Len(tw) + 1
          BY <4>1, SMTT(30)
        <4> QED
          BY <4>1, <4>2, SMTT(30)
      <3> QED
        BY <3>1, <3>2
    <2>5. Counted(q, w, a, t, tu)
      <3>1. tw # << >> => t # << >> /\ t[1] = tw[1]
        <4>1. tw # << >> => 1 \in 1 .. Len(tw)
          BY SeqFacts, SMTT(30)
        <4>2. t = << >> => Len(t) = 0
          OBVIOUS
        <4> QED
          BY <2>4, <4>1, <4>2, SMTT(30)
      <3>2. \A e \in q.items : 1 < e /\ e <= q.highest
        <4>1. \A e \in p.items : e \in Nat /\ 1 < e /\ e <= p.highest
          BY DEF IDs, Counted, Pages
        <4> QED
          BY <2>1, <2>2, <2>3, <4>1, SMTT(30)
      <3>3. \A e \in q.items : Odd(e) => e \in p.items
        BY <2>2
      <3> QED
        BY <2>3, <3>1, <3>2, <3>3 DEF IDs, Counted
    <2>6. InWeb(q, w, t)
      <3>1. \A e \in m.items : ~Odd(e)
        BY <2>2
      <3> QED
        BY <2>4, <3>1, SMTT(30) DEF IDs, InWeb
    <2>7. InUI(q, w, a, t, tu)
      <3>1. \A i \in 1 .. Len(tu) : tu[i].type = "BackForwardAddItem" =>
              /\ \A e \in Range(q.entries) : Odd(e) => e < tu[i].id
              /\ \A j \in 1 .. Len(t) :
                   t[j].type = "DidRemoveBackForwardItem" /\ Odd(t[j].id) => t[j].id < tu[i].id
        BY <2>2, <2>4 DEF IDs, InUI
      <3> QED
        BY <3>1 DEF IDs, InUI
    <2>8. Known(q, w, a, t, tu)
      <3>1. ASSUME a
            PROVE  \E k \in SUBSET Nat :
                     /\ Teaches(t, w.known, k) /\ Range(q.entries) \subseteq k
                     /\ \A i \in 1 .. Len(tu) : tu[i].type = "BackForwardAddItem" => tu[i].id \in k
        <4>1. PICK k \in SUBSET Nat :
                 /\ Teaches(tw, w.known, k) /\ Range(p.entries) \subseteq k
                 /\ \A i \in 1 .. Len(tu) : tu[i].type = "BackForwardAddItem" => tu[i].id \in k
          BY <3>1 DEF IDs, Known
        <4>2. KnownAfter(k, m) = k \cup Range(q.entries) /\ m.type # "GoToBackForwardItem"
          BY DEF KnownAfter
        <4>3. Teaches(t, w.known, k \cup Range(q.entries))
          <5>1. Teaches(Append(tw, m), w.known, KnownAfter(k, m))
            BY <4>1, <4>2, <1>TeachesAppend
          <5> QED
            BY <3>1, <4>2, <5>1
        <4>4. k \cup Range(q.entries) \in SUBSET Nat
          BY <2>2
        <4> QED
          BY <4>1, <4>3, <4>4
      <3> QED
        BY <3>1 DEF Known
    <2> QED
      BY <2>5, <2>6, <2>7, <2>8 DEF IDs
  <1>ListKeepsRest.
    ASSUME NEW p, NEW w, NEW a, NEW tw, NEW tu, NEW q \in Pages, NEW u \in Seq(WebMessages),
           Typed(p, w, a, tw, tu), Synced(p, w, a, tw, tu), Loads(p, w, a, tu),
           Evidence(p, w, a, tw, tu), q.out = << >>, q.fresh = FALSE,
           q.pending = p.pending, q.state = p.state, q.valid = p.valid,
           q.timer = p.timer, q.responsive = p.responsive, q.dropped = p.dropped,
           \/ a /\ \E m \in Seq(WebMessages) : u = tw \o m
           \/ a = FALSE /\ u = << >>
    PROVE  /\ Typed(q, w, a, u, tu) /\ Synced(q, w, a, u, tu) /\ Loads(q, w, a, tu)
           /\ Evidence(q, w, a, u, tu)
    <2> USE <1>ListKeepsRest
    <2>1. tw \in Seq(WebMessages) /\ a \in BOOLEAN
      BY DEF Typed
    <2>2. Typed(q, w, a, u, tu)
      BY DEF Typed
    <2>3. Synced(q, w, a, u, tu)
      BY DEF Synced
    <2>4. Loads(q, w, a, tu)
      BY DEF Loads
    <2>5. a => /\ Sent(tw, Requests) => Sent(u, Requests)
               /\ Sent(tw, Requests \ {"StopLoading"}) => Sent(u, Requests \ {"StopLoading"})
      <3>1. SUFFICES ASSUME a
                     PROVE  /\ Sent(tw, Requests) => Sent(u, Requests)
                            /\ Sent(tw, Requests \ {"StopLoading"})
                                 => Sent(u, Requests \ {"StopLoading"})
        OBVIOUS
      <3>2. PICK m \in Seq(WebMessages) : u = tw \o m
        BY <3>1
      <3>3. \A T : Sent(tw, T) => Sent(tw \o m, T)
        BY <2>1, SentConcat
      <3> QED
        BY <3>2, <3>3
    <2>6. Evidence(q, w, a, u, tu)
      BY <2>5 DEF Evidence
    <2> QED
      BY <2>2, <2>3, <2>4, <2>6
  <1>SendsMore.
    ASSUME NEW a \in BOOLEAN, NEW tw \in Seq(WebMessages), NEW out \in Seq(WebMessages),
           NEW m \in WebMessages
    PROVE  Sends(a, tw, Append(out, m))
             = IF a THEN Append(Sends(a, tw, out), m) ELSE << >>
    <2>1. tw \o Append(out, m) = Append(tw \o out, m)
      BY SMTT(30)
    <2> QED
      BY <2>1 DEF Sends
  <1>RequestKeeps.
    ASSUME NEW p, NEW w, NEW a, NEW tw, NEW tu, NEW m \in WebMessages, NEW q \in Pages, NEW u,
           Good(p, w, a, tw, tu), p.valid, m.type \in Requests,
           m.type = "GoToBackForwardItem" => m.id \in Range(p.entries),
           q.out = << >>, q.fresh = FALSE, SameIDs(p, q), SameButtons(p, q),
           q.state = p.state, q.valid = p.valid,
           \/ q.pending = p.pending /\ q.dropped = p.dropped
           \/ m.type # "StopLoading",
           u = IF a THEN Append(tw, m) ELSE << >>
    PROVE  Good(q, w, a, u, tu)
    <2> USE <1>RequestKeeps
    <2>1. /\ p \in Pages /\ w \in Webs /\ w.out = << >> /\ a \in BOOLEAN
          /\ tw \in Seq(WebMessages) /\ tu \in Seq(UIMessages) /\ Buttons(p)
          /\ Ready(w) /\ (a => Waits(tu, w.wait))
          /\ (~a => tw = << >> /\ w = Web!NewWebProcess)
          /\ Loads(p, w, a, tu) /\ Evidence(p, w, a, tw, tu) /\ IDs(p, w, a, tw, tu)
      BY DEF Good, Typed, Synced
    <2>2. Append(tw, m) \in Seq(WebMessages) /\ << >> \in Seq(WebMessages)
      BY <2>1, AppendFacts, SMTT(30)
    <2>3. u \in Seq(WebMessages)
      BY <2>2
    <2>4. Typed(q, w, a, u, tu)
      BY <2>1, <2>3 DEF Typed
    <2>5. Synced(q, w, a, u, tu)
      BY <2>1 DEF Synced
    <2>6. Loads(q, w, a, tu)
      BY <2>1 DEF Loads
    <2>7. Evidence(q, w, a, u, tu)
      <3>1. CASE a
        <4>1. u = Append(tw, m)
          BY <3>1
        <4>2. \A T : Sent(Append(tw, m), T) <=> Sent(tw, T) \/ m.type \in T
          BY <2>1, SentAppend
        <4>3. \A T : Sent(u, T) <=> Sent(tw, T) \/ m.type \in T
          BY <4>1, <4>2
        <4>4. Sent(u, Requests)
          BY <4>3
        <4>5. m.type # "StopLoading" => Sent(u, Requests \ {"StopLoading"})
          <5>1. m.type # "StopLoading" => m.type \in Requests \ {"StopLoading"}
            OBVIOUS
          <5> QED
            BY <4>3, <5>1
        <4>6. Sent(tw, Requests \ {"StopLoading"}) => Sent(u, Requests \ {"StopLoading"})
          BY <4>3
        <4> QED
          BY <2>1, <3>1, <4>4, <4>5, <4>6 DEF Evidence
      <3>2. CASE a = FALSE
        BY <3>2 DEF Evidence
      <3> QED
        BY <2>1, <3>1, <3>2
    <2>8. IDs(q, w, a, u, tu)
      <3>1. IDs(p, w, a, u, tu)
        <4>1. CASE a
          BY <2>1, <4>1, <1>IDsRequest
        <4>2. CASE a = FALSE
          <5>1. u = tw
            BY <2>1, <4>2
          <5> QED
            BY <2>1, <5>1
        <4> QED
          BY <2>1, <4>1, <4>2
      <3> QED
        BY <3>1, IDsSame
    <2>9. Buttons(q)
      BY <2>1 DEF Buttons, SameButtons
    <2> QED
      BY <2>4, <2>5, <2>6, <2>7, <2>8, <2>9 DEF Good
  <1>LeavesSame.
    ASSUME NEW p, NEW w, NEW a, NEW tw, NEW tu, Good(p, w, a, tw, tu)
    PROVE  Leaves(p, w, a, tw, tu)
    <2> USE <1>LeavesSame
    <2>1. /\ p \in Pages /\ p.out = << >> /\ p.fresh = FALSE /\ a \in BOOLEAN
          /\ tw \in Seq(WebMessages) /\ (a = FALSE => tw = << >>)
      BY DEF Good, Typed, Synced
    <2>2. Posted(p) = p
      BY <2>1 DEF Posted, Pages
    <2>3. Sends(a, tw, p.out) = tw
      BY <2>1, SendsNothing
    <2>4. (a \/ p.fresh) = a
      BY <2>1
    <2> QED
      BY <2>1, <2>2, <2>3, <2>4 DEF Leaves
  <1>RequestLeaves.
    ASSUME NEW p \in Pages, NEW w, NEW a \in BOOLEAN, NEW tw \in Seq(WebMessages), NEW tu,
           Leaves(p, w, a, tw, tu), p.valid, NEW y, NEW type, NEW id, Asks(p, y, type, id)
    PROVE  Leaves(y, w, a, tw, tu) /\ SameButtons(p, y) /\ y \in Pages
    <2> USE <1>RequestLeaves
    <2>00. /\ type \in Requests /\ id \in Nat
           /\ (type = "GoToBackForwardItem" => id \in Range(p.entries))
           /\ \/ y = Request(p, type, id)
              \/ /\ type # "StopLoading"
                 /\ \E url \in Nat : y = Request(SetPendingAPIRequestURL(p, url), type, id)
      BY DEF Asks
    <2>0. [type |-> type, id |-> id] \in WebMessages
      BY <2>00 DEF WebMessages
    <2>1. PICK m \in WebMessages : m = [type |-> type, id |-> id]
      BY <2>0
    <2>2. m \in WebMessages /\ m.type = type /\ m.id = id
      BY <2>1
    <2>3. PICK n \in Nat, d \in BOOLEAN :
            /\ y = [p EXCEPT !.pending = n, !.dropped = d, !.out = Append(@, m), !.timer = TRUE]
            /\ (n = p.pending /\ d = p.dropped) \/ type # "StopLoading"
      <3>1. CASE y = Request(p, type, id)
        <4>1. y = [p EXCEPT !.out = Append(@, m), !.timer = TRUE]
          BY <2>1, <3>1 DEF Request, Send
        <4>2. y = [p EXCEPT !.pending = p.pending, !.dropped = p.dropped,
                            !.out = Append(@, m), !.timer = TRUE]
          BY <4>1 DEF Pages
        <4>3. p.pending \in Nat /\ p.dropped \in BOOLEAN
          BY DEF Pages
        <4> QED
          BY <4>2, <4>3
      <3>2. CASE /\ type # "StopLoading"
                 /\ \E url \in Nat : y = Request(SetPendingAPIRequestURL(p, url), type, id)
        <4>0. PICK url \in Nat : y = Request(SetPendingAPIRequestURL(p, url), type, id)
          BY <3>2
        <4>1. PICK r : r = SetPendingAPIRequestURL(p, url)
          OBVIOUS
        <4>2. r = [p EXCEPT !.pending = url, !.dropped = FALSE] /\ r.valid
          BY <4>1 DEF SetPendingAPIRequestURL, Pages
        <4>3. y = [r EXCEPT !.out = Append(@, m), !.timer = TRUE]
          BY <2>1, <4>0, <4>1, <4>2 DEF Request, Send
        <4>4. y = [p EXCEPT !.pending = url, !.dropped = FALSE,
                            !.out = Append(@, m), !.timer = TRUE]
          BY <4>2, <4>3 DEF Pages
        <4> QED
          BY <3>2, <4>4
      <3> QED
        BY <2>00, <3>1, <3>2
    <2>4. p.out \in Seq(WebMessages)
      BY DEF Pages
    <2>5. PICK o \in Seq(WebMessages) : o = Append(p.out, m)
      BY <2>2, <2>4, AppendFacts
    <2>6. y = [p EXCEPT !.pending = n, !.dropped = d, !.out = o, !.timer = TRUE]
      BY <2>3, <2>5 DEF Pages
    <2>7. /\ y \in Pages /\ y.out = o /\ y.fresh = p.fresh /\ y.pending = n /\ y.dropped = d
          /\ y.state = p.state /\ y.valid = p.valid /\ SameIDs(p, y) /\ SameButtons(p, y)
      BY <2>6 DEF Pages, SameIDs, SameButtons
    <2>8. PICK r : r = Posted(p)
      OBVIOUS
    <2>9. PICK q : q = Posted(y)
      OBVIOUS
    <2>10. /\ SameButtons(p, r) /\ SameIDs(p, r) /\ r.pending = p.pending
           /\ r.state = p.state /\ r.valid = p.valid /\ r.dropped = p.dropped
      BY <2>8, PostedFacts
    <2>11. /\ q \in Pages /\ q.out = << >> /\ q.fresh = FALSE
           /\ SameButtons(y, q) /\ SameIDs(y, q) /\ q.pending = y.pending
           /\ q.state = y.state /\ q.valid = y.valid /\ q.dropped = y.dropped
      BY <2>7, <2>9, PostedFacts
    <2>12. /\ SameIDs(r, q) /\ SameButtons(r, q) /\ q.state = r.state /\ q.valid = r.valid
           /\ r.valid /\ (type = "GoToBackForwardItem" => id \in Range(r.entries))
           /\ (q.pending = r.pending /\ q.dropped = r.dropped) \/ type # "StopLoading"
      BY <2>00, <2>3, <2>7, <2>10, <2>11, SMTT(30) DEF SameIDs, SameButtons
    <2>13. CASE p.fresh
      <3>1. Good(r, w, TRUE, p.out, tu)
        <4>1. (a \/ p.fresh) = TRUE
          BY <2>13
        <4> QED
          BY <2>8, <2>13, <4>1 DEF Leaves
      <3>2. Good(q, w, TRUE, o, tu)
        BY <2>00, <2>2, <2>5, <2>11, <2>12, <3>1, <1>RequestKeeps
      <3>3. (a \/ y.fresh) = TRUE /\ y.fresh
        BY <2>7, <2>13
      <3> QED
        BY <2>7, <2>9, <3>2, <3>3 DEF Leaves
    <2>14. CASE p.fresh = FALSE
      <3>1. Good(r, w, a, Sends(a, tw, p.out), tu)
        <4>1. (a \/ p.fresh) = a
          BY <2>14
        <4> QED
          BY <2>8, <2>14, <4>1 DEF Leaves
      <3>2. Sends(a, tw, o) = IF a THEN Append(Sends(a, tw, p.out), m) ELSE << >>
        BY <2>2, <2>4, <2>5, <1>SendsMore
      <3>3. Good(q, w, a, Sends(a, tw, o), tu)
        BY <2>00, <2>2, <2>11, <2>12, <3>1, <3>2, <1>RequestKeeps
      <3>4. (a \/ y.fresh) = a /\ y.fresh = FALSE
        BY <2>7, <2>14
      <3> QED
        BY <2>7, <2>9, <3>3, <3>4 DEF Leaves
    <2>15. p.fresh \in BOOLEAN
      BY DEF Pages
    <2> QED
      BY <2>7, <2>13, <2>14, <2>15
  <1>ReattachLeaves.
    ASSUME NEW p, NEW w, NEW a, NEW tw, NEW tu, Good(p, w, a, tw, tu), ~p.valid,
           NEW y, y = ReattachToWebProcess(p)
    PROVE  /\ Leaves(y, w, a, tw, tu) /\ SameButtons(p, y) /\ y \in Pages /\ y.valid
           /\ y.pending = p.pending /\ y.dropped = p.dropped
    <2> USE <1>ReattachLeaves
    <2>1. /\ p \in Pages /\ p.out = << >> /\ p.fresh = FALSE /\ w \in Webs /\ w.out = << >>
          /\ a = FALSE /\ tw = << >> /\ tu = << >> /\ Buttons(p)
          /\ p.pending = 0 /\ p.state = "Finished" /\ w = Web!NewWebProcess
          /\ IDs(p, w, a, tw, tu) /\ a \in BOOLEAN /\ Ready(w)
      BY DEF Good, Typed, Synced
    <2>2. p.entries \in Seq(Nat) /\ p.highest \in Nat
      BY <2>1 DEF Pages
    <2>3. Range(p.entries) \in SUBSET Nat
      <3>1. \A i \in DOMAIN p.entries : p.entries[i] \in Nat
        BY <2>2, SMTT(30)
      <3> QED
        BY <3>1 DEF Range
    <2>4. PICK s \in SUBSET Nat : s = Range(p.entries)
      BY <2>3
    <2>5. [type |-> "CreateWebPage", items |-> s, highest |-> p.highest] \in WebMessages
      BY <2>2 DEF WebMessages
    <2>6. PICK m \in WebMessages :
            m = [type |-> "CreateWebPage", items |-> s, highest |-> p.highest]
      BY <2>5
    <2>7. m.type = "CreateWebPage" /\ m.items = s /\ m.highest = p.highest
      BY <2>6
    <2>8. PICK o \in Seq(WebMessages) : o = <<m>>
      <3>1. <<m>> \in Seq(WebMessages)
        BY <1>ShortFacts
      <3> QED
        BY <3>1
    <2>9. y = [p EXCEPT !.valid = TRUE, !.items = s, !.fresh = TRUE, !.timer = FALSE,
                        !.responsive = TRUE, !.out = o]
      BY <2>4, <2>6, <2>8 DEF ReattachToWebProcess
    <2>10. /\ y \in Pages /\ y.out = o /\ y.fresh = TRUE /\ y.pending = p.pending
           /\ y.dropped = p.dropped /\ y.state = p.state /\ y.valid = TRUE
           /\ y.timer = FALSE /\ y.responsive = TRUE /\ y.items = s
           /\ y.lastID = p.lastID /\ y.highest = p.highest /\ SameButtons(p, y)
      <3>1. p \in Pages
        BY <2>1
      <3>2. y \in Pages
        BY <2>9, <3>1 DEF Pages
      <3>3. SameButtons(p, y)
        BY <2>9, <3>1 DEF Pages, SameButtons
      <3>4. /\ y.out = o /\ y.fresh = TRUE /\ y.pending = p.pending
            /\ y.dropped = p.dropped /\ y.state = p.state /\ y.valid = TRUE
            /\ y.timer = FALSE /\ y.responsive = TRUE /\ y.items = s
            /\ y.lastID = p.lastID /\ y.highest = p.highest
        BY <2>9, <3>1 DEF Pages
      <3> QED
        BY <3>2, <3>3, <3>4
    <2>11. PICK q : q = Posted(y)
      OBVIOUS
    <2>12. /\ q \in Pages /\ q.out = << >> /\ q.fresh = FALSE
           /\ SameButtons(y, q) /\ SameIDs(y, q) /\ q.pending = y.pending
           /\ q.state = y.state /\ q.valid = y.valid /\ q.dropped = y.dropped
           /\ q.timer = y.timer /\ q.responsive = y.responsive
      BY <2>10, <2>11, PostedFacts
    <2>13. tu \in Seq(UIMessages)
      BY <2>1, SMTT(30)
    <2>14. Typed(q, w, TRUE, o, tu)
      BY <2>1, <2>8, <2>12, <2>13 DEF Typed
    <2>15. Synced(q, w, TRUE, o, tu)
      BY <2>1, <2>10, <2>12, WaitsForNothing DEF Synced
    <2>16. Loads(q, w, TRUE, tu)
      <3>1. "Finished" \in States /\ w.loader = "Finished"
        BY <2>1 DEF States, Web!NewWebProcess
      <3>2. Told(tu, q.state, w.loader)
        BY <2>1, <2>10, <2>12, <3>1, ToldNothing
      <3> QED
        BY <3>1, <3>2 DEF Loads
    <2>17. Evidence(q, w, TRUE, o, tu)
      <3>1. ~q.timer /\ q.responsive /\ q.pending = 0
        BY <2>1, <2>10, <2>12
      <3> QED
        BY <3>1 DEF Evidence
    <2>18. IDs(q, w, TRUE, o, tu)
      <3>1. /\ q.entries = p.entries /\ q.items = Range(p.entries)
            /\ q.lastID = p.lastID /\ q.highest = p.highest
        BY <2>4, <2>10, <2>12 DEF SameIDs, SameButtons
      <3>2. IDs(p, w, FALSE, tw, << >>)
        BY <2>1
      <3>3. IDs(q, Web!NewWebProcess, TRUE, <<m>>, << >>)
        BY <2>1, <2>4, <2>7, <2>12, <3>1, <3>2, IDsReattach
      <3> QED
        BY <2>1, <2>8, <3>3
    <2>19. Buttons(q)
      BY <2>1, <2>10, <2>12 DEF Buttons, SameButtons
    <2>20. Good(q, w, TRUE, o, tu)
      BY <2>14, <2>15, <2>16, <2>17, <2>18, <2>19 DEF Good
    <2>21. (a \/ y.fresh) = TRUE /\ y.fresh
      BY <2>1, <2>10
    <2> QED
      BY <2>10, <2>11, <2>20, <2>21 DEF Leaves
  \* The process of a page that has none is created before it is asked.
  <1>ReattachAndRequestLeaves.
    ASSUME NEW p, NEW w, NEW a, NEW tw, NEW tu, Good(p, w, a, tw, tu), ~p.valid,
           NEW type \in Requests \ {"StopLoading"}, NEW id \in Nat,
           type = "GoToBackForwardItem" => id \in Range(p.entries),
           NEW y, NEW url \in Nat,
           \/ y = Request(ReattachToWebProcess(p), type, id)
           \/ y = Request(ReattachToWebProcess(SetPendingAPIRequestURL(p, url)), type, id)
    PROVE  Leaves(y, w, a, tw, tu) /\ SameButtons(p, y) /\ y \in Pages
    <2> USE <1>ReattachAndRequestLeaves
    <2>1. p \in Pages /\ a \in BOOLEAN /\ tw \in Seq(WebMessages)
      BY DEF Good, Typed
    <2>2. PICK r : r = ReattachToWebProcess(p)
      OBVIOUS
    <2>3. Leaves(r, w, a, tw, tu) /\ SameButtons(p, r) /\ r \in Pages /\ r.valid
      BY <2>2, <1>ReattachLeaves
    <2>4. ReattachToWebProcess(SetPendingAPIRequestURL(p, url)) = SetPendingAPIRequestURL(r, url)
      BY <2>1, <2>2 DEF ReattachToWebProcess, SetPendingAPIRequestURL, Pages
    <2>5. type = "GoToBackForwardItem" => id \in Range(r.entries)
      BY <2>3 DEF SameButtons
    <2>6. type \in Requests /\ type # "StopLoading"
      OBVIOUS
    <2>7. Asks(r, y, type, id)
      BY <2>2, <2>4, <2>5, <2>6 DEF Asks
    <2>8. Leaves(y, w, a, tw, tu) /\ SameButtons(r, y) /\ y \in Pages
      BY <2>1, <2>3, <2>7, <1>RequestLeaves, SMTT(30)
    <2> QED
      BY <2>3, <2>8 DEF SameButtons
  <1>LoadRequestLeaves.
    ASSUME NEW p \in Pages, NEW w, NEW a \in BOOLEAN, NEW tw \in Seq(WebMessages), NEW tu,
           Leaves(p, w, a, tw, tu), p.valid \/ Good(p, w, a, tw, tu),
           NEW y, y = LoadRequest(p)
    PROVE  Leaves(y, w, a, tw, tu) /\ SameButtons(p, y) /\ y \in Pages
    <2> USE <1>LoadRequestLeaves
    <2>1. SetPendingAPIRequestURL(p, 1).valid = p.valid
      BY DEF SetPendingAPIRequestURL, Pages
    <2>2. 1 \in Nat /\ "LoadRequest" \in Requests /\ "LoadRequest" # "StopLoading"
      BY DEF Requests
    <2>3. "LoadRequest" # "GoToBackForwardItem"
      OBVIOUS
    <2>4. CASE p.valid
      <3>1. y = Request(SetPendingAPIRequestURL(p, 1), "LoadRequest", 1)
        BY <2>1, <2>4 DEF LoadRequest
      <3>2. Asks(p, y, "LoadRequest", 1)
        BY <2>2, <2>3, <3>1 DEF Asks
      <3> QED
        BY <2>4, <3>2, <1>RequestLeaves, SMTT(30)
    <2>5. CASE ~p.valid
      <3>1. y = Request(ReattachToWebProcess(SetPendingAPIRequestURL(p, 1)), "LoadRequest", 1)
        BY <2>1, <2>5 DEF LoadRequest
      <3>2. "LoadRequest" \in Requests \ {"StopLoading"}
        BY <2>2
      <3>3. Good(p, w, a, tw, tu)
        BY <2>5
      <3> QED
        BY <2>2, <2>3, <2>5, <3>1, <3>2, <3>3, <1>ReattachAndRequestLeaves
    <2> QED
      BY <2>4, <2>5
  <1>OutFacts.
    ASSUME NEW p \in Pages, NEW o \in Seq(WebMessages), NEW y, y = [p EXCEPT !.out = o]
    PROVE  y \in Pages /\ y.out = o /\ SameRest(p, y) /\ SameButtons(p, y)
    BY <1>OutFacts DEF Pages, SameRest, SameButtons
  <1>PostedSame.
    ASSUME NEW p \in Pages, p.out = << >>, p.fresh = FALSE
    PROVE  Posted(p) = p
    BY <1>PostedSame DEF Pages, Posted
  <1>SendFacts.
    ASSUME NEW p \in Pages, p.out = << >>, NEW m \in WebMessages, NEW y, y = Send(p, m)
    PROVE  /\ y \in Pages /\ y.out = (IF p.valid THEN <<m>> ELSE << >>)
           /\ SameRest(p, y) /\ SameButtons(p, y)
    <2> USE <1>SendFacts
    <2>1. Append(<< >>, m) = <<m>> /\ <<m>> \in Seq(WebMessages)
      BY <1>ShortFacts
    <2>2. PICK o \in Seq(WebMessages) : o = <<m>>
      BY <2>1
    <2>3. Append(p.out, m) = o
      BY <2>1, <2>2
    <2>4. CASE p.valid
      <3>1. y = [p EXCEPT !.out = o]
        BY <2>3, <2>4 DEF Send, Pages
      <3> QED
        BY <2>2, <2>4, <3>1, <1>OutFacts
    <2>5. CASE ~p.valid
      BY <2>5 DEF Send, SameRest, SameButtons
    <2> QED
      BY <2>4, <2>5
  <1>RestoredListFacts.
    ASSUME NEW p \in Pages, NEW n \in Nat, NEW e, e = RestoredList(p, n)
    PROVE  /\ e \in Seq(Nat) /\ Range(e) \in SUBSET Nat
           /\ \A i \in 1 .. n : e[i] \in Range(e)
    <2> USE <1>RestoredListFacts
    <2>1. p.lastID \in Nat
      BY DEF Pages
    <2>2. e \in [1 .. n -> Nat]
      BY <2>1, SMTT(30) DEF RestoredList
    <2>3. PICK f : f = e
      OBVIOUS
    <2>4. f \in [1 .. n -> Nat]
      BY <2>2, <2>3
    <2>5. f \in Seq(Nat) /\ DOMAIN f = 1 .. n
      BY <2>4, SMTT(30)
    <2> QED
      BY <2>3, <2>4, <2>5 DEF Range
  <1>RestoredFacts.
    ASSUME NEW p \in Pages, NEW n \in Nat, NEW i \in 1 .. n, NEW x, x = RestoredPage(p, n, i)
    PROVE  Restores(p, x, n, i) /\ x.out = p.out
    <2> USE <1>RestoredFacts
    <2>1. p.lastID \in Nat /\ p.highest \in Nat /\ p.items \in SUBSET Nat
      BY DEF Pages
    <2>2. RestoredList(p, n) \in Seq(Nat) /\ Range(RestoredList(p, n)) \in SUBSET Nat
      BY <1>RestoredListFacts
    <2>3. PICK e \in Seq(Nat) : e = RestoredList(p, n)
      BY <2>2
    <2>4. PICK last \in Nat : last = p.lastID + 2 * n
      BY <2>1, SMTT(30)
    <2>5. PICK h \in Nat : h = IF last > p.highest THEN last ELSE p.highest
      BY <2>1, <2>4
    <2>6. PICK t \in SUBSET Nat : t = p.items \cup Range(e)
      BY <2>1, <2>2, <2>3
    <2>7. x = [p EXCEPT !.entries = e, !.cur = i, !.lastID = last, !.highest = h,
                        !.items = t, !.announced = FALSE]
      BY <2>3, <2>4, <2>5, <2>6 DEF Pages, RestoredPage
    <2>8. i \in Nat
      BY SMTT(30)
    <2>9. /\ x \in Pages /\ x.entries = e /\ x.cur = i /\ x.lastID = last /\ x.highest = h
          /\ x.items = t /\ x.announced = FALSE /\ x.out = p.out /\ x.fresh = p.fresh
          /\ x.pending = p.pending /\ x.state = p.state /\ x.valid = p.valid
          /\ x.timer = p.timer /\ x.responsive = p.responsive /\ x.dropped = p.dropped
      <3>1. ASSUME NEW y, y = [p EXCEPT !.entries = e, !.cur = i, !.lastID = last,
                                        !.highest = h, !.items = t, !.announced = FALSE]
            PROVE  /\ y \in Pages /\ y.entries = e /\ y.cur = i /\ y.lastID = last
                   /\ y.highest = h /\ y.items = t /\ y.announced = FALSE
                   /\ y.out = p.out /\ y.fresh = p.fresh /\ y.pending = p.pending
                   /\ y.state = p.state /\ y.valid = p.valid /\ y.timer = p.timer
                   /\ y.responsive = p.responsive /\ y.dropped = p.dropped
        BY <2>8, <3>1 DEF Pages
      <3> QED
        BY <2>7, <3>1
    <2> QED
      BY <2>3, <2>4, <2>5, <2>6, <2>9 DEF Restores
  <1>RestoredLeaves.
    ASSUME NEW p, NEW w, NEW a, NEW tw, NEW tu, Good(p, w, a, tw, tu),
           NEW n \in Nat, NEW i, NEW y, Restores(p, y, n, i), NEW m \in WebMessages,
           m.type = "RestoreSession", m.items = Range(y.entries),
           y.out = IF p.valid THEN <<m>> ELSE << >>
    PROVE  Leaves(y, w, a, tw, tu) /\ (p.valid \/ Good(y, w, a, tw, tu))
    <2> USE <1>RestoredLeaves
    <2>1. /\ p \in Pages /\ p.fresh = FALSE /\ w \in Webs /\ a \in BOOLEAN
          /\ tw \in Seq(WebMessages) /\ tu \in Seq(UIMessages)
          /\ (a = FALSE => tw = << >>) /\ (~p.valid => a = FALSE)
          /\ Typed(p, w, a, tw, tu) /\ Synced(p, w, a, tw, tu) /\ Loads(p, w, a, tu)
          /\ Evidence(p, w, a, tw, tu) /\ IDs(p, w, a, tw, tu)
      BY DEF Good, Typed, Synced
    <2>2. y \in Pages /\ y.fresh = FALSE
      BY <2>1 DEF Restores
    <2>3. PICK q : q = Posted(y)
      OBVIOUS
    <2>4. /\ q \in Pages /\ q.out = << >> /\ q.fresh = FALSE
          /\ SameButtons(y, q) /\ SameIDs(y, q) /\ q.pending = y.pending
          /\ q.state = y.state /\ q.valid = y.valid /\ q.dropped = y.dropped
          /\ q.timer = y.timer /\ q.responsive = y.responsive
      BY <2>2, <2>3, PostedFacts
    <2>5. /\ q.pending = p.pending /\ q.state = p.state /\ q.valid = p.valid
          /\ q.dropped = p.dropped /\ q.timer = p.timer /\ q.responsive = p.responsive
      BY <2>4 DEF Restores
    <2>6. PICK u : u = IF a THEN Append(tw, m) ELSE tw
      OBVIOUS
    <2>7. tw \o <<m>> = Append(tw, m) /\ <<m>> \in Seq(WebMessages)
      <3>1. <<m>> \in Seq(WebMessages)
        BY <1>ShortFacts
      <3>2. tw \in Seq(WebMessages)
        BY <2>1
      <3> QED
        BY <3>1, <3>2, SMTT(30)
    <2>8. a => p.valid
      BY <2>1
    <2>9. Sends(a, tw, y.out) = u
      BY <2>1, <2>6, <2>7, <2>8 DEF Sends
    <2>10. u \in Seq(WebMessages)
      BY <2>1, <2>6, <2>7, ConcatFacts
    <2>11. /\ Typed(q, w, a, u, tu) /\ Synced(q, w, a, u, tu) /\ Loads(q, w, a, tu)
           /\ Evidence(q, w, a, u, tu)
      <3>1. \/ a /\ \E l \in Seq(WebMessages) : u = tw \o l
            \/ a = FALSE /\ u = << >>
        BY <2>1, <2>6, <2>7
      <3> QED
        BY <2>1, <2>4, <2>5, <2>10, <3>1, <1>ListKeepsRest
    <2>12. IDs(q, w, a, u, tu)
      <3>1. /\ q.entries = [k \in 1 .. n |-> p.lastID + 2 * k]
            /\ q.items = p.items \cup Range(q.entries) /\ q.lastID = p.lastID + 2 * n
            /\ m.items = Range(q.entries)
        BY <2>4 DEF SameIDs, Restores, RestoredList
      <3>2. q.highest = IF q.lastID > p.highest THEN q.lastID ELSE p.highest
        BY <2>4 DEF SameIDs, Restores
      <3>3. q \in Pages
        BY <2>4
      <3> QED
        BY <2>1, <2>6, <3>1, <3>2, <3>3, <1>IDsRestore
    <2>13. Buttons(q)
      <3>1. q.announced = FALSE
        BY <2>4 DEF SameButtons, Restores
      <3> QED
        BY <3>1 DEF Buttons
    <2>14. Good(q, w, a, u, tu)
      BY <2>11, <2>12, <2>13 DEF Good
    <2>15. Leaves(y, w, a, tw, tu)
      <3>1. (a \/ y.fresh) = a
        BY <2>1, <2>2
      <3> QED
        BY <2>2, <2>3, <2>9, <2>14, <3>1 DEF Leaves
    <2>16. ~p.valid => Good(y, w, a, tw, tu)
      <3>1. SUFFICES ASSUME ~p.valid PROVE Good(y, w, a, tw, tu)
        OBVIOUS
      <3>2. Posted(y) = y
        BY <2>2, <3>1, <1>PostedSame
      <3>3. u = tw
        BY <2>1, <2>6, <3>1
      <3> QED
        BY <2>3, <2>14, <3>2, <3>3
    <2> QED
      BY <2>15, <2>16
  <1>RestoreLeaves.
    ASSUME NEW p, NEW w, NEW a, NEW tw, NEW tu, Good(p, w, a, tw, tu),
           NEW n \in Nat, NEW i \in 1 .. n, NEW url \in BOOLEAN, NEW y,
           y = RestoreFromSessionState(p, n, i, url)
    PROVE  /\ Leaves(y, w, a, tw, tu) /\ y \in Pages
           /\ y.entries = RestoredList(p, n) /\ y.cur = i
    <2> USE <1>RestoreLeaves
    <2>1. /\ p \in Pages /\ p.out = << >> /\ a \in BOOLEAN /\ tw \in Seq(WebMessages)
      BY DEF Good, Typed
    <2>2. PICK x : x = RestoredPage(p, n, i)
      OBVIOUS
    <2>3. Restores(p, x, n, i) /\ x.out = p.out
      BY <2>1, <2>2, <1>RestoredFacts
    <2>4. PICK m : m = [type |-> "RestoreSession", items |-> Range(RestoredList(p, n))]
      OBVIOUS
    <2>5. PICK sent : sent = Send(x, m)
      OBVIOUS
    <2>6. y = IF url THEN LoadRequest(sent)
              ELSE GoToBackForwardItem(sent, RestoredList(p, n)[i], TRUE)
      BY <2>2, <2>4, <2>5 DEF RestoreFromSessionState, RestoredList, RestoredPage
    <2>7. PICK item : item = RestoredList(p, n)[i]
      OBVIOUS
    <2>8. Range(RestoredList(p, n)) \in SUBSET Nat /\ item \in Range(RestoredList(p, n))
      BY <2>1, <2>7, <1>RestoredListFacts
    <2>9. m \in WebMessages /\ m.type = "RestoreSession"
      BY <2>4, <2>8 DEF WebMessages
    <2>10. m.items = Range(RestoredList(p, n))
      BY <2>4
    <2>11. /\ sent \in Pages /\ sent.out = (IF p.valid THEN <<m>> ELSE << >>)
           /\ SameRest(x, sent) /\ SameButtons(x, sent)
      <3>1. x \in Pages /\ x.out = << >> /\ x.valid = p.valid
        BY <2>1, <2>3 DEF Restores
      <3>2. /\ sent \in Pages /\ sent.out = (IF x.valid THEN <<m>> ELSE << >>)
            /\ SameRest(x, sent) /\ SameButtons(x, sent)
        BY <2>5, <2>9, <3>1, <1>SendFacts
      <3> QED
        BY <3>1, <3>2
    <2>12. Restores(p, sent, n, i)
      BY <2>3, <2>11 DEF Restores, SameRest, SameButtons
    <2>13. /\ sent.entries = RestoredList(p, n) /\ sent.cur = i /\ sent.valid = p.valid
      BY <2>12 DEF Restores
    <2>14. Leaves(sent, w, a, tw, tu) /\ (p.valid \/ Good(sent, w, a, tw, tu))
      BY <2>9, <2>10, <2>11, <2>12, <2>13, <1>RestoredLeaves
    <2>15. Leaves(y, w, a, tw, tu) /\ SameButtons(sent, y) /\ y \in Pages
      <3>1. CASE url
        <4>1. y = LoadRequest(sent)
          BY <2>6, <3>1
        <4> QED
          BY <2>1, <2>11, <2>13, <2>14, <4>1, <1>LoadRequestLeaves, SMTT(30)
      <3>2. CASE ~url
        <4>1. y = GoToBackForwardItem(sent, item, TRUE)
          BY <2>6, <2>7, <3>2
        <4>2. item \in Range(sent.entries) /\ item \in Nat
          BY <2>8, <2>13
        <4>3. "GoToBackForwardItem" \in Requests /\ "GoToBackForwardItem" # "StopLoading"
          BY DEF Requests
        <4>4. CASE p.valid
          <5>1. y = Request(SetPendingAPIRequestURL(sent, item), "GoToBackForwardItem", item)
            BY <2>13, <4>1, <4>4 DEF GoToBackForwardItem
          <5>2. Asks(sent, y, "GoToBackForwardItem", item)
            BY <4>2, <4>3, <5>1 DEF Asks
          <5>3. sent.valid
            BY <2>13, <4>4
          <5> QED
            BY <2>1, <2>11, <2>14, <5>2, <5>3, <1>RequestLeaves, SMTT(30)
        <4>5. CASE ~p.valid
          <5>1. item \in CurrentItem(sent)
            <6>1. sent.cur # 0 /\ sent.entries[sent.cur] = item
              BY <2>7, <2>13, SMTT(30)
            <6> QED
              BY <6>1 DEF CurrentItem
          <5>2. y = Request(ReattachToWebProcess(sent), "GoToBackForwardItem", item)
            BY <2>13, <4>1, <4>5, <5>1
               DEF GoToBackForwardItem, ReattachToWebProcessWithItem
          <5>3. "GoToBackForwardItem" \in Requests \ {"StopLoading"} /\ 0 \in Nat
            BY <4>3
          <5>4. Good(sent, w, a, tw, tu) /\ ~sent.valid
            BY <2>13, <2>14, <4>5
          <5> QED
            BY <4>2, <5>2, <5>3, <5>4, <1>ReattachAndRequestLeaves
        <4> QED
          BY <4>4, <4>5
      <3> QED
        BY <3>1, <3>2
    <2> QED
      BY <2>13, <2>15 DEF SameButtons
  \* A client removes all items.
  <1>RemoveAllLeaves.
    ASSUME NEW p, NEW w, NEW a, NEW tw, NEW tu, Good(p, w, a, tw, tu),
           NEW y, y = RemoveAllItems(p)
    PROVE  /\ Leaves(y, w, a, tw, tu) /\ y \in Pages /\ y.entries = << >> /\ y.cur = 0
    <2> USE <1>RemoveAllLeaves
    <2>1. /\ p \in Pages /\ p.out = << >> /\ p.fresh = FALSE /\ w \in Webs /\ a \in BOOLEAN
          /\ tw \in Seq(WebMessages) /\ tu \in Seq(UIMessages)
          /\ IDs(p, w, a, tw, tu) /\ (a = FALSE => tw = << >>) /\ (~p.valid => ~a)
          /\ Typed(p, w, a, tw, tu) /\ Synced(p, w, a, tw, tu) /\ Loads(p, w, a, tu)
          /\ Evidence(p, w, a, tw, tu)
      BY DEF Good, Typed, Synced
    <2>2. PICK removed : removed = p.entries
      OBVIOUS
    <2>3. removed \in Seq(Nat) /\ << >> \in Seq(Nat) /\ 0 \in Nat
      BY <2>1, <2>2, SMTT(30) DEF Pages
    <2>4. Range(<< >>) = {}
      BY SMTT(30) DEF Range
    <2>5. Splits(p, removed, << >>)
      BY <2>2, <2>3, <2>4 DEF Splits
    <2>6. y = SetList(BackForwardRemovedItems(p, removed), << >>, 0)
      BY <2>2 DEF RemoveAllItems
    <2>7. /\ Relists(p, y) /\ y.entries = << >> /\ y.cur = 0
          /\ y.out = IF p.valid THEN Removals(removed) ELSE << >>
      <3>1. PICK e, c : e = << >> /\ c = 0
        OBVIOUS
      <3>2. /\ p \in Pages /\ p.out = << >> /\ e \in Seq(Nat) /\ c \in Nat
            /\ Splits(p, removed, e) /\ y = SetList(BackForwardRemovedItems(p, removed), e, c)
        BY <2>1, <2>3, <2>5, <2>6, <3>1
      <3>3. /\ Relists(p, y) /\ y.entries = e /\ y.cur = c
            /\ y.out = IF p.valid THEN Removals(removed) ELSE << >>
        BY <3>2, SplitsList, SMTT(30)
      <3> QED
        BY <3>1, <3>3
    <2>8. PICK q, u : q = Posted(y) /\ u = Sends(a, tw, y.out)
      OBVIOUS
    <2>9. /\ y \in Pages /\ y.items = p.items /\ y.lastID = p.lastID /\ y.fresh = FALSE
          /\ y.highest = p.highest /\ y.pending = p.pending /\ y.state = p.state
          /\ y.valid = p.valid /\ y.timer = p.timer /\ y.responsive = p.responsive
          /\ y.dropped = p.dropped /\ Buttons(y)
      BY <2>1, <2>7 DEF Relists, SameRest
    <2>10. u = Sends(a, tw, Removals(removed))
      <3>1. CASE p.valid
        BY <2>7, <2>8, <3>1
      <3>2. CASE ~p.valid
        BY <2>1, <2>8, <3>2 DEF Sends
      <3> QED
        BY <3>1, <3>2
    <2>11. IDs(y, w, a, u, tu)
      BY <2>1, <2>2, <2>3, <2>4, <2>7, <2>9, <2>10, RemovedKeepIDs
    <2>12. /\ q \in Pages /\ q.out = << >> /\ q.fresh = FALSE
           /\ SameButtons(y, q) /\ SameIDs(y, q)
           /\ q.pending = p.pending /\ q.state = p.state /\ q.valid = p.valid
           /\ q.timer = p.timer /\ q.responsive = p.responsive /\ q.dropped = p.dropped
      BY <2>8, <2>9, PostedFacts
    <2>13. IDs(q, w, a, u, tu)
      BY <2>11, <2>12, IDsSame
    <2>14. Buttons(q)
      BY <2>9, <2>12 DEF Buttons, SameButtons
    <2>15. /\ u \in Seq(WebMessages)
           /\ \/ a /\ \E m \in Seq(WebMessages) : u = tw \o m
              \/ a = FALSE /\ u = << >>
      <3>1. Removals(removed) \in Seq(WebMessages)
        BY <2>3, RemovalsType
      <3> QED
        BY <2>1, <2>10, <3>1, SMTT(30) DEF Sends
    <2>16. /\ Typed(q, w, a, u, tu) /\ Synced(q, w, a, u, tu) /\ Loads(q, w, a, tu)
           /\ Evidence(q, w, a, u, tu)
      BY <2>1, <2>12, <2>15, <1>ListKeepsRest
    <2>17. Good(q, w, a, u, tu)
      BY <2>13, <2>14, <2>16 DEF Good
    <2>18. (a \/ y.fresh) = a
      BY <2>1, <2>9
    <2>19. Leaves(y, w, a, tw, tu)
      BY <2>8, <2>9, <2>17, <2>18 DEF Leaves
    <2> QED
      BY <2>7, <2>9, <2>19
  <1>AskKeeps.
    ASSUME NEW y \in Pages, Leaves(y, web, alive, toWeb, toUI), Ask(y)
    PROVE  Good(page, web, alive, toWeb, toUI)' /\ SameButtons(y, page')
    <2> USE <1>AskKeeps
    <2>1. /\ page' = Posted(y) /\ alive' = (alive \/ y.fresh)
          /\ toWeb' = (IF y.fresh THEN y.out ELSE Sends(alive, toWeb, y.out))
          /\ web' = web /\ toUI' = toUI
      BY DEF Ask, PageBecomes, Posted, Sends
    <2>2. Good(page', web', alive', toWeb', toUI')
      BY <2>1 DEF Leaves
    <2>3. SameButtons(y, page')
      BY <2>1, PostedFacts
    <2> QED
      BY <2>2, <2>3
  <1>SetPendingFacts.
    ASSUME NEW p \in Pages, NEW url \in Nat, NEW x, x = SetPendingAPIRequestURL(p, url)
    PROVE  /\ x.valid = p.valid /\ x.entries = p.entries /\ x.cur = p.cur
           /\ SetPendingAPIRequestURL(x, url) = x
    BY <1>SetPendingFacts DEF Pages, SetPendingAPIRequestURL
  <1>StopLoadingLeaves.
    ASSUME NEW p, NEW w, NEW a, NEW tw, NEW tu, Good(p, w, a, tw, tu),
           NEW y, y = StopLoading(p)
    PROVE  Leaves(y, w, a, tw, tu) /\ SameButtons(p, y) /\ y \in Pages
    <2> USE <1>StopLoadingLeaves
    <2>1. /\ p \in Pages /\ a \in BOOLEAN /\ tw \in Seq(WebMessages)
          /\ Leaves(p, w, a, tw, tu)
      BY <1>LeavesSame DEF Good, Typed
    <2>2. CASE p.valid
      <3>1. Asks(p, y, "StopLoading", 0)
        BY <2>2 DEF Asks, StopLoading, Requests
      <3> QED
        BY <2>1, <2>2, <3>1, <1>RequestLeaves, SMTT(30)
    <2>3. CASE ~p.valid
      BY <2>1, <2>3 DEF StopLoading, SameButtons
    <2> QED
      BY <2>2, <2>3
  <1>ReloadLeaves.
    ASSUME NEW p, NEW w, NEW a, NEW tw, NEW tu, Good(p, w, a, tw, tu),
           p.cur # 0 => p.entries[p.cur] \in Nat /\ p.entries[p.cur] \in Range(p.entries),
           NEW y, y = Reload(p)
    PROVE  Leaves(y, w, a, tw, tu) /\ SameButtons(p, y) /\ y \in Pages
    <2> USE <1>ReloadLeaves
    <2>1. /\ p \in Pages /\ a \in BOOLEAN /\ tw \in Seq(WebMessages)
          /\ Leaves(p, w, a, tw, tu)
      BY <1>LeavesSame DEF Good, Typed
    <2>2. CASE p.cur = 0 /\ p.valid
      <3>1. Asks(p, y, "Reload", 0)
        BY <2>2 DEF Asks, Reload, Requests
      <3> QED
        BY <2>1, <2>2, <3>1, <1>RequestLeaves, SMTT(30)
    <2>3. CASE p.cur = 0 /\ ~p.valid
      <3>1. y = ReattachToWebProcess(p)
        BY <2>3 DEF Reload
      <3> QED
        BY <2>3, <3>1, <1>ReattachLeaves
    <2>4. CASE p.cur # 0
      <3>1. PICK item \in Nat : item = p.entries[p.cur] /\ item \in Range(p.entries)
        BY <2>4
      <3>2. PICK x : x = SetPendingAPIRequestURL(p, item)
        OBVIOUS
      <3>3. x.entries = p.entries /\ x.cur = p.cur
        BY <2>1, <3>2, <1>SetPendingFacts
      <3>4. CASE p.valid
        <4>1. y = Request(x, "Reload", 0)
          BY <2>4, <3>1, <3>2, <3>4 DEF Reload
        <4>2. Asks(p, y, "Reload", 0)
          BY <3>2, <4>1 DEF Asks, Requests
        <4> QED
          BY <2>1, <3>4, <4>2, <1>RequestLeaves, SMTT(30)
      <3>5. CASE ~p.valid
        <4>1. item \in CurrentItem(x)
          BY <2>4, <3>1, <3>3 DEF CurrentItem
        <4>2. y = ReattachToWebProcessWithItem(x, item, TRUE)
          BY <2>4, <3>1, <3>2, <3>5 DEF Reload
        <4>3. y = Request(ReattachToWebProcess(x), "GoToBackForwardItem", item)
          BY <4>1, <4>2 DEF ReattachToWebProcessWithItem
        <4>4. "GoToBackForwardItem" \in Requests \ {"StopLoading"}
          BY DEF Requests
        <4>5. y = Request(ReattachToWebProcess(SetPendingAPIRequestURL(p, item)),
                          "GoToBackForwardItem", item)
          BY <3>2, <4>3
        <4> QED
          BY <3>1, <3>5, <4>4, <4>5, <1>ReattachAndRequestLeaves
      <3> QED
        BY <3>4, <3>5
    <2> QED
      BY <2>2, <2>3, <2>4
  <1>MovedKeeps.
    ASSUME NEW p, NEW w, NEW a, NEW tw, NEW tu, Good(p, w, a, tw, tu),
           NEW h, NEW e, NEW c, GoesTo(p, h, e, c)
    PROVE  /\ Good(h, w, a, tw, tu) /\ h.entries = e /\ h.cur = c /\ h.valid = p.valid
    <2> USE <1>MovedKeeps
    <2>1. /\ p \in Pages /\ p.out = << >> /\ p.fresh = FALSE /\ w \in Webs /\ a \in BOOLEAN
          /\ tw \in Seq(WebMessages) /\ IDs(p, w, a, tw, tu)
          /\ Typed(p, w, a, tw, tu) /\ Synced(p, w, a, tw, tu) /\ Loads(p, w, a, tu)
          /\ Evidence(p, w, a, tw, tu) /\ (a = FALSE => tw = << >>)
      BY DEF Good, Typed, Synced
    <2>2. e \in Seq(Nat) /\ Range(e) \subseteq Range(p.entries)
      BY DEF GoesTo, Splits
    <2>3. c \in Nat /\ h = SetList(p, e, c)
      BY DEF GoesTo
    <2>4. /\ h \in Pages /\ h.entries = e /\ h.cur = c /\ h.out = p.out
          /\ SameRest(p, h) /\ Buttons(h)
      BY <2>1, <2>2, <2>3, SetListFacts, SMTT(30)
    <2>5. /\ h.pending = p.pending /\ h.state = p.state /\ h.valid = p.valid
          /\ h.items = p.items /\ h.lastID = p.lastID /\ h.highest = p.highest
          /\ h.timer = p.timer /\ h.responsive = p.responsive /\ h.dropped = p.dropped
          /\ h.fresh = FALSE /\ h.out = << >>
      BY <2>1, <2>4 DEF SameRest
    <2>6. IDs(h, w, a, tw, tu)
      BY <2>1, <2>2, <2>4, <2>5, IDsShrink
    <2>7. /\ Typed(h, w, a, tw, tu) /\ Synced(h, w, a, tw, tu) /\ Loads(h, w, a, tu)
          /\ Evidence(h, w, a, tw, tu)
      <3>1. Typed(h, w, a, tw, tu)
        BY <2>1, <2>4, <2>5 DEF Typed
      <3>2. Synced(h, w, a, tw, tu) /\ Loads(h, w, a, tu)
        BY <2>1, <2>5 DEF Synced, Loads
      <3>3. Evidence(h, w, a, tw, tu)
        BY <2>1, <2>5 DEF Evidence
      <3> QED
        BY <3>1, <3>2, <3>3
    <2> QED
      BY <2>4, <2>5, <2>6, <2>7 DEF Good
  \* With a process the list stays as it is; without one it moves at once.
  <1>GoToLeaves.
    ASSUME NEW p, NEW w, NEW a, NEW tw, NEW tu, Good(p, w, a, tw, tu),
           NEW r, Good(r, w, a, tw, tu), r.valid = p.valid,
           NEW item \in Nat, item \in Range(p.entries), item \in Range(r.entries),
           NEW y, GoesOnTo(p, r, y, item)
    PROVE  /\ Leaves(y, w, a, tw, tu) /\ y \in Pages
           /\ SameButtons(IF p.valid THEN p ELSE r, y)
    <2> USE <1>GoToLeaves
    <2>1. /\ p \in Pages /\ a \in BOOLEAN /\ tw \in Seq(WebMessages)
          /\ Leaves(p, w, a, tw, tu)
      BY <1>LeavesSame DEF Good, Typed
    <2>2. "GoToBackForwardItem" \in Requests \ {"StopLoading"}
      BY DEF Requests
    <2>3. CASE p.valid
      <3>1. y = Request(SetPendingAPIRequestURL(p, item), "GoToBackForwardItem", item)
        BY <2>3 DEF GoesOnTo
      <3>2. Asks(p, y, "GoToBackForwardItem", item)
        BY <2>2, <3>1 DEF Asks
      <3>3. Leaves(y, w, a, tw, tu) /\ SameButtons(p, y) /\ y \in Pages
        BY <2>1, <2>3, <3>2, <1>RequestLeaves, SMTT(30)
      <3> QED
        BY <2>3, <3>3
    <2>4. CASE ~p.valid
      <3>1. \/ y = Request(ReattachToWebProcess(r), "GoToBackForwardItem", item)
            \/ y = Request(ReattachToWebProcess(SetPendingAPIRequestURL(r, item)),
                           "GoToBackForwardItem", item)
        BY <2>4 DEF GoesOnTo
      <3>2. ~r.valid
        BY <2>4
      <3>3. Leaves(y, w, a, tw, tu) /\ SameButtons(r, y) /\ y \in Pages
        BY <2>2, <3>1, <3>2, <1>ReattachAndRequestLeaves
      <3> QED
        BY <2>4, <3>3
    <2> QED
      BY <2>3, <2>4
  <1>PendingAndList.
    ASSUME NEW p \in Pages, NEW url \in Nat, NEW e, NEW c
    PROVE  SetList(SetPendingAPIRequestURL(p, url), e, c)
             = SetPendingAPIRequestURL(SetList(p, e, c), url)
    <2>1. PICK b : b = (BackItem(e, c) # {})
      OBVIOUS
    <2>2. PICK f : f = (ForwardItem(e, c) # {})
      OBVIOUS
    <2>3. PICK x : x = SetPendingAPIRequestURL(p, url)
      OBVIOUS
    <2>4. x = [p EXCEPT !.pending = url, !.dropped = FALSE]
      BY <2>3 DEF SetPendingAPIRequestURL
    <2>5. SetList(p, e, c) = [p EXCEPT !.entries = e, !.cur = c, !.canGoBack = b,
                                       !.canGoForward = f, !.announced = TRUE]
      BY <2>1, <2>2 DEF SetList, DidChangeBackForwardList, Pages
    <2>6. SetList(x, e, c) = [x EXCEPT !.entries = e, !.cur = c, !.canGoBack = b,
                                       !.canGoForward = f, !.announced = TRUE]
      BY <2>1, <2>2, <2>4 DEF SetList, DidChangeBackForwardList, Pages
    <2>7. [x EXCEPT !.entries = e, !.cur = c, !.canGoBack = b,
                    !.canGoForward = f, !.announced = TRUE]
            = [[p EXCEPT !.entries = e, !.cur = c, !.canGoBack = b,
                         !.canGoForward = f, !.announced = TRUE]
                 EXCEPT !.pending = url, !.dropped = FALSE]
      BY <2>4 DEF Pages
    <2> QED
      BY <2>3, <2>5, <2>6, <2>7 DEF SetPendingAPIRequestURL
  <1>GoToUnfolds.
    ASSUME NEW p \in Pages, NEW item \in Nat, NEW keep, NEW y,
           \/ y = GoToBackForwardItem(p, item, keep) \/ y = GoToNeighbour(p, item, keep)
    PROVE  GoesOnTo(p, Moved(p, item, keep), y, item)
    <2> USE <1>GoToUnfolds
    <2>1. PICK x : x = SetPendingAPIRequestURL(p, item)
      OBVIOUS
    <2>2. /\ x.valid = p.valid /\ x.entries = p.entries /\ x.cur = p.cur
          /\ SetPendingAPIRequestURL(x, item) = x
      BY <2>1, <1>SetPendingFacts
    <2>3. PICK r : r = Moved(p, item, keep)
      OBVIOUS
    <2>4. CASE y = GoToBackForwardItem(p, item, keep)
      BY <2>3, <2>4
         DEF GoToBackForwardItem, ReattachToWebProcessWithItem, Moved, GoesOnTo
    <2>5. CASE y = GoToNeighbour(p, item, keep) /\ p.valid
      BY <2>1, <2>2, <2>5 DEF GoToNeighbour, GoToBackForwardItem, GoesOnTo
    <2>6. CASE y = GoToNeighbour(p, item, keep) /\ ~p.valid
      <3>1. CurrentItem(x) = CurrentItem(p)
        BY <2>2 DEF CurrentItem
      <3>2. Moved(x, item, keep) = SetPendingAPIRequestURL(r, item)
        <4>1. CASE item \in CurrentItem(p)
          BY <2>1, <2>3, <3>1, <4>1 DEF Moved
        <4>2. CASE item \notin CurrentItem(p)
          <5>1. r = GoToItem(p, item, keep) /\ Moved(x, item, keep) = GoToItem(x, item, keep)
            BY <2>3, <3>1, <4>2 DEF Moved
          <5>2. PICK e : e = EntriesAfterGoTo(p.entries, p.cur, item, keep)
            OBVIOUS
          <5>3. SetList(x, e, IndexOf(e, item))
                  = SetPendingAPIRequestURL(SetList(p, e, IndexOf(e, item)), item)
            BY <2>1, <1>PendingAndList
          <5>4. CASE CanGoTo(p.entries, p.cur, item)
            BY <2>2, <5>1, <5>2, <5>3, <5>4 DEF GoToItem
          <5>5. CASE ~CanGoTo(p.entries, p.cur, item)
            BY <2>1, <2>2, <5>1, <5>5 DEF GoToItem
          <5> QED
            BY <5>4, <5>5
        <4> QED
          BY <4>1, <4>2
      <3>3. y = Request(ReattachToWebProcess(Moved(x, item, keep)),
                        "GoToBackForwardItem", item)
        BY <2>1, <2>2, <2>6
           DEF GoToNeighbour, GoToBackForwardItem, ReattachToWebProcessWithItem, Moved
      <3> QED
        BY <2>3, <2>6, <3>2, <3>3 DEF GoesOnTo
    <2> QED
      BY <2>4, <2>5, <2>6
  \* What a client asks for leaves the list alone.
  <1>PlainAsk.
    ASSUME NEW y \in Pages, Leaves(y, web, alive, toWeb, toUI), Ask(y),
           SameButtons(page, y)
    PROVE  Good(page, web, alive, toWeb, toUI)' /\ [List!Next]_(List!vars)
    <2> USE <1>PlainAsk
    <2>1. Good(page, web, alive, toWeb, toUI)' /\ SameButtons(y, page')
      BY <1>AskKeeps
    <2>2. SameButtons(page, page')
      BY <2>1 DEF SameButtons
    <2> QED
      BY <2>1, <2>2, SameList
  <1>GoToAsk.
    ASSUME Good(page, web, alive, toWeb, toUI), List!ListOK,
           NEW item \in Range(page.entries), NEW keep \in BOOLEAN, NEW y, Ask(y),
           \/ y = GoToBackForwardItem(page, item, keep)
           \/ y = GoToNeighbour(page, item, keep)
    PROVE  Good(page, web, alive, toWeb, toUI)' /\ [List!Next]_(List!vars)
    <2> USE <1>GoToAsk
    <2>1. PICK r : r = Moved(page, item, keep)
      OBVIOUS
    <2>2. page \in Pages /\ item \in Nat
      <3>1. page \in Pages
        BY DEF Good, Typed
      <3> QED
        BY <3>1, ListFacts
    <2>3. GoesOnTo(page, r, y, item)
      BY <2>1, <2>2, <1>GoToUnfolds
    <2>4. CASE r = page
      <3>1. /\ Leaves(y, web, alive, toWeb, toUI) /\ y \in Pages
            /\ SameButtons(IF page.valid THEN page ELSE r, y)
        BY <2>2, <2>3, <2>4, <1>GoToLeaves
      <3>2. SameButtons(page, y)
        BY <2>4, <3>1
      <3> QED
        BY <3>1, <3>2, <1>PlainAsk
    <2>5. CASE CanGoTo(page.entries, page.cur, item) /\ r = GoToItem(page, item, keep)
      <3>1. PICK e : e = EntriesAfterGoTo(page.entries, page.cur, item, keep)
        OBVIOUS
      <3>2. PICK c : c = IndexOf(e, item)
        OBVIOUS
      <3>3. /\ e \in Seq(Nat) /\ Range(e) \subseteq Range(page.entries)
            /\ c \in 1 .. Len(e) /\ item \in Range(e)
        BY <2>5, <3>1, <3>2, GoToOnPage
      <3>4. c \in Nat
        BY <3>3, SMTT(30)
      <3>5. r = SetList(page, e, c)
        BY <2>5, <3>1, <3>2 DEF GoToItem
      <3>6. GoesTo(page, r, e, c)
        BY <3>3, <3>4, <3>5, NothingSplits DEF GoesTo
      <3>7. /\ Good(r, web, alive, toWeb, toUI) /\ r.entries = e /\ r.cur = c
            /\ r.valid = page.valid
        BY <3>6, <1>MovedKeeps
      <3>8. item \in Range(r.entries)
        BY <3>3, <3>7
      <3>9. /\ Leaves(y, web, alive, toWeb, toUI) /\ y \in Pages
            /\ SameButtons(IF page.valid THEN page ELSE r, y)
        BY <2>2, <2>3, <3>7, <3>8, <1>GoToLeaves
      <3>10. Good(page, web, alive, toWeb, toUI)' /\ SameButtons(y, page')
        BY <3>9, <1>AskKeeps
      <3>11. CASE page.valid
        <4>1. SameButtons(page, page')
          BY <3>9, <3>10, <3>11 DEF SameButtons
        <4> QED
          BY <3>10, <4>1, SameList
      <3>12. CASE ~page.valid
        <4>1. page'.entries = e /\ page'.cur = c
          BY <3>7, <3>9, <3>10, <3>12 DEF SameButtons
        <4>2. /\ page'.entries = EntriesAfterGoTo(page.entries, page.cur, item, keep)
              /\ page'.cur = IndexOf(page'.entries, item)
          BY <3>1, <3>2, <4>1
        <4>3. List!Next
          BY <2>5, <4>2, GoToIsListStep
        <4> QED
          BY <3>10, <4>3
      <3> QED
        BY <3>11, <3>12
    <2>6. r = page \/ (CanGoTo(page.entries, page.cur, item)
                         /\ r = GoToItem(page, item, keep))
      BY <2>1 DEF Moved, GoToItem
    <2> QED
      BY <2>4, <2>5, <2>6
  <1>NeighboursAreListed.
    ASSUME List!ListOK,
           NEW item \in BackItem(page.entries, page.cur)
                          \cup ForwardItem(page.entries, page.cur)
    PROVE  item \in Range(page.entries)
    <2> USE <1>NeighboursAreListed
    <2>1. /\ Len(page.entries) \in Nat /\ page.cur \in Nat
          /\ page.cur # 0 => page.cur \in 1 .. Len(page.entries)
          /\ \A i \in 1 .. Len(page.entries) : page.entries[i] \in Range(page.entries)
      BY ListFacts
    <2>2. CASE item \in BackItem(page.entries, page.cur)
      BY <2>1, <2>2, SMTT(30) DEF BackItem
    <2>3. CASE item \in ForwardItem(page.entries, page.cur)
      BY <2>1, <2>3, SMTT(30) DEF ForwardItem
    <2> QED
      BY <2>2, <2>3
  <1>RestoreAsk.
    ASSUME Good(page, web, alive, toWeb, toUI), NEW n \in 1 .. MaxRestored,
           NEW i \in 1 .. n, NEW url \in BOOLEAN, NEW y, Ask(y),
           y = RestoreFromSessionState(page, n, i, url)
    PROVE  Good(page, web, alive, toWeb, toUI)' /\ List!Next
    <2> USE <1>RestoreAsk
    <2>1. n \in Nat /\ n \in 1 .. Capacity
      BY NavigationAssumption, CapacityAssumption, SMTT(30)
    <2>2. /\ Leaves(y, web, alive, toWeb, toUI) /\ y \in Pages
          /\ y.entries = RestoredList(page, n) /\ y.cur = i
      BY <2>1, <1>RestoreLeaves, SMTT(30)
    <2>3. Good(page, web, alive, toWeb, toUI)' /\ SameButtons(y, page')
      BY <2>2, <1>AskKeeps
    <2>4. page'.entries = [k \in 1 .. n |-> page.lastID + 2 * k] /\ page'.cur = i
      BY <2>2, <2>3 DEF SameButtons, RestoredList
    <2>5. page.lastID \in Nat
      <3>1. page \in Pages
        BY DEF Good, Typed
      <3> QED
        BY <3>1 DEF Pages
    <2>6. List!Next
      BY <2>1, <2>4, <2>5, RestoreIsListStep
    <2> QED
      BY <2>3, <2>6
  <1>RemoveAllAsk.
    ASSUME Good(page, web, alive, toWeb, toUI), NEW y, Ask(y), y = RemoveAllItems(page)
    PROVE  Good(page, web, alive, toWeb, toUI)' /\ List!Next
    <2> USE <1>RemoveAllAsk
    <2>1. /\ Leaves(y, web, alive, toWeb, toUI) /\ y \in Pages
          /\ y.entries = << >> /\ y.cur = 0
      BY <1>RemoveAllLeaves
    <2>2. Good(page, web, alive, toWeb, toUI)' /\ SameButtons(y, page')
      BY <2>1, <1>AskKeeps
    <2>3. page'.entries = << >> /\ page'.cur = 0
      BY <2>1, <2>2 DEF SameButtons
    <2>4. List!Next
      BY <2>3 DEF List!Next, List!RemoveAllItems
    <2> QED
      BY <2>2, <2>4
  <1>AskKeepsGood.
    ASSUME Good(page, web, alive, toWeb, toUI), List!ListOK, Client
    PROVE  Good(page, web, alive, toWeb, toUI)' /\ [List!Next]_(List!vars)
    <2> USE <1>AskKeepsGood
    <2>1. CASE Ask(LoadRequest(page))
      <3>1. PICK y : y = LoadRequest(page)
        OBVIOUS
      <3>2. /\ page \in Pages /\ alive \in BOOLEAN /\ toWeb \in Seq(WebMessages)
            /\ Leaves(page, web, alive, toWeb, toUI)
        BY <1>LeavesSame DEF Good, Typed
      <3>3. Leaves(y, web, alive, toWeb, toUI) /\ SameButtons(page, y) /\ y \in Pages
        BY <3>1, <3>2, <1>LoadRequestLeaves, SMTT(30)
      <3> QED
        BY <2>1, <3>1, <3>3, <1>PlainAsk
    <2>2. CASE Ask(StopLoading(page))
      <3>1. PICK y : y = StopLoading(page)
        OBVIOUS
      <3>2. Leaves(y, web, alive, toWeb, toUI) /\ SameButtons(page, y) /\ y \in Pages
        BY <3>1, <1>StopLoadingLeaves
      <3> QED
        BY <2>2, <3>1, <3>2, <1>PlainAsk
    <2>3. CASE Ask(Reload(page))
      <3>1. PICK y : y = Reload(page)
        OBVIOUS
      <3>2. page.cur # 0 => /\ page.entries[page.cur] \in Nat
                            /\ page.entries[page.cur] \in Range(page.entries)
        BY ListFacts
      <3>3. Leaves(y, web, alive, toWeb, toUI) /\ SameButtons(page, y) /\ y \in Pages
        BY <3>1, <3>2, <1>ReloadLeaves
      <3> QED
        BY <2>3, <3>1, <3>3, <1>PlainAsk
    <2>4. CASE Ask(RemoveAllItems(page))
      BY <2>4, <1>RemoveAllAsk
    <2>5. CASE \E item \in BackItem(page.entries, page.cur)
                             \cup ForwardItem(page.entries, page.cur), keep \in BOOLEAN :
                 Ask(GoToNeighbour(page, item, keep))
      <3>1. PICK item \in BackItem(page.entries, page.cur)
                            \cup ForwardItem(page.entries, page.cur), keep \in BOOLEAN :
              Ask(GoToNeighbour(page, item, keep))
        BY <2>5
      <3>2. item \in Range(page.entries)
        BY <1>NeighboursAreListed
      <3> QED
        BY <3>1, <3>2, <1>GoToAsk
    <2>6. CASE \E item \in Range(page.entries), keep \in BOOLEAN :
                 Ask(GoToBackForwardItem(page, item, keep))
      BY <2>6, <1>GoToAsk
    <2>7. CASE \E n \in 1 .. MaxRestored, url \in BOOLEAN :
                 \E i \in 1 .. n : Ask(RestoreFromSessionState(page, n, i, url))
      BY <2>7, <1>RestoreAsk
    <2> QED
      BY <2>1, <2>2, <2>3, <2>4, <2>5, <2>6, <2>7 DEF Client
  <1> QED
    BY <1>AskKeepsGood

-----------------------------------------------------------------------------
(* The initial state, and what follows for a state that is Good.           *)

LEMMA InitIsGood ==
  ASSUME Init
  PROVE  Good(page, web, alive, toWeb, toUI)
  <1>1. PICK p : p = [NewWebPageProxy EXCEPT !.out = << >>]
    OBVIOUS
  <1>2. PICK m : m = [type |-> "CreateWebPage", items |-> {}, highest |-> 0]
    OBVIOUS
  <1>3. PICK w : w = Web!NewWebProcess
    OBVIOUS
  <1>4. m \in WebMessages /\ m.type = "CreateWebPage" /\ m.items = {} /\ m.highest = 0
    BY <1>2 DEF WebMessages
  <1>5. NewWebPageProxy.out = <<m>>
    BY <1>2 DEF NewWebPageProxy
  <1>6. /\ p.entries = << >> /\ p.cur = 0 /\ p.canGoBack = FALSE /\ p.canGoForward = FALSE
        /\ p.pending = 0 /\ p.state = "Finished" /\ p.valid = TRUE /\ p.items = {}
        /\ p.lastID = 0 /\ p.highest = 0 /\ p.timer = FALSE /\ p.responsive = TRUE
        /\ p.announced = TRUE /\ p.dropped = FALSE /\ p.out = << >> /\ p.fresh = FALSE
    BY <1>1 DEF NewWebPageProxy
  <1>7. p \in Pages
    <2>1. << >> \in Seq(Nat) /\ << >> \in Seq(WebMessages) /\ "Finished" \in States
      BY SMTT(30) DEF States
    <2> QED
      BY <1>1, <2>1 DEF NewWebPageProxy, Pages
  <1>8. /\ w \in Webs /\ w.out = << >> /\ w.loader = "Finished" /\ w.wait = "no"
        /\ w.handling = FALSE /\ Ready(w) /\ w.known = {} /\ w.uniqueHistoryItemID = 1
    BY <1>3, NewWebProcessFacts
  <1>9. /\ <<m>> \in Seq(WebMessages) /\ << >> \in Seq(UIMessages) /\ TRUE \in BOOLEAN
    BY <1>4, SMTT(30)
  <1>10. Typed(p, w, TRUE, <<m>>, << >>)
    BY <1>6, <1>7, <1>8, <1>9 DEF Typed
  <1>11. Synced(p, w, TRUE, <<m>>, << >>)
    BY <1>6, <1>8, WaitsForNothing DEF Synced
  <1>12. Loads(p, w, TRUE, << >>)
    <2>1. "Finished" \in States
      BY DEF States
    <2> QED
      BY <1>6, <1>8, <2>1, ToldNothing DEF Loads
  <1>13. Evidence(p, w, TRUE, <<m>>, << >>)
    BY <1>6 DEF Evidence
  <1>14. Range(p.entries) = {}
    BY <1>6, SMTT(30) DEF Range
  <1>15. IDs(p, w, FALSE, << >>, << >>)
    <2>1. Counted(p, w, FALSE, << >>, << >>)
      BY <1>6, <1>8, <1>14, SMTT(30) DEF Counted, Odd
    <2>2. InWeb(p, w, << >>) /\ InUI(p, w, FALSE, << >>, << >>)
      BY SMTT(30) DEF InWeb, InUI
    <2>3. Known(p, w, FALSE, << >>, << >>)
      BY DEF Known
    <2> QED
      BY <2>1, <2>2, <2>3 DEF IDs
  <1>16. IDs(p, w, TRUE, <<m>>, << >>)
    BY <1>3, <1>4, <1>6, <1>7, <1>14, <1>15, IDsReattach
  <1>17. Buttons(p)
    <2>1. BackItem(p.entries, p.cur) = {} /\ ForwardItem(p.entries, p.cur) = {}
      BY <1>6, SMTT(30) DEF BackItem, ForwardItem
    <2> QED
      BY <1>6, <2>1 DEF Buttons
  <1>18. Good(p, w, TRUE, <<m>>, << >>)
    BY <1>10, <1>11, <1>12, <1>13, <1>16, <1>17 DEF Good
  <1>19. /\ page = p /\ web = w /\ alive = TRUE /\ toWeb = <<m>> /\ toUI = << >>
    BY <1>1, <1>3, <1>5 DEF Init
  <1> QED
    BY <1>18, <1>19

LEMMA GoodNames ==
  ASSUME Good(page, web, alive, toWeb, toUI)
  PROVE  NamedItemsAreKnown
  <1>1. /\ page \in Pages /\ web \in Webs /\ alive \in BOOLEAN
        /\ toWeb \in Seq(WebMessages) /\ toUI \in Seq(UIMessages)
        /\ InUI(page, web, alive, toWeb, toUI) /\ Known(page, web, alive, toWeb, toUI)
    BY DEF Good, Typed, IDs
  <1>2. ASSUME alive, toWeb # << >>, Head(toWeb).type = "GoToBackForwardItem"
        PROVE  Head(toWeb).id \in web.known
    <2>1. PICK k \in SUBSET Nat : Teaches(toWeb, web.known, k)
      BY <1>1, <1>2 DEF Known
    <2>2. PICK f \in [0 .. Len(toWeb) -> SUBSET Nat] :
            /\ f[0] = web.known
            /\ \A i \in 1 .. Len(toWeb) :
                 toWeb[i].type = "GoToBackForwardItem" => toWeb[i].id \in f[i - 1]
      BY <2>1 DEF Teaches
    <2>3. 1 \in 1 .. Len(toWeb) /\ Head(toWeb) = toWeb[1] /\ 1 - 1 = 0
      BY <1>1, <1>2, SMTT(30)
    <2> QED
      BY <1>2, <2>2, <2>3
  <1>3. ASSUME toUI # << >>, Head(toUI).type = "BackForwardAddItem"
        PROVE  Head(toUI).id \in page.items
    <2>1. 1 \in 1 .. Len(toUI) /\ Head(toUI) = toUI[1]
      BY <1>1, <1>3, SMTT(30)
    <2> QED
      BY <1>1, <1>3, <2>1 DEF InUI
  <1> QED
    BY <1>2, <1>3 DEF NamedItemsAreKnown

LEMMA GoodIsFresh ==
  ASSUME Good(page, web, alive, toWeb, toUI)
  PROVE  IDsAreFresh
  <1>1. /\ page \in Pages /\ web \in Webs
        /\ Counted(page, web, alive, toWeb, toUI)
    BY DEF Good, Typed, IDs
  <1>2. PICK n \in Nat : n = web.uniqueHistoryItemID
    BY <1>1 DEF Webs
  <1>3. Odd(n + 2) /\ ~(n + 2 <= n)
    <2>1. Odd(n)
      BY <1>1, <1>2 DEF Counted
    <2>2. Odd(n + 2)
      BY <2>1, ParityFacts
    <2>3. ~(n + 2 <= n)
      BY SMTT(30)
    <2> QED
      BY <2>2, <2>3
  <1>4. ASSUME alive, web.created
        PROVE  n + 2 \notin page.items \cup web.known \cup Range(page.entries)
    <2>1. /\ \A i \in page.items \cup web.known : Odd(i) => i <= n
          /\ Range(page.entries) \subseteq page.items
      BY <1>1, <1>2, <1>4 DEF Counted
    <2> QED
      BY <1>3, <2>1
  <1> QED
    BY <1>2, <1>4 DEF IDsAreFresh

LEMMA GoodIsInOrder ==
  ASSUME Good(page, web, alive, toWeb, toUI)
  PROVE  LoadEventsInOrder
  <1>1. toUI \in Seq(UIMessages) /\ Loads(page, web, alive, toUI)
    BY DEF Good, Typed
  <1>2. PICK s \in States : Told(toUI, page.state, s)
    BY <1>1 DEF Loads
  <1>3. toUI # << >> => InOrder(page.state, Head(toUI).type)
    BY <1>1, <1>2, ToldTail
  <1> QED
    BY <1>3 DEF InOrder, LoadEventsInOrder

LEMMA GoodIsReal ==
  ASSUME Good(page, web, alive, toWeb, toUI)
  PROVE  LoadingIsReal
  <1>1. /\ page \in Pages /\ alive \in BOOLEAN /\ Synced(page, web, alive, toWeb, toUI)
        /\ Loads(page, web, alive, toUI) /\ Evidence(page, web, alive, toWeb, toUI)
    BY DEF Good, Typed
  <1>2. PICK E : E = {"DidStartProvisionalLoad", "DidFailProvisionalLoad",
                      "DidFinishLoad", "DidFailLoad", "DidSameDocumentNavigation"}
    OBVIOUS
  <1>3. Answers \subseteq E /\ Stops \subseteq E
    BY <1>2 DEF Answers, Stops
  <1>4. (Sent(toUI, Answers) => Sent(toUI, E)) /\ (Sent(toUI, Stops) => Sent(toUI, E))
    BY <1>3 DEF Sent
  <1>5. CASE ~page.valid
    BY <1>1, <1>5 DEF Synced, LoadingIsReal, IsLoading
  <1>6. CASE page.valid /\ ~alive
    BY <1>6 DEF LoadingIsReal
  <1>7. CASE alive /\ page.pending # 0
    <2>1. \/ page.dropped \/ Sent(toWeb, Requests \ {"StopLoading"})
          \/ web.wait \in Backed \/ Sent(toUI, Answers)
      BY <1>1, <1>7 DEF Evidence
    <2>2. web.wait \in Backed => web.wait # "no"
      BY DEF Backed
    <2> QED
      BY <1>2, <1>4, <2>1, <2>2 DEF LoadingIsReal
  <1>8. CASE alive /\ page.state # "Finished"
    <2>1. web.loader # "Finished" \/ Sent(toUI, Stops)
      BY <1>1, <1>8 DEF Loads, Told
    <2> QED
      BY <1>2, <1>4, <2>1 DEF LoadingIsReal
  <1> QED
    BY <1>5, <1>6, <1>7, <1>8 DEF LoadingIsReal, IsLoading

LEMMA GoodIsResponsive ==
  ASSUME Good(page, web, alive, toWeb, toUI)
  PROVE  UnresponsiveIsReal
  <1>1. Evidence(page, web, alive, toWeb, toUI)
    BY DEF Good
  <1> QED
    BY <1>1 DEF Evidence, UnresponsiveIsReal, Done

-----------------------------------------------------------------------------
(* The invariant, and what it shows.                                       *)

LEMMA InitIsList ==
  ASSUME Init
  PROVE  List!Init /\ List!ListOK
  <1>1. page.entries = << >> /\ page.cur = 0
    BY DEF Init, NewWebPageProxy
  <1>2. List!Init
    BY <1>1 DEF List!Init
  <1>3. List!ListOK
    BY <1>1, EmptyIsList, ListIsList
  <1> QED
    BY <1>2, <1>3

\* The inductive invariant: what the two processes know of each other, and
\* what the list is.
Inv == Good(page, web, alive, toWeb, toUI) /\ List!ListOK

LEMMA NextKeeps ==
  ASSUME Inv, [Next]_vars
  PROVE  Inv' /\ [List!Next]_(List!vars)
  <1>1. Good(page, web, alive, toWeb, toUI) /\ List!ListOK
    BY DEF Inv
  <1>2. Good(page, web, alive, toWeb, toUI)' /\ [List!Next]_(List!vars)
    <2>1. CASE Client
      BY <1>1, <2>1, ClientKeeps
    <2>2. CASE DispatchMessage
      BY <1>1, <2>2, DispatchMessageKeeps
    <2>3. CASE Crash \/ TerminateProcess \/ ProcessDidCrash \/ ResponsivenessTimerFired
      BY <1>1, <2>3, LossKeeps, SameList
    <2>4. CASE HandleMessage \/ GoOn \/ Load \/ PageActs
      BY <1>1, <2>4, WebProcessKeeps, SameList
    <2>5. CASE UNCHANGED vars
      <3>1. /\ page' = page /\ web' = web /\ alive' = alive
            /\ toWeb' = toWeb /\ toUI' = toUI
        BY <2>5 DEF vars
      <3>2. Good(page', web', alive', toWeb', toUI')
        BY <1>1, <3>1
      <3>3. List!vars' = List!vars
        BY <3>1 DEF List!vars
      <3> QED
        BY <3>2, <3>3
    <2> QED
      BY <2>1, <2>2, <2>3, <2>4, <2>5 DEF Next
  <1>3. List!ListOK'
    BY <1>1, <1>2, ListOKKept
  <1> QED
    BY <1>2, <1>3 DEF Inv

LEMMA InvHolds == Spec => []Inv
  <1>1. Init => Inv
    BY InitIsGood, InitIsList DEF Inv
  <1>2. Inv /\ [Next]_vars => Inv'
    BY NextKeeps
  <1> QED
    BY <1>1, <1>2, PTL DEF Spec

\* The list of a page, as WebPageProxy and its messages change it, is the list
\* WebBackForwardList promises, for any number of requests, page actions and
\* restored items: each step of Navigation is one addItem, goToItem or clear
\* of BackForwardList, or leaves the list alone.
THEOREM ListImplemented == Spec => ListSpec
  <1>1. Init => List!Init
    BY InitIsList
  <1>2. Inv /\ [Next]_vars => [List!Next]_(List!vars)
    BY NextKeeps
  <1> QED
    BY <1>1, <1>2, InvHolds, PTL DEF Spec, ListSpec, List!Spec

\* Through every crash, replacement, restored list and late message the list
\* of a page has a current item exactly if it has entries, holds no item twice
\* and no more items than its capacity (ASSERT(!m_hasCurrentIndex ||
\* m_currentIndex < m_entries.size()) throughout WebBackForwardList.cpp).
THEOREM ListStaysWellFormed == Spec => []List!ListOK
  <1>1. Inv => List!ListOK
    BY DEF Inv
  <1> QED
    BY <1>1, InvHolds, PTL

\* The process that handles a message knows the item it names, however many
\* items were added, restored and removed and however often the web process
\* ended: ASSERT(item) in WebPage::goToBackForwardItem holds, and
\* WebPageProxy::backForwardAddItem finds its item.
THEOREM ItemsAreKnown == Spec => []NamedItemsAreKnown
  <1>1. Inv => NamedItemsAreKnown
    BY GoodNames DEF Inv
  <1> QED
    BY <1>1, InvHolds, PTL

\* WebBackForwardListProxy::addItem never gives out an ID twice: the UI
\* process's IDs are even, and a web process starts beyond all odd ones it is
\* told of at its creation.
THEOREM IDsStayFresh == Spec => []IDsAreFresh
  <1>1. Inv => IDsAreFresh
    BY GoodIsFresh DEF Inv
  <1> QED
    BY <1>1, InvHolds, PTL

\* canGoBack and canGoForward, as clients of PageLoadState last heard of them,
\* agree with the list, but for the time after restoreFromState.
THEOREM CanGoStaysCurrent == Spec => []CanGoIsCurrent
  <1>1. Inv => CanGoIsCurrent
    BY DEF Inv, Good, Buttons, CanGoIsCurrent
  <1> QED
    BY <1>1, InvHolds, PTL

\* The assertions of PageLoadState's didStartProvisionalLoad,
\* didFailProvisionalLoad, didCommitLoad, didFinishLoad and didFailLoad hold,
\* whichever loads are interrupted and however the web process ends.
THEOREM LoadEventsStayInOrder == Spec => []LoadEventsInOrder
  <1>1. Inv => LoadEventsInOrder
    BY GoodIsInOrder DEF Inv
  <1> QED
    BY <1>1, InvHolds, PTL

\* PageLoadState::isLoading is never left true with nothing behind it, except
\* by a request the web process dropped.
THEOREM LoadingStaysReal == Spec => []LoadingIsReal
  <1>1. Inv => LoadingIsReal
    BY GoodIsReal DEF Inv
  <1> QED
    BY <1>1, InvHolds, PTL

\* ResponsivenessTimer runs, and the process counts as unresponsive, only
\* while WebPage has a request to handle or its StopResponsivenessTimer is on
\* the way.
THEOREM UnresponsiveStaysReal == Spec => []UnresponsiveIsReal
  <1>1. Inv => UnresponsiveIsReal
    BY GoodIsResponsive DEF Inv
  <1> QED
    BY <1>1, InvHolds, PTL

-----------------------------------------------------------------------------
(* The list by itself, with any items.                                     *)

CONSTANT Items

VARIABLES entries, cur

AnyList == INSTANCE BackForwardList

LEMMA AnyListHelpers ==
  /\ \A e, c, i, k : AnyList!EntriesAfterAdd(e, c, i, k) = EntriesAfterAdd(e, c, i, k)
  /\ \A e, c, i, k : AnyList!EntriesAfterGoTo(e, c, i, k) = EntriesAfterGoTo(e, c, i, k)
  /\ \A e, c : AnyList!EntriesAfterClear(e, c) = EntriesAfterClear(e, c)
  /\ \A e, i : AnyList!IsListed(e, i) <=> IsListed(e, i)
  /\ \A e, c, i : AnyList!CanGoTo(e, c, i) <=> CanGoTo(e, c, i)
  /\ \A e, i : AnyList!IndexOf(e, i) = IndexOf(e, i)
  /\ \A e : AnyList!Range(e) = Range(e)
  <1>1. \A e, c : AnyList!KeptByAdd(e, c) = KeptByAdd(e, c)
    BY DEF AnyList!KeptByAdd, KeptByAdd, AnyList!TossesFirst, TossesFirst
  <1>2. \A e, c, i, k : AnyList!EntriesAfterAdd(e, c, i, k) = EntriesAfterAdd(e, c, i, k)
    BY <1>1 DEF AnyList!EntriesAfterAdd, EntriesAfterAdd
  <1>3. \A e, c, i, k : AnyList!EntriesAfterGoTo(e, c, i, k) = EntriesAfterGoTo(e, c, i, k)
    BY DEF AnyList!EntriesAfterGoTo, EntriesAfterGoTo, AnyList!RemoveEntry, RemoveEntry
  <1>4. \A e, c : AnyList!EntriesAfterClear(e, c) = EntriesAfterClear(e, c)
    BY DEF AnyList!EntriesAfterClear, EntriesAfterClear
  <1>5. \A e, i : AnyList!IsListed(e, i) <=> IsListed(e, i)
    BY DEF AnyList!IsListed, IsListed
  <1>6. \A e, c, i : AnyList!CanGoTo(e, c, i) <=> CanGoTo(e, c, i)
    BY <1>5 DEF AnyList!CanGoTo, CanGoTo
  <1>7. \A e, i : AnyList!IndexOf(e, i) = IndexOf(e, i)
    BY DEF AnyList!IndexOf, IndexOf
  <1>8. \A e : AnyList!Range(e) = Range(e)
    BY DEF AnyList!Range, Range
  <1> QED
    BY <1>2, <1>3, <1>4, <1>5, <1>6, <1>7, <1>8

LEMMA AnyListIsList ==
  /\ AnyList!ListOK <=> IsList(entries, cur, Items)
  /\ AnyList!ListOK' <=> IsList(entries', cur', Items)
  BY DEF AnyList!ListOK, IsList, Distinct

LEMMA AnyListOKKept ==
  ASSUME AnyList!ListOK, [AnyList!Next]_(AnyList!vars)
  PROVE  AnyList!ListOK'
  <1>1. PICK e : e = entries
    OBVIOUS
  <1>2. PICK c : c = cur
    OBVIOUS
  <1>3. PICK f : f = entries'
    OBVIOUS
  <1>4. PICK k : k = cur'
    OBVIOUS
  <1>5. PICK I : I = Items
    OBVIOUS
  <1>6. IsList(e, c, I)
    BY <1>1, <1>2, <1>5, AnyListIsList
  <1>7. SUFFICES IsList(f, k, I)
    BY <1>3, <1>4, <1>5, AnyListIsList
  <1>8. CASE AnyList!AddItem
    <2>1. PICK item \in I, keep \in BOOLEAN :
            ~IsListed(e, item) /\ f = EntriesAfterAdd(e, c, item, keep) /\ k = Len(f)
      BY <1>1, <1>2, <1>3, <1>4, <1>5, <1>8, AnyListHelpers DEF AnyList!AddItem
    <2> QED
      BY <1>6, <2>1, AddIsList
  <1>9. CASE AnyList!GoToItem
    <2>1. PICK item, keep : /\ keep \in BOOLEAN /\ CanGoTo(e, c, item)
                            /\ f = EntriesAfterGoTo(e, c, item, keep)
                            /\ k = IndexOf(f, item)
      BY <1>1, <1>2, <1>3, <1>4, <1>9, AnyListHelpers DEF AnyList!GoToItem
    <2> QED
      BY <1>6, <2>1, GoToIsList
  <1>10. CASE AnyList!Clear
    <2>1. f = EntriesAfterClear(e, c) /\ k = Len(f)
      BY <1>1, <1>2, <1>3, <1>4, <1>10, AnyListHelpers DEF AnyList!Clear
    <2> QED
      BY <1>6, <2>1, ClearIsList
  <1>11. CASE AnyList!RemoveAllItems
    <2>1. f = << >> /\ k = 0
      BY <1>3, <1>4, <1>11 DEF AnyList!RemoveAllItems
    <2> QED
      BY <2>1, EmptyIsList
  <1>12. CASE AnyList!RestoreFromState
    <2>1. PICK n \in 1 .. Capacity : f \in [1 .. n -> I]
      BY <1>3, <1>5, <1>12 DEF AnyList!RestoreFromState
    <2>2. Distinct(f) /\ k \in 1 .. Len(f)
      BY <1>3, <1>4, <1>12 DEF AnyList!RestoreFromState, Distinct
    <2> QED
      BY <2>1, <2>2, RestoredIsList
  <1>13. CASE UNCHANGED AnyList!vars
    <2>1. f = e /\ k = c
      BY <1>1, <1>2, <1>3, <1>4, <1>13 DEF AnyList!vars
    <2> QED
      BY <1>6, <2>1
  <1> QED
    BY <1>8, <1>9, <1>10, <1>11, <1>12, <1>13 DEF AnyList!Next

\* Whatever is added, gone to, cleared or restored, a list has a current item
\* exactly if it has entries, holds no item twice and no more items than its
\* capacity.
THEOREM ListCorrect == AnyList!Spec => []AnyList!ListOK
  <1>1. AnyList!Init => AnyList!ListOK
    BY EmptyIsList, AnyListIsList DEF AnyList!Init
  <1>2. AnyList!ListOK /\ [AnyList!Next]_(AnyList!vars) => AnyList!ListOK'
    BY AnyListOKKept
  <1> QED
    BY <1>1, <1>2, PTL DEF AnyList!Spec
=============================================================================
