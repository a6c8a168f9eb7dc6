---------------------- MODULE NavigationMessageProofs -----------------------
(***************************************************************************)
(* Navigation: the messages of the web process keep Good, and change the   *)
(* list as BackForwardList allows.                                         *)
(***************************************************************************)
EXTENDS NavigationWebProofs

\* The prover of a step that names none.
USE ZenonT(60)

-----------------------------------------------------------------------------
(* Facts that the messages and the clients need.                           *)

LEMMA LeadsTail ==
  ASSUME NEW q \in Seq(UIMessages), q # << >>, NEW a, NEW b, Leads(q, a, b)
  PROVE  /\ InOrder(a, Head(q).type)
         /\ Leads(Tail(q), StateAfter(a, Head(q).type), b)
  <1>1. PICK f \in [0 .. Len(q) -> States] :
           /\ f[0] = a /\ f[Len(q)] = b
           /\ \A i \in 1 .. Len(q) :
                InOrder(f[i - 1], q[i].type) /\ f[i] = StateAfter(f[i - 1], q[i].type)
    BY DEF Leads
  <1>r. PICK r : r = Tail(q)
    OBVIOUS
  <1>2. /\ Len(q) \in Nat \ {0} /\ Len(r) = Len(q) - 1 /\ Head(q) = q[1]
        /\ \A i \in 1 .. Len(q) - 1 : r[i] = q[i + 1]
    BY <1>r, TailFacts
  <1>3. InOrder(a, Head(q).type) /\ f[1] = StateAfter(a, Head(q).type)
    <2>1. 1 \in 1 .. Len(q) /\ 1 - 1 = 0
      BY <1>2, SMTT(30)
    <2> QED
      BY <1>1, <1>2, <2>1
  <1> DEFINE h == [i \in 0 .. Len(r) |-> f[i + 1]]
  <1>4. h \in [0 .. Len(r) -> States] /\ h[0] = f[1] /\ h[Len(r)] = b
    BY <1>1, <1>2, SMTT(30)
  <1>5. ASSUME NEW i \in 1 .. Len(r)
        PROVE  InOrder(h[i - 1], r[i].type) /\ h[i] = StateAfter(h[i - 1], r[i].type)
    <2>1. i + 1 \in 1 .. Len(q) /\ (i + 1) - 1 = i /\ r[i] = q[i + 1]
          /\ h[i] = f[i + 1] /\ h[i - 1] = f[i]
      BY <1>2, SMTT(30)
    <2> QED
      BY <1>1, <2>1
  <1> HIDE DEF h
  <1> QED
    BY <1>r, <1>3, <1>4, <1>5 DEF Leads

LEMMA TeachesConcat ==
  ASSUME NEW q \in Seq(WebMessages), NEW r \in Seq(WebMessages), NEW a, NEW b, NEW c,
         Teaches(q, a, b), Teaches(r, b, c)
  PROVE  Teaches(q \o r, a, c)
  <1>1. PICK f \in [0 .. Len(q) -> SUBSET Nat] :
           /\ f[0] = a /\ f[Len(q)] = b
           /\ \A i \in 1 .. Len(q) :
                /\ q[i].type = "GoToBackForwardItem" => q[i].id \in f[i - 1]
                /\ f[i] = KnownAfter(f[i - 1], q[i])
    BY DEF Teaches
  <1>2. PICK g \in [0 .. Len(r) -> SUBSET Nat] :
           /\ g[0] = b /\ g[Len(r)] = c
           /\ \A i \in 1 .. Len(r) :
                /\ r[i].type = "GoToBackForwardItem" => r[i].id \in g[i - 1]
                /\ g[i] = KnownAfter(g[i - 1], r[i])
    BY DEF Teaches
  <1>s. PICK s : s = q \o r
    OBVIOUS
  <1>3. /\ Len(q) \in Nat /\ Len(r) \in Nat /\ Len(s) = Len(q) + Len(r)
        /\ \A i \in 1 .. Len(q) : s[i] = q[i]
        /\ \A i \in 1 .. Len(r) : s[Len(q) + i] = r[i]
    BY <1>s, ConcatFacts, SMTT(30)
  <1> DEFINE h == [i \in 0 .. Len(q) + Len(r) |->
                     IF i <= Len(q) THEN f[i] ELSE g[i - Len(q)]]
  <1>4. h \in [0 .. Len(s) -> SUBSET Nat]
    BY <1>3, SMTT(30)
  <1>5. h[0] = a /\ h[Len(s)] = c
    BY <1>1, <1>2, <1>3, SMTT(30)
  <1>6. ASSUME NEW i \in 1 .. Len(s)
        PROVE  /\ s[i].type = "GoToBackForwardItem" => s[i].id \in h[i - 1]
               /\ h[i] = KnownAfter(h[i - 1], s[i])
    <2>1. CASE i <= Len(q)
      <3>1. i \in 1 .. Len(q) /\ h[i] = f[i] /\ h[i - 1] = f[i - 1] /\ s[i] = q[i]
        BY <1>3, <2>1, SMTT(30)
      <3> QED
        BY <1>1, <3>1
    <2>2. CASE ~(i <= Len(q))
      <3> DEFINE j == i - Len(q)
      <3>1. j \in 1 .. Len(r) /\ i = Len(q) + j /\ h[i] = g[j] /\ s[i] = r[j]
        BY <1>3, <2>2, SMTT(30)
      <3>2. h[i - 1] = g[j - 1]
        <4>1. CASE j = 1
          <5>1. i - 1 = Len(q) /\ j - 1 = 0 /\ h[i - 1] = f[Len(q)]
            BY <1>3, <3>1, <4>1, SMTT(30)
          <5> QED
            BY <1>1, <1>2, <5>1
        <4>2. CASE j # 1
          <5>1. /\ i - 1 \in 0 .. Len(q) + Len(r) /\ ~(i - 1 <= Len(q))
                /\ (i - 1) - Len(q) = j - 1
            BY <1>3, <3>1, <4>2, SMTT(30)
          <5> QED
            BY <5>1
        <4> QED
          BY <4>1, <4>2
      <3> QED
        BY <1>2, <3>1, <3>2
    <2> QED
      BY <2>1, <2>2
  <1> HIDE DEF h
  <1>7. Teaches(s, a, c)
    BY <1>4, <1>5, <1>6 DEF Teaches
  <1> QED
    BY <1>s, <1>7

LEMMA TeachesOne ==
  ASSUME NEW m \in WebMessages, NEW a \in SUBSET Nat,
         m.type = "GoToBackForwardItem" => m.id \in a
  PROVE  Teaches(<<m>>, a, KnownAfter(a, m))
  <1> DEFINE c == KnownAfter(a, m)
  <1>1. c \in SUBSET Nat
    <2>1. m.type \in {"CreateWebPage", "RestoreSession"} => m.items \in SUBSET Nat
      BY DEF WebMessages, Requests
    <2>2. CASE m.type \in {"CreateWebPage", "RestoreSession"}
      <3>1. c = a \cup m.items
        BY <2>2 DEF KnownAfter
      <3> HIDE DEF c
      <3> QED
        BY <2>1, <2>2, <3>1
    <2>3. CASE m.type \notin {"CreateWebPage", "RestoreSession"}
      <3>1. c = a \/ c = a \ {m.id}
        BY <2>3 DEF KnownAfter
      <3> HIDE DEF c
      <3> QED
        BY <3>1
    <2> QED
      BY <2>2, <2>3
  <1>2. PICK r : r = <<m>>
    OBVIOUS
  <1>3. Len(r) = 1 /\ r[1] = m
    BY <1>2
  <1> HIDE DEF c
  <1> DEFINE f == [i \in 0 .. 1 |-> IF i = 0 THEN a ELSE c]
  <1>4. f \in [0 .. Len(r) -> SUBSET Nat] /\ f[0] = a /\ f[Len(r)] = c
    <2>1. f[0] = a /\ f[Len(r)] = c
      BY <1>3, SMTT(30)
    <2>2. \A i \in 0 .. 1 : f[i] \in SUBSET Nat
      BY <1>1
    <2>3. f \in [0 .. 1 -> SUBSET Nat]
      BY <2>2
    <2> QED
      BY <1>3, <2>1, <2>3
  <1>5. ASSUME NEW i \in 1 .. Len(r)
        PROVE  /\ r[i].type = "GoToBackForwardItem" => r[i].id \in f[i - 1]
               /\ f[i] = KnownAfter(f[i - 1], r[i])
    <2>1. i = 1 /\ f[i - 1] = a /\ f[i] = c /\ r[i] = m
      BY <1>3, SMTT(30)
    <2> QED
      BY <2>1 DEF c
  <1> HIDE DEF f
  <1>6. Teaches(r, a, c)
    BY <1>4, <1>5 DEF Teaches
  <1> QED
    BY <1>2, <1>6 DEF c

Removals(removed) ==
  [i \in DOMAIN removed |-> [type |-> "DidRemoveBackForwardItem", id |-> removed[i]]]

LEMMA TeachesRemovals ==
  ASSUME NEW removed \in Seq(Nat), NEW a \in SUBSET Nat
  PROVE  /\ Removals(removed) \in Seq(WebMessages)
         /\ Teaches(Removals(removed), a, a \ Range(removed))
  <1>1. PICK q : q = Removals(removed)
    OBVIOUS
  <1>2. /\ Len(removed) \in Nat /\ DOMAIN removed = 1 .. Len(removed)
        /\ \A i \in 1 .. Len(removed) : removed[i] \in Nat
    BY SMTT(30)
  <1>3. ASSUME NEW i \in 1 .. Len(removed)
        PROVE  [type |-> "DidRemoveBackForwardItem", id |-> removed[i]] \in WebMessages
    BY <1>2 DEF WebMessages
  <1>4. /\ q \in Seq(WebMessages) /\ Len(q) = Len(removed)
        /\ \A i \in 1 .. Len(q) :
             q[i] = [type |-> "DidRemoveBackForwardItem", id |-> removed[i]]
    <2>1. q \in [1 .. Len(removed) -> WebMessages]
      BY <1>1, <1>2, <1>3 DEF Removals
    <2> QED
      BY <1>1, <1>2, <2>1, SMTT(30) DEF Removals
  <1> DEFINE h == [i \in 0 .. Len(q) |-> a \ {removed[j] : j \in 1 .. i}]
  <1>5. h \in [0 .. Len(q) -> SUBSET Nat]
    OBVIOUS
  <1>6. h[0] = a
    BY <1>2, <1>4, SMTT(30)
  <1>7. h[Len(q)] = a \ Range(removed)
    BY <1>2, <1>4, SMTT(30) DEF Range
  <1>8. ASSUME NEW i \in 1 .. Len(q)
        PROVE  /\ q[i].type = "GoToBackForwardItem" => q[i].id \in h[i - 1]
               /\ h[i] = KnownAfter(h[i - 1], q[i])
    <2>1. q[i].type = "DidRemoveBackForwardItem" /\ q[i].id = removed[i]
      <3>1. q[i] = [type |-> "DidRemoveBackForwardItem", id |-> removed[i]]
        BY <1>4
      <3> QED
        BY <3>1, SMTT(30)
    <2>2. i - 1 \in 0 .. Len(q) /\ i \in 0 .. Len(q)
      BY <1>2, <1>4, SMTT(30)
    <2>3. 1 .. i = (1 .. i - 1) \cup {i}
      BY <1>2, <1>4, SMTT(30)
    <2>4. {removed[j] : j \in 1 .. i} = {removed[j] : j \in 1 .. i - 1} \cup {removed[i]}
      BY <2>3
    <2>5. h[i] = h[i - 1] \ {removed[i]}
      BY <2>2, <2>4
    <2> HIDE DEF h
    <2> QED
      BY <2>1, <2>5 DEF KnownAfter
  <1> HIDE DEF h
  <1>9. Teaches(q, a, a \ Range(removed))
    BY <1>5, <1>6, <1>7, <1>8 DEF Teaches
  <1> QED
    BY <1>1, <1>4, <1>9

LEMMA ToldTail ==
  ASSUME NEW q \in Seq(UIMessages), q # << >>, NEW a, NEW b, Told(q, a, b)
  PROVE  /\ InOrder(a, Head(q).type)
         /\ Told(Tail(q), StateAfter(a, Head(q).type), b)
  <1>1. /\ InOrder(a, Head(q).type)
        /\ Leads(Tail(q), StateAfter(a, Head(q).type), b)
    BY LeadsTail DEF Told
  <1>2. Sent(q, Stops) <=> Head(q).type \in Stops \/ Sent(Tail(q), Stops)
    BY SentTail
  <1>3. PICK r : r = Tail(q)
    OBVIOUS
  <1>4. /\ r \in Seq(UIMessages) /\ Len(r) = Len(q) - 1
        /\ Len(q) \in Nat \ {0} /\ Head(q) = q[1]
        /\ \A i \in 1 .. Len(q) - 1 : r[i] = q[i + 1]
    BY <1>3, TailFacts
  <1>5. ASSUME NEW i \in 1 .. Len(q), NEW j \in i + 1 .. Len(q), q[j].type \in Stops
        PROVE  j - 1 \in 1 .. Len(r) /\ j - 1 \in i .. Len(r) /\ r[j - 1].type \in Stops
    <2>1. j - 1 \in 1 .. Len(q) - 1 /\ (j - 1) + 1 = j
      BY <1>4, SMTT(30)
    <2> QED
      BY <1>4, <1>5, <2>1, SMTT(30)
  <1>6. ASSUME NEW i \in 1 .. Len(r), r[i].type \in Starts, b = "Finished"
        PROVE  \E j \in i + 1 .. Len(r) : r[j].type \in Stops
    <2>1. i + 1 \in 1 .. Len(q) /\ q[i + 1].type \in Starts
      BY <1>4, <1>6, SMTT(30)
    <2>2. PICK j \in (i + 1) + 1 .. Len(q) : q[j].type \in Stops
      BY <1>6, <2>1 DEF Told
    <2> QED
      BY <1>5, <2>1, <2>2
  <1>7. ASSUME StateAfter(a, Head(q).type) # "Finished", b = "Finished"
        PROVE  Sent(r, Stops)
    <2>1. Head(q).type \notin Stops
      BY <1>7 DEF StateAfter, Stops
    <2>2. CASE Head(q).type \in Starts
      <3>1. 1 \in 1 .. Len(q) /\ q[1].type \in Starts
        BY <1>4, <2>2, SMTT(30)
      <3>2. PICK j \in 1 + 1 .. Len(q) : q[j].type \in Stops
        BY <1>7, <3>1 DEF Told
      <3>3. j - 1 \in 1 .. Len(r) /\ r[j - 1].type \in Stops
        BY <1>5, <3>1, <3>2
      <3>4. DOMAIN r = 1 .. Len(r)
        BY <1>4, SeqFacts
      <3> QED
        BY <3>3, <3>4 DEF Sent
    <2>3. CASE Head(q).type \notin Starts
      <3>1. a # "Finished"
        BY <1>7, <2>1, <2>3 DEF StateAfter, Starts
      <3> QED
        BY <1>2, <1>3, <1>7, <2>1, <3>1 DEF Told
    <2> QED
      BY <2>2, <2>3
  <1> QED
    BY <1>1, <1>3, <1>6, <1>7 DEF Told

\* The list loses items, and the web process is told of some of them.
LEMMA IDsRemove ==
  ASSUME NEW p \in Pages, NEW w \in Webs, NEW tw \in Seq(WebMessages),
         NEW tu \in Seq(UIMessages), IDs(p, w, TRUE, tw, tu),
         NEW removed \in Seq(Nat), Range(removed) \subseteq Range(p.entries),
         NEW q \in Pages, q.items = p.items, q.lastID = p.lastID, q.highest = p.highest,
         Range(q.entries) \subseteq Range(p.entries) \ Range(removed)
  PROVE  IDs(q, w, TRUE, tw \o Removals(removed), tu)
  <1>1. PICK r : r = Removals(removed)
    OBVIOUS
  <1>2. /\ r \in Seq(WebMessages) /\ Len(r) \in Nat
        /\ \A i \in 1 .. Len(r) : /\ r[i].type = "DidRemoveBackForwardItem"
                                  /\ r[i].id \in Range(removed)
    <2>1. r \in Seq(WebMessages)
      BY <1>1, TeachesRemovals
    <2>2. DOMAIN r = DOMAIN removed /\ DOMAIN r = 1 .. Len(r)
      BY <1>1, <2>1, SeqFacts DEF Removals
    <2>3. ASSUME NEW i \in 1 .. Len(r)
          PROVE  r[i].type = "DidRemoveBackForwardItem" /\ r[i].id \in Range(removed)
      <3>1. r[i] = [type |-> "DidRemoveBackForwardItem", id |-> removed[i]]
        BY <1>1, <2>2 DEF Removals
      <3>2. removed[i] \in Range(removed)
        BY <2>2 DEF Range
      <3> QED
        BY <3>1, <3>2, SMTT(30)
    <2> QED
      BY <2>1, <2>3, SMTT(30)
  <1>3. PICK t : t = tw \o r
    OBVIOUS
  <1>4. /\ t \in Seq(WebMessages) /\ Len(t) = Len(tw) + Len(r) /\ Len(tw) \in Nat
        /\ \A i \in 1 .. Len(tw) : t[i] = tw[i]
        /\ \A i \in 1 .. Len(r) : t[Len(tw) + i] = r[i]
    BY <1>2, <1>3, ConcatFacts, SMTT(30)
  <1>5. ASSUME NEW i \in 1 .. Len(t)
        PROVE  \/ i \in 1 .. Len(tw) /\ t[i] = tw[i]
               \/ t[i].type = "DidRemoveBackForwardItem" /\ t[i].id \in Range(removed)
    <2>1. CASE i <= Len(tw)
      BY <1>4, <2>1, SMTT(30)
    <2>2. CASE ~(i <= Len(tw))
      <3>1. i - Len(tw) \in 1 .. Len(r) /\ Len(tw) + (i - Len(tw)) = i
        BY <1>2, <1>4, <2>2, SMTT(30)
      <3>2. t[i] = r[i - Len(tw)]
        BY <1>4, <3>1
      <3> QED
        BY <1>2, <3>1, <3>2
    <2> QED
      BY <2>1, <2>2
  <1>6. Range(removed) \subseteq p.items /\ Range(q.entries) \subseteq q.items
    BY DEF IDs, Counted
  <1>7. Counted(q, w, TRUE, t, tu)
    <2>1. tw # << >> => t # << >> /\ t[1] = tw[1]
      BY <1>2, <1>4, SeqFacts, SMTT(30)
    <2> QED
      BY <1>6, <2>1 DEF IDs, Counted
  <1>8. InWeb(q, w, t)
    BY <1>5, <1>6 DEF IDs, InWeb
  <1>9. InUI(q, w, TRUE, t, tu)
    <2>1. \A i \in 1 .. Len(tu) : tu[i].type = "BackForwardAddItem" =>
            /\ \A n \in Range(q.entries) : Odd(n) => n < tu[i].id
            /\ \A j \in 1 .. Len(t) :
                 t[j].type = "DidRemoveBackForwardItem" /\ Odd(t[j].id) => t[j].id < tu[i].id
      BY <1>5 DEF IDs, InUI
    <2> QED
      BY <2>1 DEF IDs, InUI
  <1>10. Known(q, w, TRUE, t, tu)
    <2>1. PICK k \in SUBSET Nat :
             /\ Teaches(tw, w.known, k) /\ Range(p.entries) \subseteq k
             /\ \A i \in 1 .. Len(tu) : tu[i].type = "BackForwardAddItem" => tu[i].id \in k
      BY DEF IDs, Known
    <2>2. Teaches(r, k, k \ Range(removed))
      BY <1>1, TeachesRemovals
    <2>3. Teaches(t, w.known, k \ Range(removed))
      BY <1>2, <1>3, <2>1, <2>2, TeachesConcat
    <2>4. ASSUME NEW i \in 1 .. Len(tu), tu[i].type = "BackForwardAddItem"
          PROVE  tu[i].id \notin Range(removed)
      <3>1. /\ Odd(tu[i].id) /\ \A n \in Range(p.entries) : Odd(n) => n < tu[i].id
        BY <2>4 DEF IDs, InUI, Additions
      <3>2. tu[i] \in UIMessages
        BY SeqFacts
      <3> QED
        BY <3>1, <3>2, SMTT(30) DEF UIMessages
    <2>5. k \ Range(removed) \in SUBSET Nat
      OBVIOUS
    <2> QED
      BY <2>1, <2>3, <2>4, <2>5 DEF Known
  <1> QED
    BY <1>1, <1>3, <1>7, <1>8, <1>9, <1>10 DEF IDs

\* The list loses items, and nobody is told.
LEMMA IDsShrink ==
  ASSUME NEW p \in Pages, NEW w \in Webs, NEW a \in BOOLEAN, NEW tw, NEW tu,
         IDs(p, w, a, tw, tu),
         NEW q \in Pages, q.items = p.items, q.lastID = p.lastID, q.highest = p.highest,
         Range(q.entries) \subseteq Range(p.entries)
  PROVE  IDs(q, w, a, tw, tu)
  <1>1. Counted(q, w, a, tw, tu)
    BY DEF IDs, Counted
  <1>2. InWeb(q, w, tw) /\ InUI(q, w, a, tw, tu)
    BY DEF IDs, InWeb, InUI
  <1>3. Known(q, w, a, tw, tu)
    BY DEF IDs, Known
  <1> QED
    BY <1>1, <1>2, <1>3 DEF IDs

\* A new process is created, and told of the items in the list.
LEMMA IDsReattach ==
  ASSUME NEW p \in Pages, NEW w, NEW tw, IDs(p, w, FALSE, tw, << >>),
         NEW q \in Pages, q.entries = p.entries, q.items = Range(p.entries),
         q.lastID = p.lastID, q.highest = p.highest,
         NEW m \in WebMessages, m.type = "CreateWebPage", m.items = Range(p.entries),
         m.highest = p.highest
  PROVE  IDs(q, Web!NewWebProcess, TRUE, <<m>>, << >>)
  <1>1. PICK t : t = <<m>>
    OBVIOUS
  <1>2. PICK x : x = Web!NewWebProcess
    OBVIOUS
  <1>3. /\ x \in Webs /\ x.known = {} /\ x.uniqueHistoryItemID = 1 /\ x.created = FALSE
    BY <1>2, NewWebProcessFacts
  <1>4. t # << >> /\ Len(t) = 1 /\ t[1] = m
    BY <1>1
  <1>5. Range(p.entries) \subseteq p.items
    BY DEF IDs, Counted
  <1>6. Counted(q, x, TRUE, t, << >>)
    BY <1>2, <1>3, <1>4, <1>5, ParityFacts, SMTT(30) DEF IDs, Counted
  <1>7. InWeb(q, x, t)
    BY <1>3, <1>4, SMTT(30) DEF InWeb
  <1>8. InUI(q, x, TRUE, t, << >>)
    BY SMTT(30) DEF InUI
  <1>9. Known(q, x, TRUE, t, << >>)
    <2>1. KnownAfter({}, m) = Range(p.entries) /\ {} \in SUBSET Nat
      BY DEF KnownAfter
    <2>2. Teaches(t, {}, Range(p.entries))
      BY <1>1, <2>1, TeachesOne
    <2>3. Range(p.entries) \in SUBSET Nat
      BY <1>5 DEF Pages
    <2> QED
      BY <1>3, <2>2, <2>3, SMTT(30) DEF Known
  <1> QED
    BY <1>1, <1>2, <1>6, <1>7, <1>8, <1>9 DEF IDs

LEMMA WaitsForNothing == ASSUME NEW wait PROVE Waits(<< >>, wait)
  <1>1. \A i \in 1 .. Len(<< >>) : FALSE
    BY SMTT(30)
  <1> QED
    BY <1>1 DEF Waits

\* What is left when the messages in q.out are sent.
Posted(q) == [q EXCEPT !.out = << >>, !.fresh = FALSE]

LEMMA PostedFacts ==
  ASSUME NEW q \in Pages, NEW r, r = Posted(q)
  PROVE  /\ r \in Pages /\ r.out = << >> /\ r.fresh = FALSE
         /\ SameButtons(q, r) /\ SameIDs(q, r)
         /\ r.pending = q.pending /\ r.state = q.state /\ r.valid = q.valid
         /\ r.timer = q.timer /\ r.responsive = q.responsive /\ r.dropped = q.dropped
  <1>1. << >> \in Seq(WebMessages)
    BY SMTT(30)
  <1> QED
    BY <1>1 DEF Posted, Pages, SameButtons, SameIDs

\* What the list's operations leave alone.
SameRest(p, q) ==
  /\ q.pending = p.pending /\ q.state = p.state /\ q.valid = p.valid
  /\ q.items = p.items /\ q.lastID = p.lastID /\ q.highest = p.highest
  /\ q.timer = p.timer /\ q.responsive = p.responsive /\ q.dropped = p.dropped
  /\ q.fresh = p.fresh

LEMMA SetListFacts ==
  ASSUME NEW p \in Pages, NEW e \in Seq(Nat), NEW c \in Nat, NEW q, q = SetList(p, e, c)
  PROVE  /\ q \in Pages /\ q.entries = e /\ q.cur = c /\ q.out = p.out
         /\ SameRest(p, q) /\ Buttons(q)
  <1>1. PICK b \in BOOLEAN : b = (BackItem(e, c) # {})
    OBVIOUS
  <1>2. PICK f \in BOOLEAN : f = (ForwardItem(e, c) # {})
    OBVIOUS
  <1>3. PICK r : r = [p EXCEPT !.entries = e, !.cur = c]
    OBVIOUS
  <1>4. r \in Pages /\ r.entries = e /\ r.cur = c /\ r.out = p.out /\ SameRest(p, r)
    BY <1>3 DEF Pages, SameRest
  <1>5. q = [r EXCEPT !.canGoBack = b, !.canGoForward = f, !.announced = TRUE]
    BY <1>1, <1>2, <1>3, <1>4 DEF SetList, DidChangeBackForwardList
  <1>6. q \in Pages
    BY <1>4, <1>5 DEF Pages
  <1>7. q.entries = e /\ q.cur = c /\ q.out = p.out
    BY <1>4, <1>5 DEF Pages
  <1>8. SameRest(p, q)
    BY <1>4, <1>5, SMTT(30) DEF Pages, SameRest
  <1>9. q.canGoBack = b /\ q.canGoForward = f
    BY <1>4, <1>5 DEF Pages
  <1> QED
    BY <1>1, <1>2, <1>6, <1>7, <1>8, <1>9 DEF Buttons

LEMMA RemovalsType ==
  ASSUME NEW removed \in Seq(Nat)
  PROVE  Removals(removed) \in Seq(WebMessages)
  <1>1. DOMAIN removed = 1 .. Len(removed) /\ Len(removed) \in Nat
    BY SMTT(30)
  <1>2. ASSUME NEW i \in 1 .. Len(removed)
        PROVE  [type |-> "DidRemoveBackForwardItem", id |-> removed[i]] \in WebMessages
    BY SMTT(30) DEF WebMessages
  <1>3. PICK n : n = Len(removed)
    OBVIOUS
  <1>4. PICK r : r = Removals(removed)
    OBVIOUS
  <1>5. r \in [1 .. n -> WebMessages]
    BY <1>1, <1>2, <1>3, <1>4 DEF Removals
  <1>6. n \in Nat
    BY <1>1, <1>3
  <1>7. r \in Seq(WebMessages)
    BY <1>5, <1>6, SMTT(30)
  <1> QED
    BY <1>4, <1>7

LEMMA RemovedItemsFacts ==
  ASSUME NEW p \in Pages, p.out = << >>, NEW removed \in Seq(Nat),
         NEW q, q = BackForwardRemovedItems(p, removed)
  PROVE  /\ q \in Pages /\ SameRest(p, q) /\ SameButtons(p, q)
         /\ q.out = IF p.valid THEN Removals(removed) ELSE << >>
  <1>1. PICK r : r = Removals(removed)
    OBVIOUS
  <1>2. r \in Seq(WebMessages)
    BY <1>1, RemovalsType
  <1>3. << >> \o r = r
    BY <1>2, SMTT(30)
  <1>4. q = IF p.valid THEN [p EXCEPT !.out = @ \o r] ELSE p
    BY <1>1 DEF BackForwardRemovedItems, Removals
  <1>5. p.valid => q = [p EXCEPT !.out = r]
    BY <1>3, <1>4 DEF Pages
  <1> QED
    BY <1>1, <1>2, <1>4, <1>5 DEF Pages, SameRest, SameButtons

\* Messages to a process that is not running are lost.
Sends(a, tw, out) == IF a THEN tw \o out ELSE << >>

LEMMA SendsNothing ==
  ASSUME NEW a \in BOOLEAN, NEW tw \in Seq(WebMessages), a = FALSE => tw = << >>
  PROVE  Sends(a, tw, << >>) = tw
  <1>1. tw \o << >> = tw
    BY SMTT(30)
  <1> QED
    BY <1>1 DEF Sends

\* The page is told to forget the items that leave the list, and the list
\* shrinks.
LEMMA RemovedKeepIDs ==
  ASSUME NEW p \in Pages, NEW w \in Webs, NEW a \in BOOLEAN, NEW tw \in Seq(WebMessages),
         NEW tu \in Seq(UIMessages), IDs(p, w, a, tw, tu), a = FALSE => tw = << >>,
         NEW removed \in Seq(Nat), Range(removed) \subseteq Range(p.entries),
         NEW q \in Pages, q.items = p.items, q.lastID = p.lastID, q.highest = p.highest,
         Range(q.entries) \subseteq Range(p.entries) \ Range(removed),
         NEW u, u = Sends(a, tw, Removals(removed))
  PROVE  IDs(q, w, a, u, tu)
  <1>1. CASE a
    <2>1. u = tw \o Removals(removed)
      BY <1>1 DEF Sends
    <2> QED
      BY <1>1, <2>1, IDsRemove
  <1>2. CASE a = FALSE
    <2>1. u = tw
      BY <1>2 DEF Sends
    <2> QED
      BY <2>1, IDsShrink
  <1> QED
    BY <1>1, <1>2

\* The items in removed leave p's list, and the ones in e stay.
Splits(p, removed, e) ==
  /\ removed \in Seq(Nat) /\ Range(removed) \subseteq Range(p.entries)
  /\ e \in Seq(Nat) /\ Range(e) \subseteq Range(p.entries) \ Range(removed)

\* h differs from p in its list, and in what it sends.
Relists(p, h) == h \in Pages /\ SameRest(p, h) /\ Buttons(h)

LEMMA SplitsList ==
  ASSUME NEW p \in Pages, p.out = << >>, NEW removed, NEW kept,
         Splits(p, removed, kept), NEW e \in Seq(Nat), NEW c \in Nat, NEW h,
         h = SetList(BackForwardRemovedItems(p, removed), e, c)
  PROVE  /\ Relists(p, h) /\ h.entries = e /\ h.cur = c
         /\ h.out = IF p.valid THEN Removals(removed) ELSE << >>
  <1>1. PICK t : t = BackForwardRemovedItems(p, removed)
    OBVIOUS
  <1>2. removed \in Seq(Nat)
    BY DEF Splits
  <1>3. /\ t \in Pages /\ SameRest(p, t)
        /\ t.out = IF p.valid THEN Removals(removed) ELSE << >>
    BY <1>1, <1>2, RemovedItemsFacts
  <1>4. h = SetList(t, e, c)
    BY <1>1
  <1>5. /\ h \in Pages /\ h.entries = e /\ h.cur = c /\ h.out = t.out
        /\ SameRest(t, h) /\ Buttons(h)
    BY <1>3, <1>4, SetListFacts, SMTT(30)
  <1>6. SameRest(p, h)
    BY <1>3, <1>5 DEF SameRest
  <1> QED
    BY <1>3, <1>5, <1>6 DEF Relists

LEMMA SameList ==
  ASSUME SameButtons(page, page')
  PROVE  [List!Next]_(List!vars)
  <1>1. page'.entries = page.entries /\ page'.cur = page.cur
    BY DEF SameButtons
  <1> QED
    BY <1>1 DEF List!vars

LEMMA NothingSplits ==
  ASSUME NEW p, NEW e \in Seq(Nat), Range(e) \subseteq Range(p.entries)
  PROVE  Splits(p, << >>, e)
  <1>1. << >> \in Seq(Nat)
    BY SMTT(30)
  <1>2. Range(<< >>) = {}
    BY SMTT(30) DEF Range
  <1>3. Range(e) \subseteq Range(p.entries) \ Range(<< >>)
    BY <1>2
  <1> QED
    BY <1>1, <1>2, <1>3 DEF Splits

-----------------------------------------------------------------------------
(* The messages of the web process.                                        *)

\* What handling m makes of the load state, the timer and the request.
Handles(p, h, m) ==
  /\ h \in Pages /\ h.fresh = FALSE /\ h.valid = p.valid
  /\ h.state = StateAfter(p.state, m.type)
  /\ h.timer \/ ~h.responsive => m.type \notin Done /\ (p.timer \/ ~p.responsive)
  /\ h.pending # 0 => h.pending = p.pending /\ h.dropped = p.dropped
  /\ m.type \in Answers => h.pending = 0

\* The web process goes on with x: with what the page answers, if it asked.
Resumes(w, x, a, h, m) ==
  \/ m.type \notin Questions /\ x = w
  \/ a = FALSE /\ x = w
  \/ a /\ m.type = "BackForwardGoToItem" /\ x = [w EXCEPT !.wait = "went"]
  \/ /\ a /\ m.type = "DecidePolicyForNavigationAction"
     /\ \/ x = [w EXCEPT !.wait = "use"] \/ x = [w EXCEPT !.wait = "download"]
        \/ x = [w EXCEPT !.wait = "ignore"] /\ h.pending = 0

\* The messages that have nothing to do with the list.
\* The UI process goes on with h after m, which is not about the list.
Plainly(p, h, m) ==
  \/ /\ m.type = "DidStartProvisionalLoad" /\ h = DidStartProvisionalLoad(p)
  \/ /\ m.type = "DidFailProvisionalLoad" /\ h = DidFailProvisionalLoad(p)
  \/ /\ m.type = "DidCommitLoad" /\ h = DidCommitLoad(p)
  \/ /\ m.type \in {"DidFinishLoad", "DidFailLoad"} /\ h = DidFinishLoad(p)
  \/ /\ m.type = "DidSameDocumentNavigation" /\ h = DidSameDocumentNavigation(p)
  \/ /\ m.type = "StopResponsivenessTimer" /\ h = StopResponsivenessTimer(p)
  \/ /\ m.type = "DecidePolicyForNavigationAction"
     /\ \E url, action : h = DecidePolicyForNavigationAction(p, url, action)

\* The message m is next.
Arrives(p, tu, m) == p.valid /\ tu # << >> /\ m = Head(tu)

\* The UI process goes on with h.
Yields(h, q, a, tw, u) == q = Posted(h) /\ u = Sends(a, tw, h.out)

Learned(p, h, m) ==
  m.type = "AddBackForwardItem" /\ h = AddBackForwardItem(p, m.id)

\* A message about the list is next.
Receives(p, tu, m) ==
  /\ p.valid /\ tu # << >> /\ m = Head(tu)
  /\ m.type \in {"BackForwardAddItem", "BackForwardGoToItem", "BackForwardClear"}

\* The message is handled; q's list is e, at c.
Relisted(q, x, a, u, tu, h, e, c) ==
  /\ Good(q, x, a, u, Tail(tu)) /\ h.fresh = FALSE
  /\ q.entries = e /\ q.cur = c

Clears(p, h, removed, e) ==
  /\ Splits(p, removed, e)
  /\ h = SetList(BackForwardRemovedItems(p, removed), e, 1)

GoesTo(p, h, e, c) ==
  Splits(p, << >>, e) /\ c \in Nat /\ h = SetList(p, e, c)

Lengthens(p, h, removed, kept, e, item) ==
  /\ Splits(p, removed, kept) /\ e \in Seq(Nat)
  /\ Range(e) \subseteq Range(kept) \cup {item}
  /\ h = SetList(BackForwardRemovedItems(p, removed), e, Len(e))

\* The UI process handles a message of the web process.
LEMMA DispatchMessageKeeps ==
  Good(page, web, alive, toWeb, toUI) /\ List!ListOK /\ DispatchMessage
    => Good(page, web, alive, toWeb, toUI)' /\ [List!Next]_(List!vars)
  \* The next message of the web process is handled.
  <1>IDsHandled.
    ASSUME NEW p \in Pages, NEW w \in Webs, NEW a \in BOOLEAN, NEW tw,
           NEW tu \in Seq(UIMessages), tu # << >>, IDs(p, w, a, tw, tu),
           NEW q \in Pages, q.lastID = p.lastID,
           \/ Head(tu).type \notin Additions /\ SameIDs(p, q)
           \/ /\ Head(tu).type = "AddBackForwardItem" /\ q.entries = p.entries
              /\ q.items = p.items \cup {Head(tu).id}
              /\ q.highest = IF Head(tu).id > p.highest THEN Head(tu).id ELSE p.highest
           \/ /\ Head(tu).type = "BackForwardAddItem"
              /\ q.items = p.items /\ q.highest = p.highest
              /\ Range(q.entries) \subseteq Range(p.entries) \cup {Head(tu).id}
    PROVE  IDs(q, w, a, tw, Tail(tu))
    <2>1. PICK t : t = Tail(tu)
      OBVIOUS
    <2>2. PICK m : m = Head(tu)
      OBVIOUS
    <2>3. /\ t \in Seq(UIMessages) /\ Len(t) = Len(tu) - 1
          /\ Len(tu) \in Nat \ {0} /\ m = tu[1] /\ m \in UIMessages
          /\ \A i \in 1 .. Len(tu) - 1 : t[i] = tu[i + 1]
      <3>1. tu \in Seq(UIMessages) /\ tu # << >>
        BY <1>IDsHandled
      <3> QED
        BY <2>1, <2>2, <3>1, TailFacts
    <2>a. /\ Counted(p, w, a, tw, tu) /\ InWeb(p, w, tw)
          /\ InUI(p, w, a, tw, tu) /\ Known(p, w, a, tw, tu)
      BY <1>IDsHandled DEF IDs
    <2>b. /\ p.items \subseteq Nat /\ p.highest \in Nat /\ p.lastID \in Nat
          /\ q.items \subseteq Nat /\ q.highest \in Nat /\ q.lastID = p.lastID
          /\ a \in BOOLEAN /\ w.uniqueHistoryItemID \in Nat
      BY <1>IDsHandled DEF Pages, Webs
    <2>c. \/ m.type \notin Additions /\ SameIDs(p, q)
          \/ /\ m.type = "AddBackForwardItem" /\ q.entries = p.entries
             /\ q.items = p.items \cup {m.id}
             /\ q.highest = IF m.id > p.highest THEN m.id ELSE p.highest
          \/ /\ m.type = "BackForwardAddItem"
             /\ q.items = p.items /\ q.highest = p.highest
             /\ Range(q.entries) \subseteq Range(p.entries) \cup {m.id}
      BY <1>IDsHandled, <2>2
    <2>4. 1 \in 1 .. Len(tu) /\ \A i \in 1 .. Len(t) : i + 1 \in 1 .. Len(tu) /\ t[i] = tu[i + 1]
      BY <2>3, SMTT(30)
    <2>5. m.type \in Additions =>
            m.id \in Nat /\ Odd(m.id) /\ 1 < m.id /\ (a => m.id <= w.uniqueHistoryItemID)
      BY <2>a, <2>3, <2>4 DEF InUI, UIMessages
    <2>6. m.type = "BackForwardAddItem" => m.id \in p.items
      BY <2>a, <2>3, <2>4 DEF InUI
    <2>7. "AddBackForwardItem" \in Additions /\ "BackForwardAddItem" \in Additions
      BY DEF Additions
    <2>8. a => w.created
      <3>1. tu # << >>
        BY <1>IDsHandled
      <3> QED
        BY <2>a, <3>1 DEF Counted
    <2>9. p.items \subseteq q.items /\ q.items \subseteq p.items \cup {m.id}
          /\ (q.items # p.items => m.type = "AddBackForwardItem")
      BY <2>c DEF SameIDs
    <2>10. Counted(q, w, a, tw, t)
      <3>1. ~Odd(q.lastID) /\ p.highest <= q.highest /\ p.highest \in Nat /\ q.highest \in Nat
            /\ (m.type = "AddBackForwardItem" => m.id <= q.highest) /\ p.lastID \in Nat
        BY <2>a, <2>b, <2>c, <2>5, <2>7, SMTT(30) DEF Counted, SameIDs
      <3>2. q.lastID <= q.highest
        BY <2>a, <2>b, <3>1, SMTT(30) DEF Counted
      <3>3. Range(q.entries) \subseteq q.items
        BY <2>a, <2>c, <2>6, <2>9 DEF Counted, SameIDs
      <3>4. \A n \in q.items : n \in Nat /\ 1 < n /\ n <= q.highest
        BY <2>a, <2>b, <2>5, <2>7, <2>9, <3>1, SMTT(30) DEF Counted
      <3>5. a => \A n \in q.items \cup w.known : Odd(n) => n <= w.uniqueHistoryItemID
        BY <2>a, <2>5, <2>7, <2>8, <2>9 DEF Counted
      <3> QED
        BY <2>a, <2>8, <3>1, <3>2, <3>3, <3>4, <3>5 DEF Counted
    <2>11. InWeb(q, w, tw)
      BY <2>a, <2>9 DEF InWeb
    <2>12. InUI(q, w, a, tw, t)
      <3>1. ASSUME NEW i \in 1 .. Len(t), t[i].type \in Additions
            PROVE  Odd(t[i].id) /\ 1 < t[i].id /\ (a => t[i].id <= w.uniqueHistoryItemID)
        BY <2>a, <2>4, <3>1 DEF InUI
      <3>2. ASSUME NEW i \in 1 .. Len(t), t[i].type = "BackForwardAddItem"
            PROVE  /\ \A n \in Range(q.entries) : Odd(n) => n < t[i].id
                   /\ \A j \in 1 .. i - 1 : t[j].type = "BackForwardAddItem" => t[j].id < t[i].id
                   /\ \A j \in 1 .. Len(tw) :
                        tw[j].type = "DidRemoveBackForwardItem" /\ Odd(tw[j].id) => tw[j].id < t[i].id
                   /\ i = 1 => t[i].id \in q.items
                   /\ i # 1 => t[i - 1].type = "AddBackForwardItem" /\ t[i - 1].id = t[i].id
        <4> DEFINE b == i + 1
        <4>1. b \in 1 .. Len(tu) /\ t[i] = tu[b] /\ b # 1 /\ b - 1 = i /\ 1 \in 1 .. b - 1
              /\ tu[b].type = "BackForwardAddItem"
          BY <2>4, <3>2, SMTT(30)
        <4> HIDE DEF b
        <4>2. /\ \A n \in Range(p.entries) : Odd(n) => n < tu[b].id
              /\ \A j \in 1 .. b - 1 : tu[j].type = "BackForwardAddItem" => tu[j].id < tu[b].id
              /\ \A j \in 1 .. Len(tw) :
                   tw[j].type = "DidRemoveBackForwardItem" /\ Odd(tw[j].id) => tw[j].id < tu[b].id
              /\ tu[b - 1].type = "AddBackForwardItem" /\ tu[b - 1].id = tu[b].id
          BY <2>a, <4>1 DEF InUI
        <4>3. \A n \in Range(q.entries) : Odd(n) => n < t[i].id
          <5>1. m.type = "BackForwardAddItem" => m.id < tu[b].id
            BY <2>3, <4>1, <4>2
          <5>2. Range(q.entries) \subseteq Range(p.entries)
                \/ /\ m.type = "BackForwardAddItem"
                   /\ Range(q.entries) \subseteq Range(p.entries) \cup {m.id}
            BY <2>c DEF SameIDs
          <5> QED
            BY <4>1, <4>2, <5>1, <5>2
        <4>4. ASSUME NEW j \in 1 .. i - 1, t[j].type = "BackForwardAddItem"
              PROVE  t[j].id < t[i].id
          <5>1. j \in 1 .. Len(t) /\ j + 1 \in 1 .. b - 1
            BY <2>3, <4>1, SMTT(30)
          <5> QED
            BY <2>4, <4>1, <4>2, <4>4, <5>1
        <4>5. i = 1 => t[i].id \in q.items
          <5>1. ASSUME i = 1 PROVE t[i].id \in q.items
            <6>1. m.type = "AddBackForwardItem" /\ m.id = t[i].id
              BY <2>3, <4>1, <4>2, <5>1
            <6> QED
              BY <2>c, <6>1 DEF Additions
          <5> QED
            BY <5>1
        <4>6. i # 1 => t[i - 1].type = "AddBackForwardItem" /\ t[i - 1].id = t[i].id
          <5>1. ASSUME i # 1 PROVE t[i - 1] = tu[b - 1]
            <6>1. i - 1 \in 1 .. Len(t) /\ (i - 1) + 1 = i
              BY <2>3, <5>1, SMTT(30)
            <6> QED
              BY <2>4, <4>1, <6>1
          <5> QED
            BY <4>1, <4>2, <5>1
        <4> QED
          BY <4>1, <4>2, <4>3, <4>4, <4>5, <4>6
      <3> QED
        BY <3>1, <3>2 DEF InUI
    <2>13. Known(q, w, a, tw, t)
      <3>1. ASSUME a
            PROVE  \E k \in SUBSET Nat :
                     /\ Teaches(tw, w.known, k) /\ Range(q.entries) \subseteq k
                     /\ \A i \in 1 .. Len(t) : t[i].type = "BackForwardAddItem" => t[i].id \in k
        <4>1. PICK k \in SUBSET Nat :
                 /\ Teaches(tw, w.known, k) /\ Range(p.entries) \subseteq k
                 /\ \A i \in 1 .. Len(tu) : tu[i].type = "BackForwardAddItem" => tu[i].id \in k
          BY <2>a, <3>1 DEF Known
        <4>2. m.type = "BackForwardAddItem" => m.id \in k
          BY <2>3, <2>4, <4>1
        <4>3. Range(q.entries) \subseteq k
          BY <2>c, <4>1, <4>2 DEF SameIDs
        <4>4. \A i \in 1 .. Len(t) : t[i].type = "BackForwardAddItem" => t[i].id \in k
          BY <2>4, <4>1
        <4> QED
          BY <4>1, <4>3, <4>4
      <3> QED
        BY <3>1 DEF Known
    <2> QED
      BY <2>1, <2>10, <2>11, <2>12, <2>13 DEF IDs
  <1>IDsResume.
    ASSUME NEW p, NEW w \in Webs, NEW a, NEW tw, NEW tu, IDs(p, w, a, tw, tu),
           a => w.created, NEW x \in Webs, x.created = w.created, x.known = w.known,
           x.uniqueHistoryItemID = w.uniqueHistoryItemID
    PROVE  IDs(p, x, a, tw, tu)
    BY <1>IDsResume DEF IDs, Counted, InWeb, InUI, Known
  <1>WaitsTail.
    ASSUME NEW q \in Seq(UIMessages), q # << >>, NEW wait, Waits(q, wait)
    PROVE  /\ Waits(Tail(q), wait)
           /\ Head(q).type \in Questions =>
                /\ Tail(q) = << >>
                /\ wait = IF Head(q).type = "BackForwardGoToItem" THEN "goTo" ELSE "policy"
    <2> USE <1>WaitsTail
    <2>1. PICK r : r = Tail(q)
      OBVIOUS
    <2>2. /\ r \in Seq(UIMessages) /\ Len(r) = Len(q) - 1
          /\ Len(q) \in Nat \ {0} /\ Head(q) = q[1]
          /\ \A i \in 1 .. Len(q) - 1 : r[i] = q[i + 1]
      BY <2>1, TailFacts
    <2>3. ASSUME NEW i \in 1 .. Len(r), r[i].type \in Questions
          PROVE  /\ i = Len(r)
                 /\ wait = IF r[i].type = "BackForwardGoToItem" THEN "goTo" ELSE "policy"
      <3>1. i + 1 \in 1 .. Len(q) /\ r[i] = q[i + 1]
        BY <2>2, SMTT(30)
      <3>2. /\ i + 1 = Len(q)
            /\ wait = IF r[i].type = "BackForwardGoToItem" THEN "goTo" ELSE "policy"
        BY <2>3, <3>1 DEF Waits
      <3> QED
        BY <2>2, <3>2, SMTT(30)
    <2>4. ASSUME Head(q).type \in Questions
          PROVE  /\ r = << >>
                 /\ wait = IF Head(q).type = "BackForwardGoToItem" THEN "goTo" ELSE "policy"
      <3>1. 1 \in 1 .. Len(q)
        BY <2>2, SMTT(30)
      <3>2. /\ 1 = Len(q)
            /\ wait = IF Head(q).type = "BackForwardGoToItem" THEN "goTo" ELSE "policy"
        BY <2>2, <2>4, <3>1 DEF Waits
      <3>3. Len(r) = 0
        BY <2>2, <3>2, SMTT(30)
      <3> QED
        BY <2>2, <3>2, <3>3, SeqFacts
    <2> QED
      BY <2>1, <2>3, <2>4 DEF Waits
  <1>ServedKeeps.
    ASSUME NEW p, NEW w, NEW a, NEW tw, NEW tu, NEW q, NEW x, NEW u, NEW m,
           Typed(p, w, a, tw, tu), Synced(p, w, a, tw, tu), Loads(p, w, a, tu),
           p.valid, tu # << >>, m = Head(tu),
           q \in Pages, q.out = << >>, q.fresh = FALSE, q.valid = p.valid,
           q.state = StateAfter(p.state, m.type),
           u \in Seq(WebMessages), a = FALSE => u = << >>,
           \/ m.type \notin Questions /\ x = w
           \/ a = FALSE /\ x = w
           \/ a /\ m.type = "BackForwardGoToItem" /\ x = [w EXCEPT !.wait = "went"]
           \/ /\ a /\ m.type = "DecidePolicyForNavigationAction"
              /\ \E action \in {"use", "ignore", "download"} : x = [w EXCEPT !.wait = action]
    PROVE  /\ Typed(q, x, a, u, Tail(tu)) /\ Synced(q, x, a, u, Tail(tu))
           /\ Loads(q, x, a, Tail(tu)) /\ InOrder(p.state, m.type)
    <2> USE <1>ServedKeeps
    <2>1. tu \in Seq(UIMessages) /\ w \in Webs /\ a \in BOOLEAN /\ w.out = << >>
      BY DEF Typed
    <2>2. Tail(tu) \in Seq(UIMessages) /\ m \in UIMessages
      BY <2>1, TailFacts
    <2>3. PICK s \in States : Told(tu, p.state, s) /\ (a => s = w.loader)
      BY DEF Loads
    <2>4. InOrder(p.state, m.type) /\ Told(Tail(tu), q.state, s)
      BY <2>1, <2>3, ToldTail
    <2>5. /\ x \in Webs /\ x.out = << >> /\ x.loader = w.loader /\ x.load = w.load
          /\ x.next = w.next
      BY <2>1, SMTT(30) DEF Webs
    <2>6. Typed(q, x, a, u, Tail(tu))
      BY <2>1, <2>2, <2>5 DEF Typed
    <2>7. Loads(q, x, a, Tail(tu))
      BY <2>3, <2>4, <2>5 DEF Loads
    <2>8. a => Waits(tu, w.wait)
      BY DEF Synced
    <2>9. a => /\ Waits(Tail(tu), w.wait)
               /\ m.type \in Questions =>
                    /\ Tail(tu) = << >>
                    /\ w.wait = IF m.type = "BackForwardGoToItem" THEN "goTo" ELSE "policy"
      BY <2>1, <2>8, <1>WaitsTail
    <2>10. a => Waits(Tail(tu), x.wait)
      <3>1. CASE x = w
        BY <2>9, <3>1
      <3>2. CASE x # w
        BY <2>9, <3>2, WaitsForNothing DEF Questions
      <3> QED
        BY <3>1, <3>2
    <2>11. Ready(x)
      <3>1. Ready(w)
        BY DEF Synced
      <3>2. CASE x = w
        BY <3>1, <3>2
      <3>3. CASE a /\ m.type = "BackForwardGoToItem" /\ x = [w EXCEPT !.wait = "went"]
        <4>1. x.wait = "went"
          BY <2>1, <3>3 DEF Webs
        <4> QED
          BY <2>5, <3>1, <4>1 DEF Ready, Decided
      <3>4. CASE a /\ m.type = "DecidePolicyForNavigationAction"
        <4>1. w.wait = "policy"
          BY <2>9, <3>4 DEF Questions
        <4> QED
          BY <2>5, <3>1, <4>1 DEF Ready, Decided
      <3> QED
        BY <2>1, <3>2, <3>3, <3>4
    <2>12. a = FALSE => u = << >> /\ x = Web!NewWebProcess
      <3>1. a = FALSE => w = Web!NewWebProcess
        BY DEF Synced
      <3> QED
        BY <3>1
    <2>13. Synced(q, x, a, u, Tail(tu))
      BY <2>1, <2>10, <2>11, <2>12 DEF Synced
    <2> QED
      BY <2>4, <2>6, <2>7, <2>13
  <1>ServedEvidence.
    ASSUME NEW p \in Pages, NEW w \in Webs, NEW a, NEW tw, NEW tu \in Seq(UIMessages),
           NEW q \in Pages, NEW x, NEW u, NEW m,
           Evidence(p, w, a, tw, tu), tu # << >>, m = Head(tu),
           Sent(tw, Requests) => Sent(u, Requests),
           Sent(tw, Requests \ {"StopLoading"}) => Sent(u, Requests \ {"StopLoading"}),
           q.timer \/ ~q.responsive => m.type \notin Done /\ (p.timer \/ ~p.responsive),
           q.pending # 0 => q.pending = p.pending /\ q.dropped = p.dropped,
           m.type \in Answers => q.pending = 0,
           \/ x = w
           \/ x = [w EXCEPT !.wait = "went"] \/ x = [w EXCEPT !.wait = "use"]
           \/ x = [w EXCEPT !.wait = "download"]
           \/ x = [w EXCEPT !.wait = "ignore"] /\ q.pending = 0
    PROVE  Evidence(q, x, a, u, Tail(tu))
    <2> USE <1>ServedEvidence
    <2>1. /\ Sent(tu, Done) <=> m.type \in Done \/ Sent(Tail(tu), Done)
          /\ Sent(tu, Answers) <=> m.type \in Answers \/ Sent(Tail(tu), Answers)
      BY SentTail
    <2>2. x.handling = w.handling /\ x.next = w.next
      BY SMTT(30) DEF Webs
    <2>3. q.pending # 0 /\ w.wait \in Backed => x.wait \in Backed
      BY DEF Webs, Backed
    <2>4. a /\ (q.timer \/ ~q.responsive) =>
            Sent(u, Requests) \/ x.handling \/ Sent(Tail(tu), Done)
      BY <2>1, <2>2 DEF Evidence
    <2>5. a /\ q.pending # 0 =>
            \/ q.dropped
            \/ Sent(u, Requests \ {"StopLoading"})
            \/ x.wait \in Backed /\ x.next # Web!Nothing
            \/ Sent(Tail(tu), Answers)
      BY <2>1, <2>2, <2>3 DEF Evidence
    <2> QED
      BY <2>4, <2>5 DEF Evidence
  <1>SendsFacts.
    ASSUME NEW a \in BOOLEAN, NEW tw \in Seq(WebMessages), NEW out \in Seq(WebMessages),
           a = FALSE => tw = << >>
    PROVE  /\ Sends(a, tw, out) \in Seq(WebMessages)
           /\ a = FALSE => Sends(a, tw, out) = << >>
           /\ \A T : Sent(tw, T) => Sent(Sends(a, tw, out), T)
    <2> USE <1>SendsFacts
    <2>1. CASE a
      <3>1. Sends(a, tw, out) = tw \o out
        BY <2>1 DEF Sends
      <3>2. tw \o out \in Seq(WebMessages)
        BY ConcatFacts
      <3>3. \A T : Sent(tw, T) => Sent(tw \o out, T)
        BY SentConcat
      <3> QED
        BY <2>1, <3>1, <3>2, <3>3
    <2>2. CASE a = FALSE
      <3>1. Sends(a, tw, out) = << >> /\ tw = << >> /\ << >> \in Seq(WebMessages)
        BY <2>2 DEF Sends
      <3> QED
        BY <2>2, <3>1
    <2> QED
      BY <2>1, <2>2
  <1>HandlesKeeps.
    ASSUME NEW p, NEW w, NEW a, NEW tw, NEW tu, NEW m, NEW h, NEW x, NEW u, NEW q,
           Good(p, w, a, tw, tu), p.valid, tu # << >>, m = Head(tu),
           Handles(p, h, m), Buttons(h), Resumes(w, x, a, h, m), q = Posted(h),
           u = Sends(a, tw, h.out), IDs(q, w, a, u, Tail(tu))
    PROVE  Good(q, x, a, u, Tail(tu))
    <2> USE <1>HandlesKeeps
    <2>1. /\ Typed(p, w, a, tw, tu) /\ Synced(p, w, a, tw, tu) /\ Loads(p, w, a, tu)
          /\ Evidence(p, w, a, tw, tu) /\ IDs(p, w, a, tw, tu)
      BY DEF Good
    <2>2. /\ p \in Pages /\ w \in Webs /\ a \in BOOLEAN
          /\ tw \in Seq(WebMessages) /\ tu \in Seq(UIMessages)
      BY <2>1 DEF Typed
    <2>3. h \in Pages /\ h.out \in Seq(WebMessages)
      BY DEF Handles, Pages
    <2>4. /\ q \in Pages /\ q.out = << >> /\ q.fresh = FALSE
          /\ SameButtons(h, q) /\ SameIDs(h, q)
          /\ q.pending = h.pending /\ q.state = h.state /\ q.valid = h.valid
          /\ q.timer = h.timer /\ q.responsive = h.responsive /\ q.dropped = h.dropped
      BY <2>3, PostedFacts
    <2>5. /\ u \in Seq(WebMessages) /\ (a = FALSE => u = << >>)
          /\ \A T : Sent(tw, T) => Sent(u, T)
      <3>1. a = FALSE => tw = << >>
        BY <2>1 DEF Synced
      <3>2. /\ Sends(a, tw, h.out) \in Seq(WebMessages)
            /\ a = FALSE => Sends(a, tw, h.out) = << >>
            /\ \A T : Sent(tw, T) => Sent(Sends(a, tw, h.out), T)
        BY <2>2, <2>3, <3>1, <1>SendsFacts
      <3> QED
        BY <3>2
    <2>6. \/ m.type \notin Questions /\ x = w
          \/ a = FALSE /\ x = w
          \/ a /\ m.type = "BackForwardGoToItem" /\ x = [w EXCEPT !.wait = "went"]
          \/ /\ a /\ m.type = "DecidePolicyForNavigationAction"
             /\ \E action \in {"use", "ignore", "download"} : x = [w EXCEPT !.wait = action]
      BY DEF Resumes
    <2>7. /\ Typed(q, x, a, u, Tail(tu)) /\ Synced(q, x, a, u, Tail(tu))
          /\ Loads(q, x, a, Tail(tu))
      <3>1. q.valid = p.valid /\ q.state = StateAfter(p.state, m.type)
        BY <2>4 DEF Handles
      <3> QED
        BY <2>1, <2>4, <2>5, <2>6, <3>1, <1>ServedKeeps
    <2>8. Evidence(q, x, a, u, Tail(tu))
      <3>1. /\ Sent(tw, Requests) => Sent(u, Requests)
            /\ Sent(tw, Requests \ {"StopLoading"}) => Sent(u, Requests \ {"StopLoading"})
        BY <2>5
      <3>2. /\ q.timer \/ ~q.responsive => m.type \notin Done /\ (p.timer \/ ~p.responsive)
            /\ q.pending # 0 => q.pending = p.pending /\ q.dropped = p.dropped
            /\ m.type \in Answers => q.pending = 0
        BY <2>4 DEF Handles
      <3>3. \/ x = w
            \/ x = [w EXCEPT !.wait = "went"] \/ x = [w EXCEPT !.wait = "use"]
            \/ x = [w EXCEPT !.wait = "download"]
            \/ x = [w EXCEPT !.wait = "ignore"] /\ q.pending = 0
        BY <2>4 DEF Resumes
      <3> QED
        BY <2>1, <2>2, <2>4, <3>1, <3>2, <3>3, <1>ServedEvidence
    <2>9. IDs(q, x, a, u, Tail(tu))
      <3>1. a => w.created
        BY <2>1, <2>2 DEF IDs, Counted, Webs
      <3>2. /\ x \in Webs /\ x.created = w.created /\ x.known = w.known
            /\ x.uniqueHistoryItemID = w.uniqueHistoryItemID
        BY <2>2, <2>6 DEF Webs
      <3> QED
        BY <2>2, <3>1, <3>2, <1>IDsResume
    <2>10. Buttons(q)
      BY <2>4 DEF Buttons, SameButtons
    <2> QED
      BY <2>7, <2>8, <2>9, <2>10 DEF Good
  <1>PlainHandles.
    ASSUME NEW p \in Pages, p.out = << >>, p.fresh = FALSE, NEW m, NEW h, Plainly(p, h, m)
    PROVE  /\ Handles(p, h, m) /\ SameIDs(p, h) /\ SameButtons(p, h) /\ h.out = << >>
    <2> USE <1>PlainHandles
    <2>1. CASE m.type = "DidStartProvisionalLoad" /\ h = DidStartProvisionalLoad(p)
      BY <2>1 DEF DidStartProvisionalLoad, Handles, SameIDs, SameButtons, Pages, StateAfter,
        Stops, States, Done, Answers
    <2>2. CASE m.type = "DidFailProvisionalLoad" /\ h = DidFailProvisionalLoad(p)
      BY <2>2 DEF DidFailProvisionalLoad, Handles, SameIDs, SameButtons, Pages, StateAfter,
        Stops, States, Done, Answers
    <2>3. CASE m.type = "DidCommitLoad" /\ h = DidCommitLoad(p)
      BY <2>3 DEF DidCommitLoad, Handles, SameIDs, SameButtons, Pages, StateAfter,
        Stops, States, Done, Answers
    <2>4. CASE m.type \in {"DidFinishLoad", "DidFailLoad"} /\ h = DidFinishLoad(p)
      BY <2>4 DEF DidFinishLoad, Handles, SameIDs, SameButtons, Pages, StateAfter,
        Stops, States, Done, Answers
    <2>5. CASE m.type = "DidSameDocumentNavigation" /\ h = DidSameDocumentNavigation(p)
      BY <2>5 DEF DidSameDocumentNavigation, Handles, SameIDs, SameButtons, Pages, StateAfter,
        Stops, States, Done, Answers
    <2>6. CASE m.type = "StopResponsivenessTimer" /\ h = StopResponsivenessTimer(p)
      BY <2>6 DEF StopResponsivenessTimer, Handles, SameIDs, SameButtons, Pages, StateAfter,
        Stops, States, Done, Answers
    <2>7. CASE /\ m.type = "DecidePolicyForNavigationAction"
               /\ \E url, action : h = DecidePolicyForNavigationAction(p, url, action)
      <3>1. PICK n \in {0, p.pending} : h = [p EXCEPT !.pending = n]
        BY <2>7 DEF DecidePolicyForNavigationAction, Pages
      <3>2. n \in Nat
        BY <3>1, SMTT(30) DEF Pages
      <3>3. /\ h \in Pages /\ SameIDs(p, h) /\ SameButtons(p, h) /\ h.out = p.out
            /\ h.fresh = p.fresh /\ h.valid = p.valid /\ h.state = p.state /\ h.timer = p.timer
            /\ h.responsive = p.responsive /\ h.dropped = p.dropped /\ h.pending = n
        BY <3>1, <3>2 DEF SameIDs, SameButtons, Pages
      <3> QED
        BY <2>7, <3>1, <3>3 DEF Handles, StateAfter, Stops, Done, Answers
    <2> QED
      BY <2>1, <2>2, <2>3, <2>4, <2>5, <2>6, <2>7 DEF Plainly
  \* The messages that change the list leave the rest alone.
  <1>ListHandles.
    ASSUME NEW p \in Pages, p.fresh = FALSE, NEW m, NEW h \in Pages,
           m.type \in Additions \cup {"BackForwardGoToItem", "BackForwardClear"},
           h.pending = p.pending, h.state = p.state, h.valid = p.valid,
           h.timer = p.timer, h.responsive = p.responsive, h.dropped = p.dropped,
           h.fresh = p.fresh
    PROVE  Handles(p, h, m)
    BY <1>ListHandles DEF Handles, StateAfter, Additions, Stops, Done, Answers
  <1>DispatchPlain.
    ASSUME NEW p, NEW w, NEW a, NEW tw, NEW tu, NEW m, NEW h, NEW x, NEW u, NEW q,
           Good(p, w, a, tw, tu), Arrives(p, tu, m), Plainly(p, h, m),
           Resumes(w, x, a, h, m), Yields(h, q, a, tw, u)
    PROVE  Good(q, x, a, u, Tail(tu)) /\ SameButtons(p, q) /\ h.fresh = FALSE
    <2> USE <1>DispatchPlain
    <2>0. /\ p.valid /\ tu # << >> /\ m = Head(tu) /\ q = Posted(h)
          /\ u = Sends(a, tw, h.out)
      BY DEF Arrives, Yields
    <2>1. /\ p \in Pages /\ p.out = << >> /\ p.fresh = FALSE /\ w \in Webs /\ a \in BOOLEAN
          /\ tw \in Seq(WebMessages) /\ tu \in Seq(UIMessages) /\ Buttons(p)
          /\ IDs(p, w, a, tw, tu) /\ (a = FALSE => tw = << >>)
      BY DEF Good, Typed, Synced
    <2>2. Handles(p, h, m) /\ SameIDs(p, h) /\ SameButtons(p, h) /\ h.out = << >>
      BY <2>1, <1>PlainHandles
    <2>3. u = tw
      BY <2>0, <2>1, <2>2, SendsNothing
    <2>4. q \in Pages /\ SameButtons(h, q) /\ SameIDs(h, q)
      BY <2>0, <2>2, PostedFacts DEF Handles
    <2>5. SameIDs(p, q) /\ q.lastID = p.lastID
      BY <2>2, <2>4 DEF SameIDs
    <2>6. m.type \notin Additions
      BY DEF Additions, Plainly
    <2>7. IDs(q, w, a, u, Tail(tu))
      BY <2>0, <2>1, <2>3, <2>4, <2>5, <2>6, <1>IDsHandled
    <2>8. Buttons(h) /\ SameButtons(p, q)
      BY <2>1, <2>2, <2>4 DEF Buttons, SameButtons
    <2> QED
      BY <2>0, <2>2, <2>7, <2>8, <1>HandlesKeeps DEF Handles
  <1>DispatchAddBackForwardItem.
    ASSUME NEW p, NEW w, NEW a, NEW tw, NEW tu, NEW m, NEW h, NEW x, NEW u, NEW q,
           Good(p, w, a, tw, tu), Arrives(p, tu, m), Learned(p, h, m),
           Resumes(w, x, a, h, m), Yields(h, q, a, tw, u)
    PROVE  Good(q, x, a, u, Tail(tu)) /\ SameButtons(p, q) /\ h.fresh = FALSE
    <2> USE <1>DispatchAddBackForwardItem
    <2>0. /\ p.valid /\ tu # << >> /\ m = Head(tu) /\ q = Posted(h)
          /\ u = Sends(a, tw, h.out) /\ m.type = "AddBackForwardItem"
      BY DEF Arrives, Yields, Learned
    <2>1. /\ p \in Pages /\ p.out = << >> /\ p.fresh = FALSE /\ w \in Webs /\ a \in BOOLEAN
          /\ tw \in Seq(WebMessages) /\ tu \in Seq(UIMessages) /\ Buttons(p)
          /\ IDs(p, w, a, tw, tu) /\ (a = FALSE => tw = << >>)
      BY DEF Good, Typed, Synced
    <2>2. m.id \in Nat
      <3>1. m \in UIMessages
        BY <2>0, <2>1, TailFacts
      <3> QED
        BY <3>1 DEF UIMessages
    <2>3. PICK n \in Nat : n = IF m.id > p.highest THEN m.id ELSE p.highest
      BY <2>1, <2>2 DEF Pages
    <2>4. PICK s \in SUBSET Nat : s = p.items \cup {m.id}
      BY <2>1, <2>2 DEF Pages
    <2>5. h = [p EXCEPT !.items = s, !.highest = n]
      BY <2>1, <2>3, <2>4 DEF AddBackForwardItem, Learned, Pages
    <2>6. /\ h \in Pages /\ h.items = s /\ h.highest = n /\ h.lastID = p.lastID
          /\ h.out = p.out /\ SameButtons(p, h)
          /\ h.pending = p.pending /\ h.state = p.state /\ h.valid = p.valid
          /\ h.timer = p.timer /\ h.responsive = p.responsive /\ h.dropped = p.dropped
          /\ h.fresh = p.fresh
      BY <2>1, <2>5 DEF Pages, SameButtons
    <2>7. Handles(p, h, m)
      BY <2>0, <2>1, <2>6, <1>ListHandles DEF Additions
    <2>8. u = tw
      BY <2>0, <2>1, <2>6, SendsNothing
    <2>9. q \in Pages /\ SameButtons(h, q) /\ SameIDs(h, q)
      BY <2>0, <2>6, PostedFacts
    <2>10. Buttons(h) /\ SameButtons(p, q)
      BY <2>1, <2>6, <2>9 DEF Buttons, SameButtons
    <2>11. IDs(q, w, a, u, Tail(tu))
      BY <2>1, <2>3, <2>4, <2>6, <2>8, <2>9, <2>10, <2>0, <1>IDsHandled DEF SameIDs, SameButtons
    <2> QED
      BY <2>0, <2>7, <2>10, <2>11, <1>HandlesKeeps DEF Handles
  \* A message that changes the list is handled.
  <1>DispatchList.
    ASSUME NEW p, NEW w, NEW a, NEW tw, NEW tu, NEW m, NEW h, NEW x, NEW u, NEW q,
           Good(p, w, a, tw, tu), Receives(p, tu, m), Yields(h, q, a, tw, u),
           Relists(p, h), Resumes(w, x, a, h, m), IDs(h, w, a, u, Tail(tu))
    PROVE  Good(q, x, a, u, Tail(tu)) /\ h.fresh = FALSE /\ SameButtons(h, q)
    <2> USE <1>DispatchList
    <2>0. /\ p.valid /\ tu # << >> /\ m = Head(tu) /\ q = Posted(h)
          /\ u = Sends(a, tw, h.out)
          /\ m.type \in {"BackForwardAddItem", "BackForwardGoToItem", "BackForwardClear"}
      BY DEF Receives, Yields
    <2>1. p \in Pages /\ p.fresh = FALSE
      BY DEF Good, Typed
    <2>2. /\ h \in Pages /\ h.pending = p.pending /\ h.state = p.state /\ h.valid = p.valid
          /\ h.timer = p.timer /\ h.responsive = p.responsive /\ h.dropped = p.dropped
          /\ h.fresh = p.fresh /\ Buttons(h)
      BY DEF Relists, SameRest
    <2>3. m.type \in Additions \cup {"BackForwardGoToItem", "BackForwardClear"}
      BY <2>0 DEF Additions
    <2>4. Handles(p, h, m)
      BY <2>1, <2>2, <2>3, <1>ListHandles
    <2>5. SameButtons(h, q) /\ SameIDs(h, q)
      BY <2>0, <2>2, PostedFacts
    <2>6. IDs(q, w, a, u, Tail(tu))
      BY <2>5, IDsSame
    <2>7. Good(q, x, a, u, Tail(tu))
      BY <2>0, <2>2, <2>4, <2>6, <1>HandlesKeeps
    <2> QED
      BY <2>1, <2>2, <2>5, <2>7
  \* A message that changes nothing is handled.
  <1>DispatchNothing.
    ASSUME NEW p, NEW w, NEW a, NEW tw, NEW tu, NEW m, NEW x, NEW u, NEW q,
           Good(p, w, a, tw, tu), p.valid, tu # << >>, m = Head(tu),
           m.type \in {"BackForwardGoToItem", "BackForwardClear"},
           Resumes(w, x, a, p, m), q = Posted(p), u = Sends(a, tw, p.out)
    PROVE  Good(q, x, a, u, Tail(tu)) /\ p.fresh = FALSE /\ SameButtons(p, q)
    <2> USE <1>DispatchNothing
    <2>1. /\ p \in Pages /\ p.out = << >> /\ p.fresh = FALSE /\ w \in Webs /\ a \in BOOLEAN
          /\ tw \in Seq(WebMessages) /\ tu \in Seq(UIMessages) /\ Buttons(p)
          /\ IDs(p, w, a, tw, tu) /\ (a = FALSE => tw = << >>)
      BY DEF Good, Typed, Synced
    <2>2. u = tw
      BY <2>1, SendsNothing
    <2>3. m.type \notin Additions
      BY DEF Additions
    <2>4. IDs(p, w, a, u, Tail(tu))
      BY <2>1, <2>2, <2>3, <1>IDsHandled DEF SameIDs
    <2>5. Relists(p, p)
      BY <2>1 DEF Relists, SameRest
    <2>6. Receives(p, tu, m) /\ Yields(p, q, a, tw, u)
      BY DEF Receives, Yields
    <2>7. Good(q, x, a, u, Tail(tu))
      BY <2>4, <2>5, <2>6, <1>DispatchList
    <2> QED
      BY <2>1, <2>7, PostedFacts
  <1>DispatchClear.
    ASSUME NEW p, NEW w, NEW a, NEW tw, NEW tu, NEW m, NEW h, NEW x, NEW u, NEW q,
           Good(p, w, a, tw, tu), Receives(p, tu, m), m.type = "BackForwardClear",
           Yields(h, q, a, tw, u), Resumes(w, x, a, h, m), NEW removed, NEW e, Clears(p, h, removed, e)
    PROVE  Relisted(q, x, a, u, tu, h, e, 1)
    <2> USE <1>DispatchClear
    <2>1. /\ p \in Pages /\ p.out = << >> /\ w \in Webs /\ a \in BOOLEAN
          /\ tw \in Seq(WebMessages) /\ tu \in Seq(UIMessages)
          /\ IDs(p, w, a, tw, tu) /\ (a = FALSE => tw = << >>)
      BY DEF Good, Typed, Synced
    <2>2. Splits(p, removed, e) /\ e \in Seq(Nat) /\ 1 \in Nat
      BY DEF Splits, Clears
    <2>3. h = SetList(BackForwardRemovedItems(p, removed), e, 1)
      BY DEF Clears
    <2>4. p.valid /\ tu # << >> /\ m = Head(tu)
      BY DEF Receives
    <2>5. /\ Relists(p, h) /\ h.entries = e /\ h.cur = 1
          /\ h.out = IF p.valid THEN Removals(removed) ELSE << >>
      <3>1. p \in Pages /\ p.out = << >>
        BY <2>1
      <3> HIDE <1>DispatchClear
      <3> QED
        BY <2>2, <2>3, <3>1, SplitsList, SMTT(30)
    <2>6. IDs(h, w, a, u, tu)
      <3>1. /\ h \in Pages /\ h.items = p.items /\ h.lastID = p.lastID
            /\ h.highest = p.highest /\ h.entries = e
        BY <2>5 DEF Relists, SameRest
      <3>2. /\ removed \in Seq(Nat) /\ Range(removed) \subseteq Range(p.entries)
            /\ Range(h.entries) \subseteq Range(p.entries) \ Range(removed)
        BY <2>2, <3>1 DEF Splits
      <3>3. u = Sends(a, tw, Removals(removed))
        BY <2>4, <2>5 DEF Yields
      <3> QED
        BY <2>1, <3>1, <3>2, <3>3, RemovedKeepIDs
    <2>7. IDs(h, w, a, u, Tail(tu))
      <3>1. Head(tu).type \notin Additions
        BY <2>4 DEF Additions
      <3>2. h \in Pages
        BY <2>5 DEF Relists
      <3> QED
        BY <2>1, <2>4, <2>6, <3>1, <3>2, <1>IDsHandled DEF SameIDs
    <2>8. Relists(p, h)
      BY <2>5
    <2>9. Good(q, x, a, u, Tail(tu)) /\ h.fresh = FALSE /\ SameButtons(h, q)
      BY <2>7, <2>8, <1>DispatchList
    <2> QED
      BY <2>5, <2>9 DEF SameButtons, Relisted
  <1>DispatchGoToItem.
    ASSUME NEW p, NEW w, NEW a, NEW tw, NEW tu, NEW m, NEW h, NEW x, NEW u, NEW q,
           Good(p, w, a, tw, tu), Receives(p, tu, m), m.type = "BackForwardGoToItem",
           Yields(h, q, a, tw, u), Resumes(w, x, a, h, m),
           NEW e, NEW c, GoesTo(p, h, e, c)
    PROVE  Relisted(q, x, a, u, tu, h, e, c)
    <2> USE <1>DispatchGoToItem
    <2>1. /\ p \in Pages /\ p.out = << >> /\ w \in Webs /\ a \in BOOLEAN
          /\ tw \in Seq(WebMessages) /\ tu \in Seq(UIMessages)
          /\ IDs(p, w, a, tw, tu) /\ (a = FALSE => tw = << >>)
      BY DEF Good, Typed, Synced
    <2>2. e \in Seq(Nat) /\ Range(e) \subseteq Range(p.entries)
      BY DEF GoesTo, Splits
    <2>2a. c \in Nat /\ h = SetList(p, e, c)
      BY DEF GoesTo
    <2>3. /\ h \in Pages /\ h.entries = e /\ h.cur = c /\ h.out = p.out
          /\ SameRest(p, h) /\ Buttons(h)
      <3>1. p \in Pages
        BY <2>1
      <3> HIDE <1>DispatchGoToItem
      <3> QED
        BY <2>2, <2>2a, <3>1, SetListFacts, SMTT(30)
    <2>4. Relists(p, h)
      BY <2>3 DEF Relists
    <2>5. u = tw
      BY <2>1, <2>3, SendsNothing DEF Yields
    <2>6. h.items = p.items /\ h.lastID = p.lastID /\ h.highest = p.highest
      BY <2>3 DEF SameRest
    <2>7. IDs(h, w, a, u, tu)
      BY <2>1, <2>2, <2>3, <2>5, <2>6, IDsShrink
    <2>8. tu # << >> /\ Head(tu).type \notin Additions
      BY DEF Additions, Receives
    <2>9. IDs(h, w, a, u, Tail(tu))
      BY <2>1, <2>3, <2>7, <2>8, <1>IDsHandled DEF SameIDs
    <2>10. Good(q, x, a, u, Tail(tu)) /\ h.fresh = FALSE /\ SameButtons(h, q)
      BY <2>4, <2>9, <1>DispatchList
    <2> QED
      BY <2>3, <2>10 DEF SameButtons, Relisted
  \* The item to be added is known, and not listed.
  <1>NewItem.
    ASSUME NEW p, NEW w, NEW a, NEW tw, NEW tu, NEW m, Good(p, w, a, tw, tu),
           Receives(p, tu, m), m.type = "BackForwardAddItem"
    PROVE  m.id \in p.items /\ m.id \in Nat \ {0, 1} /\ ~IsListed(p.entries, m.id)
    <2> USE <1>NewItem
    <2>1. /\ p \in Pages /\ tu \in Seq(UIMessages) /\ IDs(p, w, a, tw, tu)
      BY DEF Good, Typed
    <2>2. tu # << >> /\ m = Head(tu)
      BY DEF Receives
    <2>3. m = tu[1] /\ m \in UIMessages /\ Len(tu) \in Nat \ {0}
      BY <2>1, <2>2, TailFacts
    <2>4. 1 \in 1 .. Len(tu) /\ m.type \in Additions
      BY <2>3, SMTT(30) DEF Additions
    <2>5. m.id \in Nat
      BY <2>3 DEF UIMessages
    <2>6. InUI(p, w, a, tw, tu)
      BY <2>1 DEF IDs
    <2>7. /\ Odd(m.id) /\ 1 < m.id /\ m.id \in p.items
          /\ \A n \in Range(p.entries) : Odd(n) => n < m.id
      BY <2>3, <2>4, <2>6 DEF InUI
    <2>8. m.id \in Nat \ {0, 1}
      BY <2>5, <2>7, SMTT(30)
    <2>9. ~(m.id < m.id)
      BY <2>5, SMTT(30)
    <2>10. IsListed(p.entries, m.id) => m.id \in Range(p.entries)
      <3>1. p.entries \in Seq(Nat)
        BY <2>1 DEF Pages
      <3> QED
        BY <3>1, SMTT(30) DEF IsListed, Range
    <2> QED
      BY <2>7, <2>8, <2>9, <2>10
  <1>DispatchAddItem.
    ASSUME NEW p, NEW w, NEW a, NEW tw, NEW tu, NEW m, NEW h, NEW x, NEW u, NEW q,
           Good(p, w, a, tw, tu), Receives(p, tu, m), m.type = "BackForwardAddItem",
           Yields(h, q, a, tw, u), Resumes(w, x, a, h, m), NEW removed, NEW kept, NEW e,
           Lengthens(p, h, removed, kept, e, m.id)
    PROVE  Relisted(q, x, a, u, tu, h, e, Len(e))
    <2> USE <1>DispatchAddItem
    <2>1. /\ p \in Pages /\ p.out = << >> /\ w \in Webs /\ a \in BOOLEAN
          /\ tw \in Seq(WebMessages) /\ tu \in Seq(UIMessages)
          /\ IDs(p, w, a, tw, tu) /\ (a = FALSE => tw = << >>)
      BY DEF Good, Typed, Synced
    <2>2. /\ Splits(p, removed, kept) /\ e \in Seq(Nat)
          /\ h = SetList(BackForwardRemovedItems(p, removed), e, Len(e))
      BY DEF Lengthens
    <2>3. PICK c \in Nat : c = Len(e)
      BY <2>2, SMTT(30)
    <2>4. p.valid /\ tu # << >> /\ m = Head(tu)
      BY DEF Receives
    <2>5. h = SetList(BackForwardRemovedItems(p, removed), e, c)
      BY <2>2, <2>3
    <2>6. /\ Relists(p, h) /\ h.entries = e /\ h.cur = c
          /\ h.out = IF p.valid THEN Removals(removed) ELSE << >>
      <3>1. p \in Pages /\ p.out = << >>
        BY <2>1
      <3> HIDE <1>DispatchAddItem
      <3> QED
        BY <2>2, <2>5, <3>1, SplitsList, SMTT(30)
    <2>7. IDs(h, w, a, u, Tail(tu))
      <3>1. /\ removed \in Seq(Nat) /\ Range(removed) \subseteq Range(p.entries)
            /\ kept \in Seq(Nat) /\ Range(kept) \subseteq Range(p.entries) \ Range(removed)
        BY <2>2 DEF Splits
      <3>2. PICK r : r = [p EXCEPT !.entries = kept]
        OBVIOUS
      <3>3. r \in Pages
        BY <2>1, <3>1, <3>2 DEF Pages
      <3>4. /\ r.items = p.items /\ r.lastID = p.lastID /\ r.highest = p.highest
            /\ r.entries = kept
        BY <2>1, <3>2 DEF Pages
      <3>5. u = Sends(a, tw, Removals(removed))
        BY <2>4, <2>6 DEF Yields
      <3>6. Range(r.entries) \subseteq Range(p.entries) \ Range(removed)
        BY <3>1, <3>4
      <3>7. IDs(r, w, a, u, tu)
        BY <2>1, <3>1, <3>3, <3>4, <3>5, <3>6, RemovedKeepIDs
      <3>8. /\ h \in Pages /\ h.items = r.items /\ h.lastID = r.lastID
            /\ h.highest = r.highest
        BY <2>6, <3>4 DEF Relists, SameRest
      <3>9. /\ Head(tu).type = "BackForwardAddItem"
            /\ Range(h.entries) \subseteq Range(r.entries) \cup {Head(tu).id}
        BY <2>4, <2>6, <3>4 DEF Lengthens
      <3> QED
        BY <2>1, <2>4, <3>3, <3>7, <3>8, <3>9, <1>IDsHandled
    <2>8. Relists(p, h)
      BY <2>6
    <2>9. Good(q, x, a, u, Tail(tu)) /\ h.fresh = FALSE /\ SameButtons(h, q)
      BY <2>7, <2>8, <1>DispatchList
    <2> QED
      BY <2>3, <2>6, <2>9 DEF SameButtons, Relisted
  <1>HandleCases.
    ASSUME NEW p, NEW m, NEW keep, NEW h, h = Handle(p, m, keep)
    PROVE  /\ m.type = "AddBackForwardItem" => h = AddBackForwardItem(p, m.id)
           /\ m.type = "BackForwardAddItem" => h = BackForwardAddItem(p, m.id, keep)
           /\ m.type = "BackForwardGoToItem" => h = BackForwardGoToItem(p, m.id, keep)
           /\ m.type = "BackForwardClear" => h = ClearList(p)
           /\ m.type = "DidStartProvisionalLoad" => h = DidStartProvisionalLoad(p)
           /\ m.type = "DidFailProvisionalLoad" => h = DidFailProvisionalLoad(p)
           /\ m.type = "DidCommitLoad" => h = DidCommitLoad(p)
           /\ m.type \in {"DidFinishLoad", "DidFailLoad"} => h = DidFinishLoad(p)
           /\ m.type = "DidSameDocumentNavigation" => h = DidSameDocumentNavigation(p)
           /\ m.type = "StopResponsivenessTimer" => h = StopResponsivenessTimer(p)
    BY <1>HandleCases DEF Handle
  \* The UI process goes on with h, and the message is gone.
  <1>PostKeeps.
    ASSUME alive \in BOOLEAN, NEW h, PageBecomes(h), toUI' = Tail(toUI), NEW q, NEW u,
           Yields(h, q, alive, toWeb, u), h.fresh = FALSE,
           Good(q, web', alive, u, Tail(toUI))
    PROVE  Good(page, web, alive, toWeb, toUI)' /\ page' = q
    <2> USE <1>PostKeeps
    <2>1. q = Posted(h) /\ u = Sends(alive, toWeb, h.out)
      BY DEF Yields
    <2>2. /\ page' = Posted(h) /\ alive' = (alive \/ h.fresh)
          /\ toWeb' = IF h.fresh THEN h.out ELSE Sends(alive, toWeb, h.out)
      BY DEF PageBecomes, Posted, Sends
    <2>3. alive' = alive
      BY <2>2
    <2>4. toWeb' = u /\ page' = q
      BY <2>1, <2>2
    <2> QED
      BY <2>3, <2>4
  <1>ResumesWith.
    ASSUME alive \in BOOLEAN, NEW h, NEW m, NEW with, WebResumes(with),
           \/ m.type = "BackForwardGoToItem" /\ with = "went"
           \/ /\ m.type = "DecidePolicyForNavigationAction"
              /\ (with \in {"use", "download"} \/ (with = "ignore" /\ h.pending = 0))
    PROVE  Resumes(web, web', alive, h, m)
    <2> USE <1>ResumesWith
    <2>1. CASE alive
      <3>1. web' = [web EXCEPT !.wait = with]
        BY <2>1 DEF WebResumes
      <3> QED
        BY <2>1, <3>1 DEF Resumes
    <2>2. CASE alive = FALSE
      BY <2>2 DEF Resumes, WebResumes
    <2> QED
      BY <2>1, <2>2
  \* A message that is not about the list is handled.
  <1>DispatchPlainStep.
    ASSUME Good(page, web, alive, toWeb, toUI), DispatchMessage,
           Head(toUI).type \notin
             {"BackForwardAddItem", "BackForwardGoToItem", "BackForwardClear"}
    PROVE  Good(page, web, alive, toWeb, toUI)' /\ SameButtons(page, page')
    <2> USE <1>DispatchPlainStep
    <2>1. PICK m : m = Head(toUI)
      OBVIOUS
    <2>2. page.valid /\ toUI # << >> /\ toUI' = Tail(toUI)
      BY DEF DispatchMessage
    <2>3. page \in Pages /\ toUI \in Seq(UIMessages) /\ alive \in BOOLEAN
      BY DEF Good, Typed
    <2>4. m \in UIMessages
      BY <2>1, <2>2, <2>3, TailFacts
    <2>5. CASE m.type = "DecidePolicyForNavigationAction"
      <3>1. PICK action \in {"use", "ignore", "download"} :
              /\ PageBecomes(DecidePolicyForNavigationAction(page, m.id, action))
              /\ WebResumes(action)
        BY <2>1, <2>5 DEF DispatchMessage
      <3>2. PICK h : h = DecidePolicyForNavigationAction(page, m.id, action)
        OBVIOUS
      <3>3. action = "ignore" => h.pending = 0
        BY <2>3, <3>2 DEF DecidePolicyForNavigationAction, Pages
      <3>4. Resumes(web, web', alive, h, m)
        <4>1. WebResumes(action) /\ (action \in {"use", "download"} \/ action = "ignore")
          BY <3>1
        <4> QED
          BY <2>3, <2>5, <3>3, <4>1, <1>ResumesWith
      <3>5. PICK q, u : Yields(h, q, alive, toWeb, u)
        BY DEF Yields
      <3>6. Plainly(page, h, m) /\ Arrives(page, toUI, m)
        BY <2>1, <2>2, <2>5, <3>2 DEF Plainly, Arrives
      <3>7. Good(q, web', alive, u, Tail(toUI)) /\ SameButtons(page, q) /\ h.fresh = FALSE
        BY <3>4, <3>5, <3>6, <1>DispatchPlain
      <3>8. PageBecomes(h)
        BY <3>1, <3>2
      <3> QED
        BY <2>2, <2>3, <3>5, <3>7, <3>8, <1>PostKeeps
    <2>6. CASE m.type # "DecidePolicyForNavigationAction"
      <3>1. m.type # "BackForwardGoToItem" /\ m.type \notin Questions
        BY <2>1, <2>6 DEF Questions
      <3>2. PICK keep \in BOOLEAN : PageBecomes(Handle(page, m, keep)) /\ web' = web
        BY <2>1, <2>6, <3>1 DEF DispatchMessage
      <3>3. PICK h : h = Handle(page, m, keep)
        OBVIOUS
      <3>4. PICK q, u : Yields(h, q, alive, toWeb, u)
        BY DEF Yields
      <3>5. PageBecomes(h) /\ Arrives(page, toUI, m)
        BY <2>1, <2>2, <3>2, <3>3 DEF Arrives
      <3>6. Resumes(web, web', alive, h, m)
        BY <3>1, <3>2 DEF Resumes
      <3>7. CASE m.type = "AddBackForwardItem"
        <4>1. Learned(page, h, m)
          BY <3>3, <3>7, <1>HandleCases DEF Learned
        <4>2. Good(q, web', alive, u, Tail(toUI)) /\ SameButtons(page, q) /\ h.fresh = FALSE
          BY <3>4, <3>5, <3>6, <4>1, <1>DispatchAddBackForwardItem
        <4> QED
          BY <2>2, <2>3, <3>4, <3>5, <4>2, <1>PostKeeps
      <3>8. CASE m.type # "AddBackForwardItem"
        <4>1. \/ m.type = "DidStartProvisionalLoad"
              \/ m.type = "DidFailProvisionalLoad"
              \/ m.type = "DidCommitLoad"
              \/ m.type \in {"DidFinishLoad", "DidFailLoad"}
              \/ m.type = "DidSameDocumentNavigation"
              \/ m.type = "StopResponsivenessTimer"
          BY <2>1, <2>4, <2>6, <3>8
             DEF UIMessages, UITypes, Starts, Stops, Additions, Questions, Answers, Done
        <4>2. Plainly(page, h, m)
          BY <3>3, <4>1, <1>HandleCases DEF Plainly
        <4>3. Good(q, web', alive, u, Tail(toUI)) /\ SameButtons(page, q) /\ h.fresh = FALSE
          BY <3>4, <3>5, <3>6, <4>2, <1>DispatchPlain
        <4> QED
          BY <2>2, <2>3, <3>4, <3>5, <4>3, <1>PostKeeps
      <3> QED
        BY <3>7, <3>8
    <2> QED
      BY <2>5, <2>6
  <1>ListMessage.
    ASSUME Good(page, web, alive, toWeb, toUI), DispatchMessage, NEW m, m = Head(toUI),
           m.type \in {"BackForwardAddItem", "BackForwardGoToItem", "BackForwardClear"}
    PROVE  \E keep \in BOOLEAN : \E h, q, u :
             /\ h = Handle(page, m, keep) /\ PageBecomes(h) /\ Yields(h, q, alive, toWeb, u)
             /\ Receives(page, toUI, m) /\ toUI' = Tail(toUI)
             /\ Resumes(web, web', alive, h, m)
    <2> USE <1>ListMessage
    <2>1. m.type # "DecidePolicyForNavigationAction"
      OBVIOUS
    <2>2. PICK keep \in BOOLEAN :
            /\ PageBecomes(Handle(page, m, keep))
            /\ IF m.type = "BackForwardGoToItem" THEN WebResumes("went") ELSE UNCHANGED web
      BY <2>1 DEF DispatchMessage
    <2>3. PICK h : h = Handle(page, m, keep)
      OBVIOUS
    <2>4. PICK q, u : Yields(h, q, alive, toWeb, u)
      BY DEF Yields
    <2>5. Receives(page, toUI, m) /\ toUI' = Tail(toUI)
      BY DEF Receives, DispatchMessage
    <2>6. alive \in BOOLEAN
      BY DEF Good, Typed
    <2>7. Resumes(web, web', alive, h, m)
      <3>1. CASE m.type = "BackForwardGoToItem"
        BY <2>2, <2>6, <3>1, <1>ResumesWith
      <3>2. CASE m.type # "BackForwardGoToItem"
        <4>1. m.type \notin Questions
          BY <3>2 DEF Questions
        <4> QED
          BY <2>2, <3>2, <4>1 DEF Resumes
      <3> QED
        BY <3>1, <3>2
    <2> QED
      BY <2>2, <2>3, <2>4, <2>5, <2>7
  <1>DispatchAddStep.
    ASSUME Good(page, web, alive, toWeb, toUI), List!ListOK, DispatchMessage,
           NEW m, m = Head(toUI), m.type = "BackForwardAddItem"
    PROVE  Good(page, web, alive, toWeb, toUI)' /\ List!Next
    <2> USE <1>DispatchAddStep
    <2>1. PICK keep \in BOOLEAN : \E h, q, u :
             /\ h = Handle(page, m, keep) /\ PageBecomes(h) /\ Yields(h, q, alive, toWeb, u)
             /\ Receives(page, toUI, m) /\ toUI' = Tail(toUI)
             /\ Resumes(web, web', alive, h, m)
      BY <1>ListMessage
    <2>2. PICK h, q, u :
             /\ h = Handle(page, m, keep) /\ PageBecomes(h) /\ Yields(h, q, alive, toWeb, u)
             /\ Receives(page, toUI, m) /\ toUI' = Tail(toUI)
             /\ Resumes(web, web', alive, h, m)
      BY <2>1
    <2>2a. /\ Receives(page, toUI, m) /\ Yields(h, q, alive, toWeb, u)
           /\ Resumes(web, web', alive, h, m)
      BY <2>2
    <2>3. m.id \in page.items /\ m.id \in Nat \ {0, 1} /\ ~IsListed(page.entries, m.id)
      BY <2>2, <1>NewItem
    <2>4. m.id \in Nat
      BY <2>3
    <2>5. PICK removed : removed = RemovedByAdd(page.entries, page.cur)
      OBVIOUS
    <2>6. PICK kept : kept = KeptByAdd(page.entries, page.cur)
      OBVIOUS
    <2>7. PICK e : e = EntriesAfterAdd(page.entries, page.cur, m.id, keep)
      OBVIOUS
    <2>8. /\ removed \in Seq(Nat) /\ Range(removed) \subseteq Range(page.entries)
          /\ kept \in Seq(Nat) /\ Range(kept) \subseteq Range(page.entries) \ Range(removed)
          /\ e \in Seq(Nat) /\ Range(e) \subseteq Range(kept) \cup {m.id}
      BY <2>1, <2>4, <2>5, <2>6, <2>7, AddToPage
    <2>9. h = BackForwardAddItem(page, m.id, keep)
      BY <2>2, <1>HandleCases
    <2>10. h = SetList(BackForwardRemovedItems(page, removed), e, Len(e))
      BY <2>3, <2>5, <2>7, <2>9 DEF BackForwardAddItem
    <2>11. Lengthens(page, h, removed, kept, e, m.id)
      BY <2>8, <2>10 DEF Lengthens, Splits
    <2>12. /\ Good(q, web', alive, u, Tail(toUI)) /\ h.fresh = FALSE
           /\ q.entries = e /\ q.cur = Len(e)
      <3>1. Relisted(q, web', alive, u, toUI, h, e, Len(e))
        BY <2>2a, <2>11, <1>DispatchAddItem
      <3> QED
        BY <3>1 DEF Relisted
    <2>13. alive \in BOOLEAN
      BY DEF Good, Typed
    <2>14. Good(page, web, alive, toWeb, toUI)' /\ page' = q
      BY <2>2, <2>12, <2>13, <1>PostKeeps
    <2>15. page'.entries = EntriesAfterAdd(page.entries, page.cur, m.id, keep)
           /\ page'.cur = Len(page'.entries)
      BY <2>7, <2>12, <2>14
    <2>16. List!Next
      BY <2>1, <2>3, <2>15, AddIsListStep
    <2> QED
      BY <2>14, <2>16
  <1>DispatchGoToStep.
    ASSUME Good(page, web, alive, toWeb, toUI), List!ListOK, DispatchMessage,
           NEW m, m = Head(toUI), m.type = "BackForwardGoToItem"
    PROVE  Good(page, web, alive, toWeb, toUI)' /\ [List!Next]_(List!vars)
    <2> USE <1>DispatchGoToStep
    <2>1. PICK keep \in BOOLEAN : \E h, q, u :
             /\ h = Handle(page, m, keep) /\ PageBecomes(h) /\ Yields(h, q, alive, toWeb, u)
             /\ Receives(page, toUI, m) /\ toUI' = Tail(toUI)
             /\ Resumes(web, web', alive, h, m)
      BY <1>ListMessage
    <2>2. PICK h, q, u :
             /\ h = Handle(page, m, keep) /\ PageBecomes(h) /\ Yields(h, q, alive, toWeb, u)
             /\ Receives(page, toUI, m) /\ toUI' = Tail(toUI)
             /\ Resumes(web, web', alive, h, m)
      BY <2>1
    <2>2a. /\ Receives(page, toUI, m) /\ Yields(h, q, alive, toWeb, u)
           /\ Resumes(web, web', alive, h, m)
      BY <2>2
    <2>3. h = BackForwardGoToItem(page, m.id, keep)
      BY <2>2, <1>HandleCases
    <2>4. alive \in BOOLEAN
      BY DEF Good, Typed
    <2>5. CASE h = page
      <3>1. /\ page.valid /\ toUI # << >> /\ q = Posted(page)
            /\ u = Sends(alive, toWeb, page.out)
        BY <2>2, <2>5 DEF Receives, Yields
      <3>2. m.type \in {"BackForwardGoToItem", "BackForwardClear"}
        OBVIOUS
      <3>3. Resumes(web, web', alive, page, m)
        BY <2>2, <2>5
      <3>4. Good(q, web', alive, u, Tail(toUI)) /\ page.fresh = FALSE /\ SameButtons(page, q)
        BY <3>1, <3>2, <3>3, <1>DispatchNothing
      <3>5. Good(page, web, alive, toWeb, toUI)' /\ page' = q
        BY <2>2, <2>4, <2>5, <3>4, <1>PostKeeps
      <3> QED
        BY <3>4, <3>5, SameList
    <2>6. CASE m.id \in page.items /\ CanGoTo(page.entries, page.cur, m.id)
      <3>1. PICK e : e = EntriesAfterGoTo(page.entries, page.cur, m.id, keep)
        OBVIOUS
      <3>2. PICK c : c = IndexOf(e, m.id)
        OBVIOUS
      <3>3. /\ e \in Seq(Nat) /\ Range(e) \subseteq Range(page.entries)
            /\ c \in 1 .. Len(e)
        BY <2>1, <2>6, <3>1, <3>2, GoToOnPage
      <3>4. c \in Nat
        BY <3>3, SMTT(30)
      <3>5. h = SetList(page, e, c)
        BY <2>3, <2>6, <3>1, <3>2 DEF BackForwardGoToItem, GoToItem
      <3>6. GoesTo(page, h, e, c)
        BY <3>3, <3>4, <3>5, NothingSplits DEF GoesTo
      <3>7. /\ Good(q, web', alive, u, Tail(toUI)) /\ h.fresh = FALSE
            /\ q.entries = e /\ q.cur = c
        <4>1. Relisted(q, web', alive, u, toUI, h, e, c)
          BY <2>2a, <3>6, <1>DispatchGoToItem
        <4> QED
          BY <4>1 DEF Relisted
      <3>8. Good(page, web, alive, toWeb, toUI)' /\ page' = q
        BY <2>2, <2>4, <3>7, <1>PostKeeps
      <3>9. /\ page'.entries = EntriesAfterGoTo(page.entries, page.cur, m.id, keep)
            /\ page'.cur = IndexOf(page'.entries, m.id)
        BY <3>1, <3>2, <3>7, <3>8
      <3>10. List!Next
        BY <2>1, <2>6, <3>9, GoToIsListStep
      <3> QED
        BY <3>8, <3>10
    <2>7. h = page \/ (m.id \in page.items /\ CanGoTo(page.entries, page.cur, m.id))
      BY <2>3 DEF BackForwardGoToItem, GoToItem
    <2> QED
      BY <2>5, <2>6, <2>7
  <1>DispatchClearStep.
    ASSUME Good(page, web, alive, toWeb, toUI), List!ListOK, DispatchMessage,
           NEW m, m = Head(toUI), m.type = "BackForwardClear"
    PROVE  Good(page, web, alive, toWeb, toUI)' /\ [List!Next]_(List!vars)
    <2> USE <1>DispatchClearStep
    <2>1. PICK keep \in BOOLEAN : \E h, q, u :
             /\ h = Handle(page, m, keep) /\ PageBecomes(h) /\ Yields(h, q, alive, toWeb, u)
             /\ Receives(page, toUI, m) /\ toUI' = Tail(toUI)
             /\ Resumes(web, web', alive, h, m)
      BY <1>ListMessage
    <2>2. PICK h, q, u :
             /\ h = Handle(page, m, keep) /\ PageBecomes(h) /\ Yields(h, q, alive, toWeb, u)
             /\ Receives(page, toUI, m) /\ toUI' = Tail(toUI)
             /\ Resumes(web, web', alive, h, m)
      BY <2>1
    <2>2a. /\ Receives(page, toUI, m) /\ Yields(h, q, alive, toWeb, u)
           /\ Resumes(web, web', alive, h, m)
      BY <2>2
    <2>3. h = ClearList(page)
      BY <2>2, <1>HandleCases
    <2>4. alive \in BOOLEAN
      BY DEF Good, Typed
    <2>5. CASE Len(page.entries) <= 1
      <3>0. h = page
        BY <2>3, <2>5 DEF ClearList
      <3>1. /\ page.valid /\ toUI # << >> /\ q = Posted(page)
            /\ u = Sends(alive, toWeb, page.out)
        BY <2>2, <3>0 DEF Receives, Yields
      <3>2. m.type \in {"BackForwardGoToItem", "BackForwardClear"}
        OBVIOUS
      <3>3. Resumes(web, web', alive, page, m)
        BY <2>2, <3>0
      <3>4. Good(q, web', alive, u, Tail(toUI)) /\ page.fresh = FALSE /\ SameButtons(page, q)
        BY <3>1, <3>2, <3>3, <1>DispatchNothing
      <3>5. Good(page, web, alive, toWeb, toUI)' /\ page' = q
        BY <2>2, <2>4, <3>0, <3>4, <1>PostKeeps
      <3> QED
        BY <3>4, <3>5, SameList
    <2>6. CASE ~(Len(page.entries) <= 1)
      <3>1. PICK removed : removed = RemoveEntry(page.entries, page.cur)
        OBVIOUS
      <3>2. PICK e : e = EntriesAfterClear(page.entries, page.cur)
        OBVIOUS
      <3>3. Splits(page, removed, e)
        BY <2>6, <3>1, <3>2, ClearOnPage DEF Splits
      <3>4. h = SetList(BackForwardRemovedItems(page, removed), e, 1)
        BY <2>3, <2>6, <3>1, <3>2 DEF ClearList
      <3>5. Clears(page, h, removed, e)
        BY <3>3, <3>4 DEF Clears
      <3>6. /\ Good(q, web', alive, u, Tail(toUI)) /\ h.fresh = FALSE
            /\ q.entries = e /\ q.cur = 1
        <4>1. Relisted(q, web', alive, u, toUI, h, e, 1)
          BY <2>2a, <3>5, <1>DispatchClear
        <4> QED
          BY <4>1 DEF Relisted
      <3>7. Good(page, web, alive, toWeb, toUI)' /\ page' = q
        BY <2>2, <2>4, <3>6, <1>PostKeeps
      <3>8. page'.entries = EntriesAfterClear(page.entries, page.cur) /\ page'.cur = 1
        BY <3>2, <3>6, <3>7
      <3>9. List!Next
        BY <2>6, <3>8, ClearIsListStep
      <3> QED
        BY <3>7, <3>9
    <2> QED
      BY <2>5, <2>6
  <1>MessageKeeps.
    ASSUME Good(page, web, alive, toWeb, toUI), List!ListOK, DispatchMessage
    PROVE  Good(page, web, alive, toWeb, toUI)' /\ [List!Next]_(List!vars)
    <2> USE <1>MessageKeeps
    <2>1. PICK m : m = Head(toUI)
      OBVIOUS
    <2>2. CASE m.type = "BackForwardAddItem"
      BY <2>1, <2>2, <1>DispatchAddStep
    <2>3. CASE m.type = "BackForwardGoToItem"
      BY <2>1, <2>3, <1>DispatchGoToStep
    <2>4. CASE m.type = "BackForwardClear"
      BY <2>1, <2>4, <1>DispatchClearStep
    <2>5. CASE m.type \notin
                {"BackForwardAddItem", "BackForwardGoToItem", "BackForwardClear"}
      BY <2>1, <2>5, <1>DispatchPlainStep, SameList
    <2> QED
      BY <2>2, <2>3, <2>4, <2>5
  <1> QED
    BY <1>MessageKeeps
=============================================================================
