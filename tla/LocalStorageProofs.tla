------------------------- MODULE LocalStorageProofs -------------------------
(***************************************************************************)
(* Messages find their storage area, and connections are forgotten.        *)
(*                                                                         *)
(* The StorageManager handles a process's messages one by one, and whether *)
(* one of them finds its area depends on those before it.  The invariant   *)
(* follows the listener through the queue: each message about a map names  *)
(* the map that the message before it leaves listening, and the last one   *)
(* leaves the map the process has now, or none.                            *)
(***************************************************************************)
EXTENDS LocalStorage, TLAPS

\* The messages that need a listener, and the map that listens after m.
About(m) ==
  m.type \in {"GetValues", "SetItem", "RemoveItem", "Clear", "DestroyStorageMap"}
After(m) ==
  IF m.type \in {"DestroyStorageMap", "InvalidateConnection"} THEN 0 ELSE m.id

Linked(q) == \A i \in 2 .. Len(q) : About(q[i]) => q[i].id = After(q[i - 1])

\* Map v listens in p, or the application has made the manager forget it.
Listening(p, v) == listener[p] = v \/ (terminated /\ listener[p] = 0)

\* The map that listens once everything p has sent is handled.
Target(p) == IF live[p] THEN mapID[p] ELSE 0

Followed(p) ==
  LET q == toManager[p]
  IN  /\ Linked(q)
      /\ q # << >> => /\ About(Head(q)) => Listening(p, Head(q).id)
                      /\ After(q[Len(q)]) = Target(p)
      /\ q = << >> => Listening(p, Target(p))

IsSequence(q) == q \in Seq({q[i] : i \in DOMAIN q})

\* The inductive invariant.
IInv ==
  /\ DOMAIN toManager = Procs /\ DOMAIN mapID = Procs /\ DOMAIN listener = Procs
  /\ live \in [Procs -> BOOLEAN]
  /\ \A p \in Procs : IsSequence(toManager[p]) /\ Followed(p)
-----------------------------------------------------------------------------
(* Sequences of messages.                                                  *)

LEMMA SequenceFacts ==
  ASSUME NEW q, IsSequence(q)
  PROVE  /\ Len(q) \in Nat /\ DOMAIN q = 1 .. Len(q)
         /\ q # << >> <=> Len(q) # 0
         /\ q # << >> => Head(q) = q[1]
  BY DEF IsSequence

LEMMA AppendFacts ==
  ASSUME NEW q, IsSequence(q), NEW m
  PROVE  /\ IsSequence(Append(q, m)) /\ Append(q, m) # << >>
         /\ Len(Append(q, m)) = Len(q) + 1
         /\ \A i \in 1 .. Len(q) : Append(q, m)[i] = q[i]
         /\ Append(q, m)[Len(q) + 1] = m
  <1> DEFINE M == {q[i] : i \in DOMAIN q} \cup {m}
             r == Append(q, m)
  <1>1. q \in Seq(M)
    BY DEF IsSequence
  <1> HIDE DEF M
  <1>2. m \in M
    BY DEF M
  <1>3. /\ r \in Seq(M) /\ r # << >> /\ Len(r) = Len(q) + 1
        /\ \A i \in 1 .. Len(q) : r[i] = q[i]
        /\ r[Len(q) + 1] = m
    BY <1>1, <1>2
  <1> HIDE DEF r
  <1>4. IsSequence(r)
    BY <1>3 DEF IsSequence
  <1> QED
    BY <1>3, <1>4 DEF r

LEMMA TailFacts ==
  ASSUME NEW q, IsSequence(q), q # << >>
  PROVE  /\ IsSequence(Tail(q)) /\ Len(Tail(q)) = Len(q) - 1
         /\ \A i \in 1 .. Len(q) - 1 : Tail(q)[i] = q[i + 1]
  <1> DEFINE M == {q[i] : i \in DOMAIN q}
             r == Tail(q)
  <1>1. q \in Seq(M)
    BY DEF IsSequence
  <1> HIDE DEF M
  <1>2. /\ r \in Seq(M) /\ Len(r) = Len(q) - 1
        /\ \A i \in 1 .. Len(q) - 1 : r[i] = q[i + 1]
    BY <1>1
  <1> HIDE DEF r
  <1>3. IsSequence(r)
    BY <1>2 DEF IsSequence
  <1> QED
    BY <1>2, <1>3 DEF r

LEMMA PrefixFacts ==
  ASSUME NEW q, IsSequence(q), NEW n \in 0 .. Len(q), NEW m
  PROVE  /\ IsSequence(SubSeq(q, 1, n)) /\ Len(SubSeq(q, 1, n)) = n
         /\ \A i \in 1 .. n : SubSeq(q, 1, n)[i] = q[i]
         /\ SubSeq(q, 1, n) \o <<m>> = Append(SubSeq(q, 1, n), m)
  <1> DEFINE M == {q[i] : i \in DOMAIN q} \cup {m}
             r == SubSeq(q, 1, n)
  <1>1. q \in Seq(M) /\ m \in M
    BY DEF IsSequence
  <1> HIDE DEF M
  <1>2. /\ r \in Seq(M) /\ Len(r) = n
        /\ \A i \in 1 .. n : r[i] = q[i]
    BY <1>1
  <1> HIDE DEF r
  <1>3. IsSequence(r)
    BY <1>2 DEF IsSequence
  <1>4. r \o <<m>> = Append(r, m)
    BY <1>1, <1>2
  <1> QED
    BY <1>2, <1>3, <1>4 DEF r

LEMMA AppendLinked ==
  ASSUME NEW q, IsSequence(q), Linked(q), NEW m,
         About(m) /\ q # << >> => m.id = After(q[Len(q)])
  PROVE  Linked(Append(q, m))
  <1> DEFINE r == Append(q, m)
  <1>1. /\ Len(q) \in Nat /\ (Len(q) # 0 => q # << >>)
        /\ Len(r) = Len(q) + 1 /\ r[Len(q) + 1] = m
        /\ \A i \in 1 .. Len(q) : r[i] = q[i]
    BY SequenceFacts, AppendFacts
  <1> HIDE DEF r
  <1> SUFFICES ASSUME NEW i \in 2 .. Len(r), About(r[i]) PROVE r[i].id = After(r[i - 1])
    BY DEF Linked, r
  <1>2. CASE i = Len(q) + 1
    <2>1. i - 1 = Len(q) /\ Len(q) # 0 /\ r[i] = m /\ r[i - 1] = q[Len(q)]
      BY <1>1, <1>2
    <2> QED
      BY <1>1, <2>1
  <1>3. CASE i # Len(q) + 1
    <2>1. i \in 2 .. Len(q) /\ r[i] = q[i] /\ r[i - 1] = q[i - 1]
      BY <1>1, <1>3
    <2> QED
      BY <2>1 DEF Linked
  <1> QED
    BY <1>2, <1>3

LEMMA TailLinked ==
  ASSUME NEW q, IsSequence(q), q # << >>, Linked(q)
  PROVE  /\ Linked(Tail(q))
         /\ Tail(q) # << >> => /\ About(Head(Tail(q))) => Head(Tail(q)).id = After(Head(q))
                               /\ Tail(q)[Len(Tail(q))] = q[Len(q)]
         /\ Tail(q) = << >> => Head(q) = q[Len(q)]
  <1> DEFINE r == Tail(q)
  <1>1. /\ Len(q) \in Nat \ {0} /\ Head(q) = q[1]
        /\ IsSequence(r) /\ Len(r) = Len(q) - 1
        /\ \A i \in 1 .. Len(q) - 1 : r[i] = q[i + 1]
    BY SequenceFacts, TailFacts
  <1>2. /\ r # << >> <=> Len(r) # 0
        /\ r # << >> => Head(r) = r[1]
    BY <1>1, SequenceFacts, SMTT(30)
  <1> HIDE DEF r
  <1>3. Linked(r)
    <2> SUFFICES ASSUME NEW i \in 2 .. Len(r), About(r[i]) PROVE r[i].id = After(r[i - 1])
      BY DEF Linked
    <2>1. i + 1 \in 2 .. Len(q) /\ r[i] = q[i + 1] /\ r[i - 1] = q[i] /\ (i + 1) - 1 = i
      BY <1>1
    <2> QED
      BY <2>1 DEF Linked
  <1>4. ASSUME r # << >>
        PROVE  /\ About(Head(r)) => Head(r).id = After(Head(q))
               /\ r[Len(r)] = q[Len(q)]
    <2>1. /\ 2 \in 2 .. Len(q) /\ 2 - 1 = 1 /\ r[1] = q[2]
          /\ Len(r) \in 1 .. Len(q) - 1 /\ Len(r) + 1 = Len(q)
      BY <1>1, <1>2, <1>4
    <2>2. r[Len(r)] = q[Len(q)]
      BY <1>1, <2>1
    <2>3. About(q[2]) => q[2].id = After(q[1])
      BY <2>1 DEF Linked
    <2> QED
      BY <1>1, <1>2, <1>4, <2>1, <2>2, <2>3
  <1>5. ASSUME r = << >> PROVE Head(q) = q[Len(q)]
    <2>1. Len(q) = 1
      BY <1>1, <1>2, <1>5
    <2> QED
      BY <1>1, <2>1
  <1> QED
    BY <1>3, <1>4, <1>5 DEF r

LEMMA PrefixLinked ==
  ASSUME NEW q, IsSequence(q), Linked(q), NEW n \in 0 .. Len(q)
  PROVE  /\ Linked(SubSeq(q, 1, n))
         /\ SubSeq(q, 1, n) # << >> => q # << >> /\ Head(SubSeq(q, 1, n)) = Head(q)
  <1> DEFINE r == SubSeq(q, 1, n)
  <1>1. /\ Len(q) \in Nat /\ (q # << >> <=> Len(q) # 0) /\ (q # << >> => Head(q) = q[1])
        /\ IsSequence(r) /\ Len(r) = n
        /\ \A i \in 1 .. n : r[i] = q[i]
    BY SequenceFacts, PrefixFacts
  <1>2. /\ r # << >> <=> Len(r) # 0
        /\ r # << >> => Head(r) = r[1]
    BY <1>1, SequenceFacts
  <1> HIDE DEF r
  <1>3. Linked(r)
    <2> SUFFICES ASSUME NEW i \in 2 .. Len(r), About(r[i]) PROVE r[i].id = After(r[i - 1])
      BY DEF Linked
    <2>1. i \in 2 .. Len(q) /\ r[i] = q[i] /\ r[i - 1] = q[i - 1]
      BY <1>1
    <2> QED
      BY <2>1 DEF Linked
  <1>4. ASSUME r # << >> PROVE q # << >> /\ Head(r) = Head(q)
    <2>1. 1 \in 1 .. n /\ Len(q) # 0
      BY <1>1, <1>2, <1>4
    <2> QED
      BY <1>1, <1>2, <1>4, <2>1
  <1> QED
    BY <1>3, <1>4 DEF r
-----------------------------------------------------------------------------
(* The invariant.                                                          *)

LEMMA InitIInv == Init => IInv
  <1> SUFFICES ASSUME Init PROVE IInv
    OBVIOUS
  <1>1. /\ DOMAIN toManager = Procs /\ DOMAIN mapID = Procs /\ DOMAIN listener = Procs
        /\ live \in [Procs -> BOOLEAN]
    BY DEF Init
  <1>2. ASSUME NEW p \in Procs PROVE IsSequence(toManager[p]) /\ Followed(p)
    <2>1. toManager[p] = << >> /\ listener[p] = 0 /\ ~live[p]
      BY DEF Init
    <2>2. IsSequence(toManager[p]) /\ Linked(toManager[p])
      BY <2>1 DEF IsSequence, Linked
    <2> QED
      BY <2>1, <2>2 DEF Followed, Listening, Target
  <1> QED
    BY <1>1, <1>2 DEF IInv

\* A process that is left alone keeps its part of the invariant.
LEMMA OtherFollowed ==
  ASSUME NEW p, Followed(p), toManager'[p] = toManager[p],
         Target(p)' = Target(p),
         \A v : Listening(p, v) => Listening(p, v)'
  PROVE  Followed(p)'
  BY DEF Followed

\* A process sends a message that fits the map it had before, and the map it
\* has then.
LEMMA SentIInv ==
  ASSUME IInv, NEW p \in Procs, NEW m,
         toManager' = [toManager EXCEPT ![p] = Append(@, m)],
         UNCHANGED <<listener, terminated>>,
         DOMAIN mapID' = Procs, live' \in [Procs -> BOOLEAN],
         \A r \in Procs \ {p} : live'[r] = live[r] /\ mapID'[r] = mapID[r],
         About(m) => m.id = Target(p),
         After(m) = Target(p)'
  PROVE  IInv'
  <1>q. PICK q, s : q = toManager[p] /\ s = Append(q, m)
    OBVIOUS
  <1>1. /\ DOMAIN toManager' = Procs /\ DOMAIN listener' = Procs
        /\ toManager'[p] = s
        /\ \A r \in Procs \ {p} : toManager'[r] = toManager[r]
        /\ IsSequence(q) /\ Followed(p)
    BY <1>q DEF IInv
  <1>2. ASSUME NEW r \in Procs \ {p} PROVE IsSequence(toManager'[r]) /\ Followed(r)'
    <2>1. IsSequence(toManager[r]) /\ Followed(r) /\ Target(r)' = Target(r)
      BY DEF IInv, Target
    <2>2. \A v : Listening(r, v) => Listening(r, v)'
      BY DEF Listening
    <2> QED
      BY <1>1, <2>1, <2>2, OtherFollowed
  <1>3. IsSequence(s) /\ s # << >> /\ Len(s) = Len(q) + 1 /\ s[Len(s)] = m
    BY <1>q, <1>1, AppendFacts
  <1>4. Linked(s)
    BY <1>q, <1>1, AppendLinked DEF Followed
  <1>5. About(Head(s)) => Listening(p, Head(s).id)'
    <2>1. Head(s) = s[1] /\ Len(q) \in Nat /\ (q # << >> <=> Len(q) # 0)
          /\ (q # << >> => Head(q) = q[1])
      BY <1>1, <1>3, SequenceFacts
    <2>2. \A v : Listening(p, v) <=> Listening(p, v)'
      BY DEF Listening
    <2>3. CASE q = << >>
      <3>1. Head(s) = m
        BY <1>q, <1>3, <2>1, <2>3
      <3> QED
        BY <1>q, <1>1, <2>2, <2>3, <3>1 DEF Followed
    <2>4. CASE q # << >>
      <3>1. 1 \in 1 .. Len(q)
        BY <2>1, <2>4
      <3>2. Head(s) = Head(q)
        BY <1>q, <1>1, <2>1, <2>4, <3>1, AppendFacts
      <3> QED
        BY <1>q, <1>1, <2>2, <2>4, <3>2 DEF Followed
    <2> QED
      BY <2>3, <2>4
  <1>6. Followed(p)'
    BY <1>1, <1>3, <1>4, <1>5 DEF Followed
  <1> QED
    BY <1>1, <1>2, <1>3, <1>6 DEF IInv

\* A page's operations, the creation and the destruction of its map.
LEMMA PageIInv == ASSUME IInv, NEW p \in Procs, PageStep(p) PROVE IInv'
  <1>1. ASSUME NEW type \in {"GetValues", "SetItem", "RemoveItem", "Clear"},
               NEW seed, NEW k, NEW v, live[p],
               Send(p, type, mapID[p], seed, k, v),
               UNCHANGED <<mapID, live, listener, terminated>>
        PROVE  IInv'
    <2> DEFINE m == ToManager(type, mapID[p], seed, k, v)
    <2>1. m.id = Target(p) /\ After(m) = Target(p)'
      BY <1>1 DEF ToManager, After, Target
    <2> QED
      BY <1>1, <2>1, SentIInv DEF Send, IInv
  <1>2. CASE CreateMap(p)
    <2> DEFINE m == ToManager("CreateLocalStorageMap", mapID[p] + 1, 0, Null, Null)
    <2>1. /\ DOMAIN mapID' = Procs /\ live' \in [Procs -> BOOLEAN]
          /\ \A r \in Procs \ {p} : live'[r] = live[r] /\ mapID'[r] = mapID[r]
          /\ live'[p] /\ mapID'[p] = mapID[p] + 1
          /\ UNCHANGED <<listener, terminated>>
          /\ toManager' = [toManager EXCEPT ![p] = Append(@, m)]
      BY <1>2 DEF CreateMap, Send, IInv, bounds
    <2>2. ~About(m) /\ After(m) = Target(p)'
      BY <2>1 DEF ToManager, About, After, Target
    <2> QED
      BY <2>1, <2>2, SentIInv
  <1>3. CASE DestroyMap(p)
    <2> DEFINE m == ToManager("DestroyStorageMap", mapID[p], 0, Null, Null)
    <2>1. /\ DOMAIN mapID' = Procs /\ live' \in [Procs -> BOOLEAN]
          /\ \A r \in Procs \ {p} : live'[r] = live[r] /\ mapID'[r] = mapID[r]
          /\ live[p] /\ ~live'[p]
          /\ UNCHANGED <<listener, terminated>>
          /\ toManager' = [toManager EXCEPT ![p] = Append(@, m)]
      BY <1>3 DEF DestroyMap, Send, IInv, bounds
    <2>2. m.id = Target(p) /\ After(m) = Target(p)'
      BY <2>1 DEF ToManager, After, Target
    <2> QED
      BY <2>1, <2>2, SentIInv
  <1>4. CASE LoadValuesIfNeeded(p)
    BY <1>1, <1>4 DEF LoadValuesIfNeeded, bounds
  <1>5. CASE PageClear(p)
    BY <1>1, <1>5 DEF PageClear, PageOperation
  <1>6. CASE \E k \in Keys, v \in Values : PageSetItem(p, k, v)
    BY <1>1, <1>6 DEF PageSetItem, PageOperation
  <1>7. CASE \E k \in Keys : PageRemoveItem(p, k)
    BY <1>1, <1>7 DEF PageRemoveItem, PageOperation
  <1> QED
    BY <1>2, <1>3, <1>4, <1>5, <1>6, <1>7 DEF PageStep

\* A crash cuts the queue short and ends it with the invalidation.
LEMMA CrashIInv == ASSUME IInv, NEW p \in Procs, Crash(p) PROVE IInv'
  <1>q. PICK q, m : /\ q = toManager[p]
                    /\ m = ToManager("InvalidateConnection", mapID[p], 0, Null, Null)
    OBVIOUS
  <1>1. PICK n \in 0 .. Len(q) : Gone(p, SubSeq(q, 1, n) \o <<m>>)
    BY <1>q DEF Crash, Invalidate
  <1> DEFINE r == SubSeq(q, 1, n)
             s == Append(r, m)
  <1>2. IsSequence(q) /\ Followed(p)
    BY <1>q DEF IInv
  <1>3. IsSequence(r) /\ r \o <<m>> = s
    BY <1>2, PrefixFacts
  <1>4. /\ DOMAIN toManager' = Procs /\ DOMAIN listener' = Procs /\ DOMAIN mapID' = Procs
        /\ live' \in [Procs -> BOOLEAN] /\ ~live'[p] /\ toManager'[p] = s
        /\ UNCHANGED <<mapID, listener, terminated>>
        /\ \A x \in Procs \ {p} : toManager'[x] = toManager[x] /\ live'[x] = live[x]
    BY <1>1, <1>3 DEF Gone, IInv, bounds
  <1>5. ~About(m) /\ After(m) = 0
    BY <1>q DEF ToManager, About, After
  <1>6. /\ Linked(r)
        /\ r # << >> => q # << >> /\ Head(r) = Head(q)
    BY <1>q, <1>2, PrefixLinked DEF Followed
  <1> HIDE DEF r
  <1>7. /\ IsSequence(s) /\ s # << >> /\ Len(s) = Len(r) + 1 /\ s[Len(s)] = m
        /\ Len(r) \in Nat /\ (r # << >> <=> Len(r) # 0) /\ (r # << >> => Head(r) = r[1])
        /\ \A i \in 1 .. Len(r) : s[i] = r[i]
    BY <1>3, AppendFacts, SequenceFacts
  <1>8. Linked(s)
    BY <1>3, <1>5, <1>6, AppendLinked
  <1>9. About(Head(s)) => Listening(p, Head(s).id)'
    <2>1. Head(s) = s[1]
      BY <1>7, SequenceFacts
    <2>2. CASE r = << >>
      <3>1. Head(s) = m
        BY <1>7, <2>1, <2>2
      <3> QED
        BY <1>5, <3>1
    <2>3. CASE r # << >>
      <3>1. 1 \in 1 .. Len(r)
        BY <1>7, <2>3
      <3>2. Head(s) = Head(q) /\ q # << >>
        BY <1>6, <1>7, <2>1, <2>3, <3>1
      <3>3. \A v : Listening(p, v) => Listening(p, v)'
        BY <1>4 DEF Listening
      <3> QED
        BY <1>q, <1>2, <3>2, <3>3 DEF Followed
    <2> QED
      BY <2>2, <2>3
  <1>10. Followed(p)'
    <2>1. Target(p)' = 0
      BY <1>4 DEF Target
    <2> QED
      BY <1>4, <1>5, <1>7, <1>8, <1>9, <2>1 DEF Followed
  <1>11. ASSUME NEW x \in Procs \ {p} PROVE IsSequence(toManager'[x]) /\ Followed(x)'
    <2>1. IsSequence(toManager[x]) /\ Followed(x) /\ Target(x)' = Target(x)
      BY <1>4 DEF IInv, Target
    <2>2. \A v : Listening(x, v) => Listening(x, v)'
      BY <1>4 DEF Listening
    <2> QED
      BY <1>4, <2>1, <2>2, OtherFollowed
  <1> QED
    BY <1>4, <1>7, <1>10, <1>11 DEF IInv

\* The manager handles p's next message and leaves the map listening that the
\* message after it names.
LEMMA HandleIInv == ASSUME IInv, NEW p \in Procs, HandleMessage(p) PROVE IInv'
  <1>q. PICK q, m, r : q = toManager[p] /\ m = Head(q) /\ r = Tail(q)
    OBVIOUS
  <1>1. q # << >> /\ IsSequence(q) /\ Followed(p)
    BY <1>q DEF HandleMessage, IInv
  <1>2. About(m) => Listening(p, m.id)
    BY <1>q, <1>1 DEF Followed
  <1>3. /\ toManager' = [toManager EXCEPT ![p] = r]
        /\ UNCHANGED <<mapID, live, terminated>>
        /\ \/ About(m) /\ m.type # "DestroyStorageMap" /\ listener' = listener
           \/ /\ m.type = "CreateLocalStorageMap"
              /\ listener' = [listener EXCEPT ![p] = m.id]
           \/ /\ m.type = "DestroyStorageMap"
              /\ listener' = [listener EXCEPT ![p] = IF m.id = listener[p] THEN 0 ELSE @]
           \/ /\ m.type = "InvalidateConnection"
              /\ listener' = [listener EXCEPT ![p] = 0]
    <2> USE DEF Message, mapVars, bounds, About
    <2>1. CASE CreateLocalStorageMap(p, m)
      BY <1>q, <2>1 DEF CreateLocalStorageMap
    <2>2. CASE DestroyStorageMap(p, m)
      BY <1>q, <2>2 DEF DestroyStorageMap, FindStorageArea
    <2>3. CASE InvalidateConnection(p, m)
      BY <1>q, <2>3 DEF InvalidateConnection
    <2>4. CASE GetValues(p, m)
      BY <1>q, <2>4 DEF GetValues
    <2>5. CASE ManagerSetItem(p, m)
      BY <1>q, <2>5 DEF ManagerSetItem
    <2>6. CASE ManagerRemoveItem(p, m)
      BY <1>q, <2>6 DEF ManagerRemoveItem
    <2>7. CASE ManagerClear(p, m)
      BY <1>q, <2>7 DEF ManagerClear
    <2>8. CASE IgnoreMessage(p, m)
      BY <1>q, <2>8 DEF IgnoreMessage
    <2> QED
      BY <2>1, <2>2, <2>3, <2>4, <2>5, <2>6, <2>7, <2>8, <1>q DEF HandleMessage
  <1>4. /\ DOMAIN toManager' = Procs /\ DOMAIN mapID' = Procs /\ DOMAIN listener' = Procs
        /\ live' \in [Procs -> BOOLEAN] /\ toManager'[p] = r
        /\ \A x \in Procs \ {p} : toManager'[x] = toManager[x] /\ listener'[x] = listener[x]
    BY <1>3 DEF IInv
  <1>5. Listening(p, After(m))'
    <2>1. CASE About(m) /\ m.type # "DestroyStorageMap" /\ listener' = listener
      <3>1. After(m) = m.id
        BY <2>1 DEF About, After
      <3> QED
        BY <1>2, <1>3, <2>1, <3>1 DEF Listening
    <2>2. CASE m.type = "CreateLocalStorageMap" /\ listener' = [listener EXCEPT ![p] = m.id]
      BY <2>2 DEF After, Listening, IInv
    <2>3. CASE /\ m.type = "DestroyStorageMap"
               /\ listener' = [listener EXCEPT ![p] = IF m.id = listener[p] THEN 0 ELSE @]
      <3>1. Listening(p, m.id) /\ After(m) = 0
        BY <1>2, <2>3 DEF About, After
      <3>2. listener'[p] = 0
        BY <2>3, <3>1 DEF Listening, IInv
      <3> QED
        BY <3>1, <3>2 DEF Listening
    <2>4. CASE m.type = "InvalidateConnection" /\ listener' = [listener EXCEPT ![p] = 0]
      BY <2>4 DEF After, Listening, IInv
    <2> QED
      BY <1>3, <2>1, <2>2, <2>3, <2>4
  <1>6. Target(p)' = Target(p)
    BY <1>3 DEF Target
  <1>7. /\ Linked(r)
        /\ r # << >> => /\ About(Head(r)) => Head(r).id = After(m)
                        /\ r[Len(r)] = q[Len(q)]
        /\ r = << >> => m = q[Len(q)]
        /\ IsSequence(r)
    BY <1>q, <1>1, TailLinked, TailFacts DEF Followed
  <1>8. After(q[Len(q)]) = Target(p)
    BY <1>q, <1>1 DEF Followed
  <1>9. Followed(p)'
    BY <1>4, <1>5, <1>6, <1>7, <1>8 DEF Followed
  <1>10. ASSUME NEW x \in Procs \ {p} PROVE IsSequence(toManager'[x]) /\ Followed(x)'
    <2>1. IsSequence(toManager[x]) /\ Followed(x) /\ Target(x)' = Target(x)
      BY <1>3 DEF IInv, Target
    <2>2. \A v : Listening(x, v) => Listening(x, v)'
      BY <1>3, <1>4 DEF Listening
    <2> QED
      BY <1>4, <2>1, <2>2, OtherFollowed
  <1> QED
    BY <1>4, <1>7, <1>9, <1>10 DEF IInv

\* Steps that neither send nor handle a message to the manager.
LEMMA AsideIInv ==
  ASSUME IInv, UNCHANGED <<toManager, mapID, live>>, DOMAIN listener' = Procs,
         \A p \in Procs : \A v : Listening(p, v) => Listening(p, v)'
  PROVE  IInv'
  <1>1. ASSUME NEW p \in Procs PROVE IsSequence(toManager'[p]) /\ Followed(p)'
    <2>1. IsSequence(toManager[p]) /\ Followed(p) /\ Target(p)' = Target(p)
      BY DEF IInv, Target
    <2> QED
      BY <2>1, OtherFollowed
  <1> QED
    BY <1>1 DEF IInv

LEMMA NextIInv ==
  ASSUME CanDisconnect = FALSE PROVE IInv /\ [Next]_vars => IInv'
  <1> SUFFICES ASSUME IInv, [Next]_vars PROVE IInv'
    OBVIOUS
  <1>1. CASE \E p \in Procs : PageStep(p) \/ GetValuesReply(p) \/ Crash(p) \/ Disconnect(p)
    <2>1. ASSUME NEW p \in Procs, GetValuesReply(p) PROVE IInv'
      <3>1. UNCHANGED <<toManager, mapID, live, listener, terminated>>
        BY <2>1 DEF GetValuesReply, bounds
      <3> QED
        BY <3>1, AsideIInv DEF IInv, Listening
    <2> QED
      BY <1>1, <2>1, PageIInv, CrashIInv DEF Disconnect
  <1>2. CASE \E p \in Procs : HandleMessage(p) \/ Receive(p)
    <2>1. ASSUME NEW p \in Procs, Receive(p) PROVE IInv'
      <3>1. UNCHANGED <<toManager, mapID, live, listener, terminated>>
        BY <2>1 DEF Receive, ReceiveEvent, ReceiveDidGetValues, ReceiveDidSetItem,
             ReceiveDidRemoveItem, ReceiveDidClear, ReceiveClearCache, DropMessage,
             Received, bounds
      <3> QED
        BY <3>1, AsideIInv DEF IInv, Listening
    <2> QED
      BY <1>2, <2>1, HandleIInv
  <1>3. CASE DeleteEntries
    <2>1. UNCHANGED <<toManager, mapID, live, listener, terminated>>
      BY <1>3 DEF DeleteEntries, mapVars
    <2> QED
      BY <2>1, AsideIInv DEF IInv, Listening
  <1>4. CASE ApplicationWillTerminate
    <2>1. /\ UNCHANGED <<toManager, mapID, live>> /\ terminated'
          /\ DOMAIN listener' = Procs /\ \A p \in Procs : listener'[p] = 0
      BY <1>4 DEF ApplicationWillTerminate, mapVars
    <2> QED
      BY <2>1, AsideIInv DEF Listening
  <1>5. CASE UNCHANGED vars
    <2>1. UNCHANGED <<toManager, mapID, live, listener, terminated>>
      BY <1>5 DEF vars, mapVars, bounds
    <2> QED
      BY <2>1, AsideIInv DEF IInv, Listening
  <1> QED
    BY <1>1, <1>2, <1>3, <1>4, <1>5 DEF Next

LEMMA IInvFinds == IInv => MessagesFindTheirArea
  <1> SUFFICES ASSUME IInv, NEW p \in Procs
               PROVE  /\ toManager[p] # << >> /\ ~terminated =>
                           (About(Head(toManager[p])) => FindStorageArea(p, Head(toManager[p])))
                      /\ ~live[p] /\ toManager[p] = << >> => listener[p] = 0
    BY DEF MessagesFindTheirArea, About
  <1>1. Followed(p)
    BY DEF IInv
  <1> QED
    BY <1>1 DEF Followed, Listening, Target, FindStorageArea

\* For any number of processes, maps, operations, crashes and deletions, as
\* long as the UI process drops no connection by itself: until the
\* application terminates every message about a map finds its storage area
\* (findStorageArea), and a process that is gone is forgotten.
THEOREM MessagesFound ==
  ASSUME CanDisconnect = FALSE PROVE Spec => []MessagesFindTheirArea
  <1>1. IInv /\ [Next]_vars => IInv'
    BY NextIInv
  <1> QED
    BY <1>1, InitIInv, IInvFinds, PTL DEF Spec
=============================================================================
