------------------------ MODULE NavigationWebProofs -------------------------
(***************************************************************************)
(* Navigation, for any number of requests, links followed, restored items  *)
(* and crashes: what the operations of WebBackForwardList do to a list,    *)
(* whatever its capacity, and the invariant Good, which the steps of the   *)
(* web process and its end keep.                                           *)
(***************************************************************************)
EXTENDS Navigation, TLAPS

\* The prover of a step that names none.
USE ZenonT(60)

-----------------------------------------------------------------------------
(* What the operations of WebBackForwardList do to a list.                 *)

Distinct(s) == \A i, j \in 1 .. Len(s) : s[i] = s[j] => i = j

\* The items e of a list, of which c is the current one.
IsList(e, c, I) ==
  /\ e \in Seq(I) /\ Len(e) <= Capacity
  /\ c \in (IF e = << >> THEN {0} ELSE 1 .. Len(e))
  /\ Distinct(e)

LEMMA LenProperties ==
  ASSUME NEW S, NEW s \in Seq(S)
  PROVE  Len(s) \in Nat /\ s \in [1 .. Len(s) -> S] /\ DOMAIN s = 1 .. Len(s)
  BY SMTT(30)

LEMMA EmptySeq ==
  ASSUME NEW S
  PROVE  << >> \in Seq(S) /\ Len(<< >>) = 0 /\ \A s \in Seq(S) : s # << >> => Len(s) \in Nat \ {0}
  BY SMTT(30)

LEMMA ConcatProperties ==
  ASSUME NEW S, NEW s \in Seq(S), NEW t \in Seq(S)
  PROVE  /\ s \o t \in Seq(S) /\ Len(s \o t) = Len(s) + Len(t)
         /\ \A i \in 1 .. Len(s) + Len(t) :
              (s \o t)[i] = IF i <= Len(s) THEN s[i] ELSE t[i - Len(s)]
  BY SMTT(30)

LEMMA AppendProperties ==
  ASSUME NEW S, NEW s \in Seq(S), NEW x \in S
  PROVE  /\ Append(s, x) \in Seq(S) /\ Append(s, x) # << >>
         /\ Len(Append(s, x)) = Len(s) + 1
         /\ \A i \in 1 .. Len(s) : Append(s, x)[i] = s[i]
         /\ Append(s, x)[Len(s) + 1] = x
  BY SMTT(30)

LEMMA SubSeqProperties ==
  ASSUME NEW S, NEW s \in Seq(S), NEW m \in Nat \ {0}, NEW n \in Nat, n <= Len(s)
  PROVE  /\ SubSeq(s, m, n) \in Seq(S)
         /\ Len(SubSeq(s, m, n)) = IF m <= n THEN n - m + 1 ELSE 0
         /\ \A i \in 1 .. n - m + 1 : SubSeq(s, m, n)[i] = s[m + i - 1]
  BY SMTT(30)
\* A part of a list without repetitions is one, and holds nothing else.
LEMMA PartIsDistinct ==
  ASSUME NEW S, NEW s \in Seq(S), Distinct(s),
         NEW m \in Nat \ {0}, NEW n \in Nat, n <= Len(s)
  PROVE  /\ SubSeq(s, m, n) \in Seq(S)
         /\ Len(SubSeq(s, m, n)) = IF m <= n THEN n - m + 1 ELSE 0
         /\ \A i \in 1 .. n - m + 1 : SubSeq(s, m, n)[i] = s[m + i - 1]
         /\ Distinct(SubSeq(s, m, n))
         /\ \A x : IsListed(SubSeq(s, m, n), x) => IsListed(s, x)
  <1> DEFINE t == SubSeq(s, m, n)
  <1>1. Len(s) \in Nat
    BY LenProperties
  <1>3. /\ t \in Seq(S)
        /\ Len(t) = IF m <= n THEN n - m + 1 ELSE 0
        /\ \A i \in 1 .. n - m + 1 : t[i] = s[m + i - 1]
    BY SubSeqProperties, SMTT(30)
  <1> HIDE DEF t
  <1>4. ASSUME NEW i \in 1 .. Len(t)
        PROVE  t[i] = s[m + i - 1] /\ m + i - 1 \in 1 .. Len(s)
    BY <1>1, <1>3, SMTT(30)
  <1>5. Distinct(t)
    BY <1>1, <1>3, <1>4, SMTT(30) DEF Distinct
  <1>6. \A x : IsListed(t, x) => IsListed(s, x)
    BY <1>4 DEF IsListed
  <1> QED
    BY <1>3, <1>5, <1>6 DEF t

\* A list without repetitions stays one when an item is added that it does
\* not hold.
LEMMA AppendIsDistinct ==
  ASSUME NEW S, NEW s \in Seq(S), Distinct(s), NEW x \in S, ~IsListed(s, x)
  PROVE  /\ Append(s, x) \in Seq(S) /\ Append(s, x) # << >>
         /\ Len(Append(s, x)) = Len(s) + 1
         /\ Distinct(Append(s, x))
  <1> DEFINE t == Append(s, x)
  <1>1. Len(s) \in Nat
    BY LenProperties
  <1>2. /\ t \in Seq(S) /\ t # << >>
        /\ Len(t) = Len(s) + 1
        /\ \A i \in 1 .. Len(s) : t[i] = s[i]
        /\ t[Len(s) + 1] = x
    BY AppendProperties
  <1> HIDE DEF t
  <1>3. ASSUME NEW i \in 1 .. Len(t), NEW j \in 1 .. Len(t), t[i] = t[j]
        PROVE  i = j
    <2>1. i \in 1 .. Len(s) \/ i = Len(s) + 1
      BY <1>1, <1>2, SMTT(30)
    <2>2. j \in 1 .. Len(s) \/ j = Len(s) + 1
      BY <1>1, <1>2, SMTT(30)
    <2> QED
      BY <1>2, <1>3, <2>1, <2>2 DEF Distinct, IsListed
  <1> QED
    BY <1>2, <1>3 DEF Distinct, t

\* What is in front of a new item fits, as a part of the list: addItem drops
\* the forward part, and the first entry of a list that is full.
LEMMA KeptFits ==
  ASSUME NEW I, NEW e, NEW c, IsList(e, c, I)
  PROVE  /\ KeptByAdd(e, c) \in Seq(I)
         /\ Len(KeptByAdd(e, c)) < Capacity
         /\ Distinct(KeptByAdd(e, c))
         /\ \A x : IsListed(KeptByAdd(e, c), x) => IsListed(e, x)
  <1>1. Len(e) \in Nat /\ Capacity \in Nat \ {0}
    BY LenProperties, CapacityAssumption DEF IsList
  <1>2. c \in Nat /\ c <= Len(e)
    BY <1>1, EmptySeq, SMTT(30) DEF IsList
  <1>3. Distinct(e) /\ e \in Seq(I) /\ Len(e) <= Capacity
    BY DEF IsList, Distinct
  <1>4. CASE TossesFirst(c)
    BY <1>1, <1>2, <1>3, <1>4, PartIsDistinct, SMTT(30) DEF KeptByAdd, TossesFirst
  <1>5. CASE ~TossesFirst(c)
    <2>1. c < Capacity
      BY <1>1, <1>2, <1>3, <1>5, SMTT(30) DEF TossesFirst
    <2> QED
      BY <1>1, <1>2, <1>3, <1>5, <2>1, PartIsDistinct, SMTT(30) DEF KeptByAdd
  <1> QED
    BY <1>4, <1>5

\* Taking an entry out of a list leaves the others, once each.
LEMMA RemovalIsDistinct ==
  ASSUME NEW S, NEW s \in Seq(S), Distinct(s), NEW k \in 1 .. Len(s)
  PROVE  /\ RemoveEntry(s, k) \in Seq(S)
         /\ Len(RemoveEntry(s, k)) = Len(s) - 1
         /\ Distinct(RemoveEntry(s, k))
         /\ \A x : IsListed(RemoveEntry(s, k), x) <=> IsListed(s, x) /\ x # s[k]
  <1> DEFINE a == SubSeq(s, 1, k - 1)
             b == SubSeq(s, k + 1, Len(s))
             t == RemoveEntry(s, k)
  <1>1. Len(s) \in Nat /\ k \in Nat \ {0} /\ k <= Len(s)
    BY LenProperties, SMTT(30)
  <1>2. a \in Seq(S) /\ Len(a) = k - 1 /\ \A i \in 1 .. k - 1 : a[i] = s[i]
    <2>1. k - 1 \in Nat /\ k - 1 <= Len(s)
      BY <1>1, SMTT(30)
    <2>2. /\ a \in Seq(S) /\ Len(a) = IF 1 <= k - 1 THEN k - 1 - 1 + 1 ELSE 0
          /\ \A i \in 1 .. k - 1 - 1 + 1 : a[i] = s[1 + i - 1]
      BY <2>1, PartIsDistinct, SMTT(30)
    <2> HIDE DEF a
    <2> QED
      BY <1>1, <2>2, SMTT(30)
  <1>3. /\ b \in Seq(S) /\ Len(b) = Len(s) - k
        /\ \A i \in 1 .. Len(s) - k : b[i] = s[k + i]
    <2>1. k + 1 \in Nat \ {0}
      BY <1>1, SMTT(30)
    <2>2. /\ b \in Seq(S)
          /\ Len(b) = IF k + 1 <= Len(s) THEN Len(s) - (k + 1) + 1 ELSE 0
          /\ \A i \in 1 .. Len(s) - (k + 1) + 1 : b[i] = s[k + 1 + i - 1]
      BY <1>1, <2>1, PartIsDistinct, SMTT(30)
    <2> HIDE DEF b
    <2> QED
      BY <1>1, <2>2, SMTT(30)
  <1>4. t = a \o b
    BY DEF RemoveEntry
  <1> HIDE DEF a, b, t
  <1>5. /\ t \in Seq(S) /\ Len(t) = Len(a) + Len(b)
        /\ \A i \in 1 .. Len(a) + Len(b) :
             t[i] = IF i <= Len(a) THEN a[i] ELSE b[i - Len(a)]
    BY <1>2, <1>3, <1>4, ConcatProperties
  <1>6. Len(t) = Len(s) - 1
    BY <1>1, <1>2, <1>3, <1>5, SMTT(30)
  <1>7. ASSUME NEW i \in 1 .. Len(t)
        PROVE  t[i] = s[IF i < k THEN i ELSE i + 1]
    <2>1. i \in 1 .. Len(a) + Len(b) /\ i \in Nat
      BY <1>1, <1>2, <1>3, <1>5, SMTT(30)
    <2>2. CASE i < k
      BY <1>1, <1>2, <1>5, <2>1, <2>2, SMTT(30)
    <2>3. CASE ~(i < k)
      <3>1. i - Len(a) \in 1 .. Len(s) - k /\ k + (i - Len(a)) = i + 1
        BY <1>1, <1>2, <1>3, <2>1, <2>3, SMTT(30)
      <3>2. t[i] = b[i - Len(a)]
        BY <1>1, <1>2, <1>5, <2>1, <2>3, SMTT(30)
      <3> QED
        BY <1>3, <2>3, <3>1, <3>2
    <2> QED
      BY <2>2, <2>3
  <1>8. Distinct(t)
    BY <1>1, <1>6, <1>7, SMTT(30) DEF Distinct
  <1>9. ASSUME NEW x, IsListed(s, x), x # s[k]
        PROVE  IsListed(t, x)
    <2>1. PICK i \in 1 .. Len(s) : s[i] = x
      BY <1>9 DEF IsListed
    <2>2. CASE i < k
      BY <1>1, <1>6, <1>7, <2>1, <2>2, SMTT(30) DEF IsListed
    <2>3. CASE i > k
      <3>1. i - 1 \in 1 .. Len(t) /\ ~(i - 1 < k) /\ (i - 1) + 1 = i
        BY <1>1, <1>6, <2>1, <2>3, SMTT(30)
      <3>2. t[i - 1] = x
        BY <1>7, <2>1, <3>1
      <3> QED
        BY <3>1, <3>2 DEF IsListed
    <2> QED
      BY <1>1, <1>9, <2>1, <2>2, <2>3, SMTT(30)
  <1>10. ASSUME NEW x, IsListed(t, x)
         PROVE  IsListed(s, x) /\ x # s[k]
    <2>1. PICK i \in 1 .. Len(t) : t[i] = x
      BY <1>10 DEF IsListed
    <2>2. PICK j \in 1 .. Len(s) : j # k /\ x = s[j]
      BY <1>1, <1>6, <1>7, <2>1, SMTT(30)
    <2> QED
      BY <2>2 DEF IsListed, Distinct
  <1> QED
    BY <1>5, <1>6, <1>8, <1>9, <1>10 DEF t

LEMMA AddIsList ==
  ASSUME NEW I, NEW e, NEW c, IsList(e, c, I), NEW item \in I, NEW keep \in BOOLEAN,
         ~IsListed(e, item), NEW f, f = EntriesAfterAdd(e, c, item, keep)
  PROVE  IsList(f, Len(f), I)
  <1> DEFINE kept == KeptByAdd(e, c)
  <1>1. /\ kept \in Seq(I) /\ Len(kept) < Capacity /\ Distinct(kept)
        /\ ~IsListed(kept, item)
    BY KeptFits
  <1>2. Len(kept) \in Nat /\ Capacity \in Nat
    BY <1>1, LenProperties, CapacityAssumption
  <1>3. f = IF keep \/ kept = << >> THEN Append(kept, item)
                   ELSE Append(SubSeq(kept, 1, Len(kept) - 1), item)
    BY DEF EntriesAfterAdd
  <1> HIDE DEF kept
  <1>4. /\ f \in Seq(I) /\ f # << >>
        /\ Len(f) <= Capacity /\ Distinct(f)
    <2>1. CASE keep \/ kept = << >>
      BY <1>1, <1>2, <1>3, <2>1, AppendIsDistinct, SMTT(30)
    <2>2. CASE ~(keep \/ kept = << >>)
      <3>1. Len(kept) \in Nat \ {0}
        BY <1>1, <2>2, EmptySeq
      <3> DEFINE front == SubSeq(kept, 1, Len(kept) - 1)
      <3>2. Len(kept) - 1 \in Nat /\ Len(kept) - 1 <= Len(kept)
        BY <3>1, SMTT(30)
      <3>3. /\ front \in Seq(I) /\ Distinct(front) /\ ~IsListed(front, item)
            /\ Len(front) = IF 1 <= Len(kept) - 1 THEN Len(kept) - 1 - 1 + 1 ELSE 0
        BY <1>1, <3>2, PartIsDistinct, SMTT(30)
      <3> HIDE DEF front
      <3>4. Len(front) = Len(kept) - 1
        <4>1. CASE Len(kept) = 1
          BY <3>3, <4>1, SMTT(30)
        <4>2. CASE Len(kept) > 1
          BY <3>1, <3>3, <4>2, SMTT(30)
        <4>3. \A n \in Nat \ {0} : n = 1 \/ n > 1
          BY SMTT(30)
        <4>4. Len(kept) = 1 \/ Len(kept) > 1
          BY <3>1, <4>3
        <4> QED
          BY <4>1, <4>2, <4>4
      <3>5. f = Append(front, item)
        BY <1>3, <2>2 DEF front
      <3> QED
        BY <1>1, <1>2, <3>3, <3>4, <3>5, AppendIsDistinct, SMTT(30)
    <2> QED
      BY <2>1, <2>2
  <1>5. Len(f) \in Nat \ {0}
    BY <1>4, EmptySeq
  <1> QED
    BY <1>4, <1>5, SMTT(30) DEF IsList, Distinct

LEMMA GoToIsList ==
  ASSUME NEW I, NEW e, NEW c, IsList(e, c, I), NEW item, NEW keep \in BOOLEAN,
         CanGoTo(e, c, item), NEW f, f = EntriesAfterGoTo(e, c, item, keep),
         NEW k, k = IndexOf(f, item)
  PROVE  IsList(f, k, I) /\ k \in 1 .. Len(f) /\ f[k] = item
  <1>1. /\ e \in Seq(I) /\ Distinct(e) /\ Len(e) \in Nat
        /\ Len(e) <= Capacity /\ Capacity \in Nat
        /\ c \in 1 .. Len(e) /\ IsListed(e, item)
    BY LenProperties, CapacityAssumption DEF IsList, Distinct, CanGoTo
  <1>2. /\ f \in Seq(I) /\ Distinct(f)
        /\ Len(f) <= Capacity /\ IsListed(f, item)
    <2>1. CASE e[c] = item \/ keep
      BY <1>1, <2>1 DEF EntriesAfterGoTo
    <2>2. CASE ~(e[c] = item \/ keep)
      <3>1. f = RemoveEntry(e, c)
        BY <2>2 DEF EntriesAfterGoTo
      <3>2. /\ f \in Seq(I) /\ Len(f) = Len(e) - 1
            /\ Distinct(f) /\ IsListed(f, item)
        BY <1>1, <2>2, <3>1, RemovalIsDistinct, SMTT(30)
      <3> QED
        BY <1>1, <3>2, SMTT(30)
    <2> QED
      BY <2>1, <2>2
  <1>3. k \in 1 .. Len(f) /\ f[k] = item
    BY <1>2 DEF IndexOf, IsListed
  <1>4. f # << >>
    BY <1>3, EmptySeq, SMTT(30)
  <1> QED
    BY <1>2, <1>3, <1>4 DEF IsList, Distinct

LEMMA ClearIsList ==
  ASSUME NEW I, NEW e, NEW c, IsList(e, c, I), NEW f, f = EntriesAfterClear(e, c),
         NEW k, k = Len(f)
  PROVE  IsList(f, k, I)
  <1>1. /\ e \in Seq(I) /\ Distinct(e) /\ Len(e) \in Nat
        /\ Len(e) <= Capacity /\ Capacity \in Nat \ {0}
    BY LenProperties, CapacityAssumption DEF IsList, Distinct
  <1>2. CASE Len(e) <= 1
    <2>1. f = e /\ k = Len(e)
      BY <1>2 DEF EntriesAfterClear
    <2>2. e # << >> => Len(e) \in Nat \ {0}
      BY <1>1, EmptySeq
    <2>3. e = << >> => Len(e) = 0
      BY EmptySeq
    <2> QED
      BY <1>1, <2>1, <2>2, <2>3, SMTT(30) DEF IsList, Distinct
  <1>3. CASE ~(Len(e) <= 1)
    <2>1. f = SubSeq(e, c, c) /\ k = Len(f)
      BY <1>3 DEF EntriesAfterClear
    <2>2. c \in Nat \ {0} /\ c \in Nat /\ c <= Len(e)
      <3>1. e # << >>
        BY <1>3, EmptySeq, SMTT(30)
      <3> QED
        BY <1>1, <3>1, SMTT(30) DEF IsList
    <2>3. /\ f \in Seq(I) /\ Distinct(f)
          /\ Len(f) = IF c <= c THEN c - c + 1 ELSE 0
      BY <1>1, <2>1, <2>2, PartIsDistinct, SMTT(30)
    <2>4. Len(f) = 1
      BY <2>2, <2>3, SMTT(30)
    <2>5. f # << >>
      BY <2>4, EmptySeq, SMTT(30)
    <2> QED
      BY <1>1, <2>1, <2>3, <2>4, <2>5, SMTT(30) DEF IsList, Distinct
  <1> QED
    BY <1>2, <1>3

LEMMA RestoredIsList ==
  ASSUME NEW I, NEW n \in 1 .. Capacity, NEW f \in [1 .. n -> I], Distinct(f),
         NEW k \in 1 .. Len(f)
  PROVE  IsList(f, k, I)
  <1>1. Capacity \in Nat
    BY CapacityAssumption
  <1>3. f \in Seq(I) /\ Len(f) = n
    BY <1>1, SMTT(30)
  <1>4. f # << >>
    BY <1>1, <1>3, EmptySeq, SMTT(30)
  <1> QED
    BY <1>1, <1>3, <1>4, SMTT(30) DEF IsList, Distinct

LEMMA EmptyIsList == ASSUME NEW I PROVE IsList(<< >>, 0, I)
  BY EmptySeq, CapacityAssumption, SMTT(30) DEF IsList, Distinct

LEMMA RangeIsListed ==
  ASSUME NEW S, NEW s \in Seq(S), NEW x
  PROVE  x \in Range(s) <=> IsListed(s, x)
  <1>1. DOMAIN s = 1 .. Len(s)
    BY SMTT(30)
  <1> QED
    BY <1>1 DEF Range, IsListed

\* What addItem tells the web process of is no longer in the list.
LEMMA AddTells ==
  ASSUME NEW I, NEW e, NEW c, IsList(e, c, I), NEW item, NEW keep \in BOOLEAN
  PROVE  /\ RemovedByAdd(e, c) \in Seq(I)
         /\ Range(RemovedByAdd(e, c)) \subseteq Range(e)
         /\ KeptByAdd(e, c) \in Seq(I)
         /\ Range(KeptByAdd(e, c))
              \subseteq Range(e) \ Range(RemovedByAdd(e, c))
         /\ Range(EntriesAfterAdd(e, c, item, keep))
              \subseteq Range(KeptByAdd(e, c)) \cup {item}
         /\ item \in Range(EntriesAfterAdd(e, c, item, keep))
  <1>1. /\ e \in Seq(I) /\ Distinct(e) /\ Len(e) \in Nat
        /\ c \in Nat /\ c <= Len(e)
    BY LenProperties, EmptySeq, SMTT(30) DEF IsList, Distinct
  <1> DEFINE n     == Len(e)
             first == IF TossesFirst(c) THEN 2 ELSE 1
             last  == IF TossesFirst(c) THEN 1 ELSE 0
             f     == [i \in 1 .. n - c |-> e[n + 1 - i]]
             g     == SubSeq(e, 1, last)
             r     == RemovedByAdd(e, c)
             kept  == KeptByAdd(e, c)
             after == EntriesAfterAdd(e, c, item, keep)
  <1>2. r = f \o g /\ kept = SubSeq(e, first, c)
    BY DEF RemovedByAdd, KeptByAdd
  <1>3. after = IF keep \/ kept = << >> THEN Append(kept, item)
                ELSE Append(SubSeq(kept, 1, Len(kept) - 1), item)
    BY DEF EntriesAfterAdd
  <1>4. /\ first \in Nat \ {0} /\ last \in Nat /\ last <= n
        /\ first = last + 1 /\ (last = 1 => 1 <= c)
    BY <1>1, CapacityAssumption, SMTT(30) DEF TossesFirst
  <1>5. f \in Seq(I) /\ Len(f) = n - c /\ n - c \in Nat
    <2>1. n - c \in Nat
      BY <1>1, SMTT(30)
    <2>2. \A i \in 1 .. n - c : e[n + 1 - i] \in I
      BY <1>1, SMTT(30)
    <2>3. f \in [1 .. n - c -> I]
      BY <2>2
    <2>4. PICK k : k = n - c
      OBVIOUS
    <2> HIDE DEF f, n
    <2>5. k \in Nat /\ f \in [1 .. k -> I]
      BY <2>1, <2>3, <2>4
    <2>6. f \in Seq(I) /\ Len(f) = k
      BY <2>5, SMTT(30)
    <2> QED
      BY <2>4, <2>5, <2>6
  <1>6. ASSUME NEW i \in 1 .. Len(f) PROVE \E j \in c + 1 .. n : f[i] = e[j]
    <2>1. f[i] = e[n + 1 - i] /\ n + 1 - i \in c + 1 .. n
      BY <1>1, <1>5, SMTT(30)
    <2> QED
      BY <2>1
  <1> HIDE DEF first, last, f, g, r, kept, after, n
  <1>7. /\ g \in Seq(I) /\ Len(g) = last
        /\ \A i \in 1 .. Len(g) : g[i] = e[i] /\ i = 1 /\ last = 1
    <2>1. last <= Len(e)
      BY <1>4 DEF n
    <2>2. /\ g \in Seq(I) /\ Len(g) = IF 1 <= last THEN last - 1 + 1 ELSE 0
          /\ \A i \in 1 .. last - 1 + 1 : g[i] = e[1 + i - 1]
      BY <1>1, <1>4, <2>1, PartIsDistinct, SMTT(30) DEF g
    <2>3. last \in {0, 1}
      BY DEF last
    <2> QED
      BY <2>2, <2>3, SMTT(30)
  <1>8. /\ kept \in Seq(I) /\ Len(kept) = IF first <= c THEN c - first + 1 ELSE 0
        /\ \A i \in 1 .. c - first + 1 : kept[i] = e[first + i - 1]
    BY <1>1, <1>2, <1>4, PartIsDistinct, SMTT(30)
  <1>9. /\ r \in Seq(I) /\ Len(r) = Len(f) + Len(g)
        /\ \A i \in 1 .. Len(f) + Len(g) :
             r[i] = IF i <= Len(f) THEN f[i] ELSE g[i - Len(f)]
    BY <1>2, <1>5, <1>7, ConcatProperties, SMTT(30)
  <1>10. ASSUME NEW x, IsListed(r, x)
         PROVE  \E j \in 1 .. n : e[j] = x /\ (j > c \/ j < first)
    <2>1. PICK i \in 1 .. Len(r) : r[i] = x
      BY <1>10 DEF IsListed
    <2>2. CASE i <= Len(f)
      <3>1. i \in 1 .. Len(f) /\ x = f[i]
        BY <1>5, <1>7, <1>9, <2>1, <2>2, SMTT(30)
      <3>2. PICK j \in c + 1 .. n : x = e[j]
        BY <1>6, <3>1
      <3>3. j \in 1 .. n /\ j > c
        BY <1>1, SMTT(30) DEF n
      <3> QED
        BY <3>2, <3>3
    <2>3. CASE ~(i <= Len(f))
      <3>1. i - Len(f) \in 1 .. Len(g) /\ x = g[i - Len(f)]
        BY <1>4, <1>5, <1>7, <1>9, <2>1, <2>3, SMTT(30)
      <3>2. x = e[1] /\ last = 1
        BY <1>7, <3>1
      <3>3. 1 \in 1 .. n /\ 1 < first
        BY <1>1, <1>4, <3>2, SMTT(30) DEF n
      <3> QED
        BY <3>2, <3>3
    <2> QED
      BY <2>2, <2>3
  <1>11. ASSUME NEW x, IsListed(kept, x)
         PROVE  \E j \in 1 .. n : e[j] = x /\ ~(j > c \/ j < first)
    <2>1. PICK i \in 1 .. Len(kept) : kept[i] = x
      BY <1>11 DEF IsListed
    <2>2. /\ i \in 1 .. c - first + 1 /\ first + i - 1 \in 1 .. n
          /\ ~(first + i - 1 > c \/ first + i - 1 < first)
      BY <1>1, <1>4, <1>8, <2>1, SMTT(30) DEF n
    <2> QED
      BY <1>8, <2>1, <2>2
  <1>12. Range(r) \subseteq Range(e)
    <2>1. ASSUME NEW x, IsListed(r, x) PROVE IsListed(e, x)
      BY <1>10, <2>1 DEF IsListed, n
    <2> QED
      BY <1>1, <1>9, <2>1, RangeIsListed
  <1>13. Range(kept) \subseteq Range(e) \ Range(r)
    <2>1. ASSUME NEW x, IsListed(kept, x) PROVE IsListed(e, x) /\ ~IsListed(r, x)
      <3>1. PICK i \in 1 .. n : e[i] = x /\ ~(i > c \/ i < first)
        BY <1>11, <2>1
      <3>2. ~IsListed(r, x)
        <4>1. SUFFICES ASSUME IsListed(r, x) PROVE FALSE
          OBVIOUS
        <4>2. PICK j \in 1 .. n : e[j] = x /\ (j > c \/ j < first)
          BY <1>10, <4>1
        <4>3. i = j
          BY <1>1, <3>1, <4>2 DEF Distinct, n
        <4> QED
          BY <3>1, <4>2, <4>3
      <3> QED
        BY <3>1, <3>2 DEF IsListed, n
    <2> QED
      BY <1>1, <1>8, <1>9, <2>1, RangeIsListed
  <1>14. ASSUME NEW t \in Seq(I), \A x : IsListed(t, x) => IsListed(kept, x),
                after = Append(t, item)
         PROVE  Range(after) \subseteq Range(kept) \cup {item} /\ item \in Range(after)
    <2>1. /\ Len(after) = Len(t) + 1 /\ Len(t) \in Nat /\ DOMAIN after = 1 .. Len(after)
          /\ \A i \in 1 .. Len(t) : after[i] = t[i]
          /\ after[Len(t) + 1] = item
      <3>1. t \in Seq(I \cup {item}) /\ item \in I \cup {item}
        <4>1. t \in [1 .. Len(t) -> I \cup {item}] /\ Len(t) \in Nat
          BY SMTT(30)
        <4> QED
          BY <4>1, SMTT(30)
      <3> QED
        BY <1>14, <3>1, AppendProperties, LenProperties, SMTT(30)
    <2>2. Len(t) + 1 \in DOMAIN after
      BY <2>1, SMTT(30)
    <2>3. ASSUME NEW i \in DOMAIN after PROVE after[i] \in Range(kept) \cup {item}
      <3>1. CASE i = Len(t) + 1
        BY <2>1, <3>1
      <3>2. CASE i # Len(t) + 1
        <4>1. i \in 1 .. Len(t)
          BY <2>1, <3>2, SMTT(30)
        <4>2. IsListed(t, after[i])
          BY <2>1, <4>1 DEF IsListed
        <4> QED
          BY <1>8, <1>14, <4>2, RangeIsListed
      <3> QED
        BY <3>1, <3>2
    <2> QED
      BY <2>1, <2>2, <2>3 DEF Range
  <1>15. Range(after) \subseteq Range(kept) \cup {item} /\ item \in Range(after)
    <2>1. CASE keep \/ kept = << >>
      BY <1>3, <1>8, <1>14, <2>1
    <2>2. CASE ~(keep \/ kept = << >>)
      <3>1. Len(kept) - 1 \in Nat /\ Len(kept) - 1 <= Len(kept) /\ Distinct(kept)
        BY <1>8, <2>2, EmptySeq, LenProperties, KeptFits, SMTT(30) DEF kept
      <3> DEFINE front == SubSeq(kept, 1, Len(kept) - 1)
      <3>2. front \in Seq(I) /\ \A x : IsListed(front, x) => IsListed(kept, x)
        BY <1>8, <3>1, PartIsDistinct, SMTT(30)
      <3>3. after = Append(front, item)
        BY <1>3, <2>2
      <3> HIDE DEF front
      <3> QED
        BY <1>14, <3>2, <3>3
    <2> QED
      BY <2>1, <2>2
  <1> QED
    BY <1>8, <1>9, <1>12, <1>13, <1>15 DEF r, kept, after

LEMMA GoToKeeps ==
  ASSUME NEW I, NEW e, NEW c, IsList(e, c, I), NEW item, NEW keep \in BOOLEAN, CanGoTo(e, c, item)
  PROVE  Range(EntriesAfterGoTo(e, c, item, keep)) \subseteq Range(e)
  <1>1. /\ e \in Seq(I) /\ Distinct(e) /\ Len(e) \in Nat
        /\ c \in 1 .. Len(e)
    BY LenProperties DEF IsList, Distinct, CanGoTo
  <1>2. CASE e[c] = item \/ keep
    BY <1>2 DEF EntriesAfterGoTo
  <1>3. CASE ~(e[c] = item \/ keep)
    <2>1. EntriesAfterGoTo(e, c, item, keep) = RemoveEntry(e, c)
      BY <1>3 DEF EntriesAfterGoTo
    <2>2. /\ RemoveEntry(e, c) \in Seq(I)
          /\ \A x : IsListed(RemoveEntry(e, c), x) => IsListed(e, x)
      BY <1>1, RemovalIsDistinct
    <2> QED
      BY <1>1, <2>1, <2>2, RangeIsListed
  <1> QED
    BY <1>2, <1>3

\* What clear tells the web process of is no longer in the list.
LEMMA ClearTells ==
  ASSUME NEW I, NEW e, NEW c, IsList(e, c, I), ~(Len(e) <= 1)
  PROVE  /\ RemoveEntry(e, c) \in Seq(I)
         /\ Range(RemoveEntry(e, c)) \subseteq Range(e)
         /\ Range(EntriesAfterClear(e, c))
              \subseteq Range(e) \ Range(RemoveEntry(e, c))
         /\ Len(EntriesAfterClear(e, c)) = 1
  <1>1. /\ e \in Seq(I) /\ Distinct(e) /\ Len(e) \in Nat
    BY LenProperties DEF IsList, Distinct
  <1>2. e # << >>
    BY EmptySeq, SMTT(30)
  <1>3. c \in 1 .. Len(e) /\ c \in Nat \ {0} /\ c \in Nat /\ c <= Len(e)
    BY <1>1, <1>2, SMTT(30) DEF IsList
  <1> DEFINE r == RemoveEntry(e, c)
             left == EntriesAfterClear(e, c)
  <1>4. r \in Seq(I) /\ \A x : IsListed(r, x) <=> IsListed(e, x) /\ x # e[c]
    BY <1>1, <1>3, RemovalIsDistinct
  <1>5. left = SubSeq(e, c, c)
    BY DEF EntriesAfterClear
  <1>6. /\ left \in Seq(I) /\ Len(left) = IF c <= c THEN c - c + 1 ELSE 0
        /\ \A i \in 1 .. c - c + 1 : left[i] = e[c + i - 1]
    BY <1>1, <1>3, <1>5, PartIsDistinct, SMTT(30)
  <1> HIDE DEF r, left
  <1>7. Len(left) = 1 /\ left[1] = e[c]
    <2>1. c - c + 1 = 1 /\ c + 1 - 1 = c /\ 1 \in 1 .. c - c + 1
      BY <1>3, SMTT(30)
    <2>2. left[1] = e[c + 1 - 1]
      BY <1>6, <2>1
    <2>3. Len(left) = 1
      BY <1>3, <1>6, SMTT(30)
    <2> QED
      BY <2>1, <2>2, <2>3
  <1>8. \A x : IsListed(left, x) => x = e[c]
    BY <1>7, SMTT(30) DEF IsListed
  <1>9. IsListed(e, e[c])
    BY <1>3 DEF IsListed
  <1> QED
    BY <1>1, <1>4, <1>6, <1>7, <1>8, <1>9, RangeIsListed DEF r, left

\* In a list that holds more than one item, the item that was current when a
\* new one was added, and that the client keeps, is the one to go back to:
\* neither the forward part nor the entry that is dropped from a full list
\* comes between.
THEOREM BackReturns ==
  ASSUME NEW I, NEW e, NEW c, IsList(e, c, I), c # 0, Capacity > 1, NEW item \in I
  PROVE  LET after == EntriesAfterAdd(e, c, item, TRUE)
         IN  BackItem(after, Len(after)) = {e[c]}
  <1> DEFINE first == IF TossesFirst(c) THEN 2 ELSE 1
             kept  == KeptByAdd(e, c)
             after == EntriesAfterAdd(e, c, item, TRUE)
  <1>1. /\ e \in Seq(I) /\ Distinct(e) /\ Len(e) \in Nat
        /\ Capacity \in Nat
    BY LenProperties, CapacityAssumption DEF IsList, Distinct
  <1>2. c \in Nat \ {0} /\ c <= Len(e)
    BY <1>1, SMTT(30) DEF IsList
  <1>3. first \in Nat \ {0} /\ first <= c
    BY <1>1, <1>2, SMTT(30) DEF TossesFirst
  <1>4. kept = SubSeq(e, first, c)
    BY DEF KeptByAdd
  <1> HIDE DEF first, kept
  <1>5. /\ kept \in Seq(I)
        /\ Len(kept) = IF first <= c THEN c - first + 1 ELSE 0
        /\ \A i \in 1 .. c - first + 1 : kept[i] = e[first + i - 1]
    BY <1>1, <1>2, <1>3, <1>4, PartIsDistinct, SMTT(30)
  <1>6. Len(kept) \in Nat \ {0} /\ kept[Len(kept)] = e[c]
    BY <1>2, <1>3, <1>5, SMTT(30)
  <1>7. after = Append(kept, item)
    BY DEF EntriesAfterAdd, kept
  <1> HIDE DEF after
  <1>8. Len(after) = Len(kept) + 1 /\ after[Len(kept)] = kept[Len(kept)]
    BY <1>5, <1>6, <1>7, AppendProperties, SMTT(30)
  <1>9. Len(after) > 1 /\ after[Len(after) - 1] = e[c]
    BY <1>6, <1>8, SMTT(30)
  <1> QED
    BY <1>9 DEF BackItem, after

-----------------------------------------------------------------------------
(* Facts about sequences and messages.                                     *)

LEMMA ConcatFacts ==
  ASSUME NEW S, NEW q \in Seq(S), NEW r \in Seq(S)
  PROVE  /\ q \o r \in Seq(S) /\ Len(q \o r) = Len(q) + Len(r)
         /\ Len(q) \in Nat /\ Len(r) \in Nat
         /\ \A i \in 1 .. Len(q) : (q \o r)[i] = q[i]
         /\ \A i \in 1 .. Len(r) : (q \o r)[Len(q) + i] = r[i]
  BY SMTT(30)

LEMMA TailFacts ==
  ASSUME NEW S, NEW q \in Seq(S), q # << >>
  PROVE  /\ Tail(q) \in Seq(S) /\ Len(Tail(q)) = Len(q) - 1
         /\ Len(q) \in Nat \ {0} /\ Head(q) = q[1] /\ Head(q) \in S
         /\ \A i \in 1 .. Len(q) - 1 : Tail(q)[i] = q[i + 1]
  BY SMTT(30)

LEMMA SeqFacts ==
  ASSUME NEW S, NEW q \in Seq(S)
  PROVE  /\ Len(q) \in Nat /\ DOMAIN q = 1 .. Len(q)
         /\ \A i \in 1 .. Len(q) : q[i] \in S
         /\ q = << >> <=> Len(q) = 0
  BY SMTT(30)

LEMMA AppendFacts ==
  ASSUME NEW S, NEW q \in Seq(S), NEW m \in S
  PROVE  /\ Append(q, m) \in Seq(S) /\ Len(Append(q, m)) = Len(q) + 1 /\ Len(q) \in Nat
         /\ \A i \in 1 .. Len(q) : Append(q, m)[i] = q[i]
         /\ Append(q, m)[Len(q) + 1] = m
  BY SMTT(30)

States == {"Provisional", "Committed", "Finished"}

Stops == {"DidFailProvisionalLoad", "DidFinishLoad", "DidFailLoad"}

\* The state of a page's load after it is told of an event.
StateAfter(state, type) ==
  IF type = "DidStartProvisionalLoad" THEN "Provisional"
  ELSE IF type = "DidCommitLoad" THEN "Committed"
  ELSE IF type \in Stops THEN "Finished" ELSE state

\* What PageLoadState asserts.
InOrder(state, type) ==
  /\ type \in {"DidStartProvisionalLoad", "DidFailLoad"} => state # "Provisional"
  /\ type \in {"DidFailProvisionalLoad", "DidCommitLoad"} => state = "Provisional"
  /\ type = "DidFinishLoad" => state = "Committed"

\* The events in q come in order and take a load from a to b.
Leads(q, a, b) ==
  \E f \in [0 .. Len(q) -> States] :
    /\ f[0] = a /\ f[Len(q)] = b
    /\ \A i \in 1 .. Len(q) :
         InOrder(f[i - 1], q[i].type) /\ f[i] = StateAfter(f[i - 1], q[i].type)

LEMMA LeadsNowhere == ASSUME NEW a \in States PROVE Leads(<< >>, a, a)
  <1> DEFINE f == [i \in 0 .. 0 |-> a]
  <1>1. /\ Len(<< >>) = 0 /\ f \in [0 .. 0 -> States] /\ f[0] = a
        /\ \A i \in 1 .. 0 : FALSE
    BY SMTT(30)
  <1> QED
    BY <1>1 DEF Leads

LEMMA SentConcat ==
  ASSUME NEW S, NEW q \in Seq(S), NEW r \in Seq(S), NEW T
  PROVE  Sent(q \o r, T) <=> Sent(q, T) \/ Sent(r, T)
  <1>1. PICK s : s = q \o r
    OBVIOUS
  <1>2. /\ s \in Seq(S) /\ Len(s) = Len(q) + Len(r) /\ Len(q) \in Nat /\ Len(r) \in Nat
        /\ \A i \in 1 .. Len(q) : s[i] = q[i]
        /\ \A i \in 1 .. Len(r) : s[Len(q) + i] = r[i]
        /\ DOMAIN s = 1 .. Len(s) /\ DOMAIN q = 1 .. Len(q) /\ DOMAIN r = 1 .. Len(r)
    BY <1>1, ConcatFacts, SeqFacts, SMTT(30)
  <1>3. ASSUME NEW i \in 1 .. Len(q), q[i].type \in T PROVE Sent(s, T)
    <2>1. i \in DOMAIN s /\ s[i] = q[i]
      BY <1>2, SMTT(30)
    <2> QED
      BY <1>3, <2>1 DEF Sent
  <1>4. ASSUME NEW i \in 1 .. Len(r), r[i].type \in T PROVE Sent(s, T)
    <2>1. Len(q) + i \in DOMAIN s /\ s[Len(q) + i] = r[i]
      BY <1>2, SMTT(30)
    <2> QED
      BY <1>4, <2>1 DEF Sent
  <1>5. ASSUME NEW i \in 1 .. Len(s), s[i].type \in T PROVE Sent(q, T) \/ Sent(r, T)
    <2>1. CASE i <= Len(q)
      <3>1. i \in DOMAIN q /\ s[i] = q[i]
        BY <1>2, <2>1, SMTT(30)
      <3> QED
        BY <1>5, <3>1 DEF Sent
    <2>2. CASE ~(i <= Len(q))
      <3>1. i - Len(q) \in 1 .. Len(r) /\ Len(q) + (i - Len(q)) = i
        BY <1>2, <2>2, SMTT(30)
      <3>2. i - Len(q) \in DOMAIN r /\ s[i] = r[i - Len(q)]
        BY <1>2, <3>1
      <3> QED
        BY <1>5, <3>2 DEF Sent
    <2> QED
      BY <2>1, <2>2
  <1>6. /\ Sent(q, T) => \E i \in 1 .. Len(q) : q[i].type \in T
        /\ Sent(r, T) => \E i \in 1 .. Len(r) : r[i].type \in T
        /\ Sent(s, T) => \E i \in 1 .. Len(s) : s[i].type \in T
    BY <1>2 DEF Sent
  <1> QED
    BY <1>1, <1>3, <1>4, <1>5, <1>6

LEMMA SentOne ==
  ASSUME NEW m, NEW T
  PROVE  Sent(<<m>>, T) <=> m.type \in T
  <1>1. DOMAIN <<m>> = {1} /\ <<m>>[1] = m
    BY SMTT(30)
  <1> QED
    BY <1>1 DEF Sent

LEMMA SentAppend ==
  ASSUME NEW S, NEW q \in Seq(S), NEW m \in S, NEW T
  PROVE  Sent(Append(q, m), T) <=> Sent(q, T) \/ m.type \in T
  <1>1. PICK r : r = <<m>>
    OBVIOUS
  <1>2. r \in Seq(S) /\ Append(q, m) = q \o r
    BY <1>1, SMTT(30)
  <1>3. Sent(r, T) <=> m.type \in T
    BY <1>1, SentOne
  <1>4. Sent(q \o r, T) <=> Sent(q, T) \/ Sent(r, T)
    BY <1>2, SentConcat
  <1> QED
    BY <1>2, <1>3, <1>4

LEMMA SentTail ==
  ASSUME NEW S, NEW q \in Seq(S), q # << >>, NEW T
  PROVE  Sent(q, T) <=> Head(q).type \in T \/ Sent(Tail(q), T)
  <1>1. PICK r : r = Tail(q)
    OBVIOUS
  <1>2. /\ r \in Seq(S) /\ Len(r) = Len(q) - 1
        /\ Len(q) \in Nat \ {0} /\ Head(q) = q[1] /\ Head(q) \in S
        /\ \A i \in 1 .. Len(q) - 1 : r[i] = q[i + 1]
        /\ DOMAIN q = 1 .. Len(q) /\ DOMAIN r = 1 .. Len(r)
    BY <1>1, TailFacts, SeqFacts
  <1>3. ASSUME NEW i \in DOMAIN r PROVE i + 1 \in DOMAIN q /\ r[i] = q[i + 1]
    BY <1>2, SMTT(30)
  <1>4. ASSUME NEW i \in DOMAIN q, i # 1 PROVE i - 1 \in DOMAIN r /\ r[i - 1] = q[i]
    <2>1. i - 1 \in 1 .. Len(q) - 1 /\ (i - 1) + 1 = i
      BY <1>2, <1>4, SMTT(30)
    <2> QED
      BY <1>2, <2>1
  <1>5. 1 \in DOMAIN q
    BY <1>2, SMTT(30)
  <1> QED
    BY <1>1, <1>2, <1>3, <1>4, <1>5 DEF Sent

Starts == {"DidStartProvisionalLoad", "DidCommitLoad"}

Told(q, a, b) ==
  /\ Leads(q, a, b)
  /\ a # "Finished" => b # "Finished" \/ Sent(q, Stops)
  /\ \A i \in 1 .. Len(q) : q[i].type \in Starts =>
       b # "Finished" \/ \E j \in i + 1 .. Len(q) : q[j].type \in Stops

LEMMA ToldNothing == ASSUME NEW a \in States PROVE Told(<< >>, a, a)
  <1>1. \A i \in 1 .. Len(<< >>) : FALSE
    BY SMTT(30)
  <1> QED
    BY <1>1, LeadsNowhere DEF Told

LoadKinds == {Web!Nothing} \cup [kind : {"new", "item", "reload"}, url : Nat]

LEMMA LoadKindsFacts ==
  /\ Web!Nothing \in LoadKinds /\ Web!Nothing.kind = "none"
  /\ \A l \in LoadKinds : l.url \in Nat /\ (l # Web!Nothing => l.kind # "none")
  /\ \A k \in {"new", "item", "reload"}, n \in Nat :
       [kind |-> k, url |-> n] \in LoadKinds /\ [kind |-> k, url |-> n] # Web!Nothing
  <1>1. Web!Nothing \in LoadKinds /\ Web!Nothing.kind = "none" /\ Web!Nothing.url = 0
    BY DEF Web!Nothing, LoadKinds
  <1>2. ASSUME NEW l \in LoadKinds
        PROVE  l.url \in Nat /\ (l # Web!Nothing => l.kind # "none")
    BY <1>1, SMTT(30) DEF LoadKinds
  <1>3. ASSUME NEW k \in {"new", "item", "reload"}, NEW n \in Nat
        PROVE  [kind |-> k, url |-> n] \in LoadKinds /\ [kind |-> k, url |-> n] # Web!Nothing
    <2>1. [kind |-> k, url |-> n] \in LoadKinds
      BY DEF LoadKinds
    <2>2. [kind |-> k, url |-> n].kind = k
      OBVIOUS
    <2> QED
      BY <1>1, <2>1, <2>2
  <1> QED
    BY <1>1, <1>2, <1>3

Odd(n) == n % 2 = 1

LEMMA ParityFacts ==
  /\ ~Odd(0) /\ Odd(1)
  /\ \A n \in Nat : Odd(n) \in BOOLEAN
  /\ \A n \in Nat : Odd(n + 2) <=> Odd(n)
  /\ \A n \in Nat : ~Odd(n) => Odd(n + 1)
  BY SMTT(30) DEF Odd

Additions == {"AddBackForwardItem", "BackForwardAddItem"}

Questions == {"BackForwardGoToItem", "DecidePolicyForNavigationAction"}

Answers == {"DidStartProvisionalLoad", "DidSameDocumentNavigation"}

Done == {"StopResponsivenessTimer"}

UITypes ==
  Starts \cup Stops \cup Additions \cup Questions \cup Answers \cup Done
    \cup {"BackForwardClear"}

UIMessages == [type : UITypes, id : Nat]

Webs ==
  [known : SUBSET Nat, uniqueHistoryItemID : Nat, created : BOOLEAN,
   loader : States, load : LoadKinds, shown : Nat, provisional : Nat,
   document : BOOLEAN,
   wait : {"no", "goTo", "went", "policy", "use", "ignore", "download"},
   next : LoadKinds, handling : BOOLEAN, strayed : BOOLEAN,
   out : Seq(UIMessages)]

Decided == {"policy", "use", "ignore", "download"}

\* What holds of w between its steps.
Ready(w) ==
  /\ w.wait \in Decided => w.next # Web!Nothing
  /\ w.loader = "Provisional" => w.load # Web!Nothing

LEMMA NewWebProcessFacts ==
  LET w == Web!NewWebProcess
  IN  /\ w \in Webs /\ w.out = << >> /\ w.known = {} /\ w.uniqueHistoryItemID = 1
      /\ w.created = FALSE /\ w.loader = "Finished" /\ w.wait = "no"
      /\ w.document = FALSE /\ w.handling = FALSE /\ w.next = Web!Nothing
      /\ Ready(w)
  <1> DEFINE w == Web!NewWebProcess
  <1>1. /\ w.out = << >> /\ w.known = {} /\ w.uniqueHistoryItemID = 1
        /\ w.created = FALSE /\ w.loader = "Finished" /\ w.wait = "no"
        /\ w.document = FALSE /\ w.handling = FALSE /\ w.next = Web!Nothing
    BY DEF Web!NewWebProcess
  <1>2. w \in Webs
    <2>1. << >> \in Seq(UIMessages)
      BY SMTT(30)
    <2> QED
      BY <2>1, LoadKindsFacts DEF Web!NewWebProcess, Webs, States
  <1>3. Ready(w)
    BY <1>1 DEF Ready, Decided
  <1> QED
    BY <1>1, <1>2, <1>3

\* The UI process gives out even IDs, and each web process odd ones beyond
\* all odd ones there are: those it is told of when it is created, and its
\* own.
Counted(p, w, a, tw, tu) ==
  /\ ~Odd(p.lastID) /\ p.lastID <= p.highest
  /\ Range(p.entries) \subseteq p.items
  /\ \A n \in p.items : 1 < n /\ n <= p.highest
  /\ Odd(w.uniqueHistoryItemID)
  /\ a /\ w.created =>
       \A n \in p.items \cup w.known : Odd(n) => n <= w.uniqueHistoryItemID
  /\ a /\ ~w.created =>
       /\ tw # << >> /\ tw[1].type = "CreateWebPage" /\ tu = << >>
       /\ w = Web!NewWebProcess
       /\ \A n \in p.items \cup tw[1].items : Odd(n) => n <= tw[1].highest

\* A process is created by its first message; restored items have even IDs;
\* what it is told to forget is an item of the UI process.
InWeb(p, w, tw) ==
  \A i \in 1 .. Len(tw) :
    /\ tw[i].type = "CreateWebPage" => i = 1 /\ ~w.created
    /\ tw[i].type = "RestoreSession" => \A n \in tw[i].items : ~Odd(n)
    /\ tw[i].type = "DidRemoveBackForwardItem" => tw[i].id \in p.items

\* An item is made known, and then added, before the next one is; it is
\* newer than the ones listed and the ones to forget.
InUI(p, w, a, tw, tu) ==
  \A i \in 1 .. Len(tu) :
    /\ tu[i].type \in Additions =>
         Odd(tu[i].id) /\ 1 < tu[i].id /\ (a => tu[i].id <= w.uniqueHistoryItemID)
    /\ tu[i].type = "BackForwardAddItem" =>
         /\ \A n \in Range(p.entries) : Odd(n) => n < tu[i].id
         /\ \A j \in 1 .. i - 1 : tu[j].type = "BackForwardAddItem" => tu[j].id < tu[i].id
         /\ \A j \in 1 .. Len(tw) :
              tw[j].type = "DidRemoveBackForwardItem" /\ Odd(tw[j].id) => tw[j].id < tu[i].id
         /\ i = 1 => tu[i].id \in p.items
         /\ i # 1 => tu[i - 1].type = "AddBackForwardItem" /\ tu[i - 1].id = tu[i].id

\* The items a web process knows after a message.
KnownAfter(known, m) ==
  IF m.type \in {"CreateWebPage", "RestoreSession"} THEN known \cup m.items
  ELSE IF m.type = "DidRemoveBackForwardItem" THEN known \ {m.id} ELSE known

\* The messages in q name known items only, and take a process that knows a
\* to one that knows b.
Teaches(q, a, b) ==
  \E f \in [0 .. Len(q) -> SUBSET Nat] :
    /\ f[0] = a /\ f[Len(q)] = b
    /\ \A i \in 1 .. Len(q) :
         /\ q[i].type = "GoToBackForwardItem" => q[i].id \in f[i - 1]
         /\ f[i] = KnownAfter(f[i - 1], q[i])

\* With what it is told, the process knows the items listed and to be listed.
Known(p, w, a, tw, tu) ==
  a => \E k \in SUBSET Nat :
         /\ Teaches(tw, w.known, k)
         /\ Range(p.entries) \subseteq k
         /\ \A i \in 1 .. Len(tu) : tu[i].type = "BackForwardAddItem" => tu[i].id \in k

IDs(p, w, a, tw, tu) ==
  /\ Counted(p, w, a, tw, tu) /\ InWeb(p, w, tw)
  /\ InUI(p, w, a, tw, tu) /\ Known(p, w, a, tw, tu)

\* The part of a page the IDs depend on.
SameIDs(p, q) ==
  /\ q.entries = p.entries /\ q.items = p.items
  /\ q.lastID = p.lastID /\ q.highest = p.highest

LEMMA IDsSame ==
  ASSUME NEW p, NEW q, SameIDs(p, q), NEW w, NEW a, NEW tw, NEW tu,
         IDs(p, w, a, tw, tu)
  PROVE  IDs(q, w, a, tw, tu)
  BY DEF SameIDs, IDs, Counted, InWeb, InUI, Known

-----------------------------------------------------------------------------
(* The invariant.                                                          *)

WebMessages ==
  [type : {"CreateWebPage"}, items : SUBSET Nat, highest : Nat]
    \cup [type : {"RestoreSession"}, items : SUBSET Nat]
    \cup [type : Requests \cup {"DidRemoveBackForwardItem"}, id : Nat]

Pages ==
  [entries : Seq(Nat), cur : Nat, canGoBack : BOOLEAN, canGoForward : BOOLEAN,
   pending : Nat, state : States, valid : BOOLEAN, items : SUBSET Nat,
   lastID : Nat, highest : Nat, timer : BOOLEAN, responsive : BOOLEAN,
   announced : BOOLEAN, dropped : BOOLEAN, out : Seq(WebMessages),
   fresh : BOOLEAN]

\* The fields of w other than the messages.
SameWeb(w, x) ==
  /\ x.known = w.known /\ x.uniqueHistoryItemID = w.uniqueHistoryItemID
  /\ x.created = w.created /\ x.loader = w.loader /\ x.load = w.load
  /\ x.shown = w.shown /\ x.provisional = w.provisional
  /\ x.document = w.document /\ x.wait = w.wait /\ x.next = w.next
  /\ x.handling = w.handling /\ x.strayed = w.strayed

\* What the process knows and loads is left alone.
Continues(w, x) ==
  /\ x.known = w.known /\ x.uniqueHistoryItemID = w.uniqueHistoryItemID
  /\ x.created = w.created /\ x.loader = w.loader /\ x.load = w.load

\* A synchronous message is the last one, and the process waits for it.
Waits(q, wait) ==
  \A i \in 1 .. Len(q) : q[i].type \in Questions =>
    /\ i = Len(q)
    /\ wait = IF q[i].type = "BackForwardGoToItem" THEN "goTo" ELSE "policy"

\* The first two messages in q add the item id, and no others add any.
Adds(q, id) ==
  /\ Len(q) >= 2
  /\ q[1].type = "AddBackForwardItem" /\ q[1].id = id
  /\ q[2].type = "BackForwardAddItem" /\ q[2].id = id
  /\ \A i \in 3 .. Len(q) : q[i].type \notin Additions

Backed == {"goTo", "went", "policy", "use", "download"}

GoesOn(w, x) ==
  /\ x \in Webs /\ x.created = w.created
  /\ Ready(x)
  /\ Told(x.out, w.loader, x.loader)
  /\ Waits(x.out, x.wait)
  /\ w.handling => x.handling \/ Sent(x.out, Done)
  /\ \/ /\ ~Sent(x.out, Additions)
        /\ x.known = w.known /\ x.uniqueHistoryItemID = w.uniqueHistoryItemID
     \/ /\ Adds(x.out, w.uniqueHistoryItemID + 2)
        /\ x.known = w.known \cup {w.uniqueHistoryItemID + 2}
        /\ x.uniqueHistoryItemID = w.uniqueHistoryItemID + 2

Typed(p, w, a, tw, tu) ==
  /\ p \in Pages /\ p.out = << >> /\ p.fresh = FALSE
  /\ w \in Webs /\ w.out = << >>
  /\ a \in BOOLEAN /\ tw \in Seq(WebMessages) /\ tu \in Seq(UIMessages)

\* A running process waits for each synchronous message it sent; a page
\* without a process has none, and nothing comes from it.
Synced(p, w, a, tw, tu) ==
  /\ Ready(w)
  /\ a => Waits(tu, w.wait)
  /\ ~p.valid => ~a /\ tu = << >> /\ p.pending = 0 /\ p.state = "Finished"
  /\ ~a => tw = << >> /\ w = Web!NewWebProcess

\* The events that are under way take the page's load state to the loader's.
Loads(p, w, a, tu) ==
  \E s \in States : Told(tu, p.state, s) /\ (a => s = w.loader)

\* What is behind the timer and the pending request.
Evidence(p, w, a, tw, tu) ==
  /\ a /\ (p.timer \/ ~p.responsive) =>
       Sent(tw, Requests) \/ w.handling \/ Sent(tu, Done)
  /\ a /\ p.pending # 0 =>
       \/ p.dropped
       \/ Sent(tw, Requests \ {"StopLoading"})
       \/ w.wait \in Backed /\ w.next # Web!Nothing
       \/ Sent(tu, Answers)

\* CanGoIsCurrent, for any page.
Buttons(p) ==
  p.announced =>
    /\ p.canGoBack = (BackItem(p.entries, p.cur) # {})
    /\ p.canGoForward = (ForwardItem(p.entries, p.cur) # {})

SameButtons(p, q) ==
  /\ q.entries = p.entries /\ q.cur = p.cur /\ q.announced = p.announced
  /\ q.canGoBack = p.canGoBack /\ q.canGoForward = p.canGoForward

Good(p, w, a, tw, tu) ==
  /\ Typed(p, w, a, tw, tu) /\ Synced(p, w, a, tw, tu) /\ Loads(p, w, a, tu)
  /\ Evidence(p, w, a, tw, tu) /\ IDs(p, w, a, tw, tu) /\ Buttons(p)

Backs(w) == w.wait \in Backed /\ w.next # Web!Nothing

\* The request behind a step with x is still being seen to, or was answered,
\* or the page is told that it is not.
Accounts(p, q, w, x, tw, u) ==
  /\ Sent(tw, Requests) => Sent(u, Requests) \/ x.handling \/ Sent(x.out, Done)
  /\ \/ q = [p EXCEPT !.dropped = p.pending # 0]
     \/ /\ q = p
        /\ Sent(tw, Requests \ {"StopLoading"}) \/ Backs(w) =>
             Sent(u, Requests \ {"StopLoading"}) \/ Backs(x) \/ Sent(x.out, Answers)

\* A process that is created, and does not wait for an answer, goes on with x.
Proceeds(w, x) == w.created /\ w.wait \notin {"goTo", "policy"} /\ GoesOn(w, x)

\* What x collected is sent.
Delivers(x, y, tu, v) == y = [x EXCEPT !.out = << >>] /\ v = tu \o x.out

\* What a message to the web process, other than a request, leaves alone.
Learns(w, x) ==
  /\ x.wait = w.wait /\ x.next = w.next /\ x.loader = w.loader /\ x.load = w.load
  /\ x.handling = w.handling /\ x.out = << >>

LEMMA LeadsConcat ==
  ASSUME NEW q \in Seq(UIMessages), NEW r \in Seq(UIMessages), NEW a, NEW b, NEW c,
         Leads(q, a, b), Leads(r, b, c)
  PROVE  Leads(q \o r, a, c)
  <1>1. PICK f \in [0 .. Len(q) -> States] :
           /\ f[0] = a /\ f[Len(q)] = b
           /\ \A i \in 1 .. Len(q) :
                InOrder(f[i - 1], q[i].type) /\ f[i] = StateAfter(f[i - 1], q[i].type)
    BY DEF Leads
  <1>2. PICK g \in [0 .. Len(r) -> States] :
           /\ g[0] = b /\ g[Len(r)] = c
           /\ \A i \in 1 .. Len(r) :
                InOrder(g[i - 1], r[i].type) /\ g[i] = StateAfter(g[i - 1], r[i].type)
    BY DEF Leads
  <1>s. PICK s : s = q \o r
    OBVIOUS
  <1>3. /\ Len(q) \in Nat /\ Len(r) \in Nat /\ Len(s) = Len(q) + Len(r)
        /\ \A i \in 1 .. Len(q) : s[i] = q[i]
        /\ \A i \in 1 .. Len(r) : s[Len(q) + i] = r[i]
    BY <1>s, ConcatFacts, SMTT(30)
  <1> DEFINE h == [i \in 0 .. Len(q) + Len(r) |->
                     IF i <= Len(q) THEN f[i] ELSE g[i - Len(q)]]
  <1>4. h \in [0 .. Len(s) -> States]
    BY <1>3, SMTT(30)
  <1>5. h[0] = a /\ h[Len(s)] = c
    BY <1>1, <1>2, <1>3, SMTT(30)
  <1>6. ASSUME NEW i \in 1 .. Len(s)
        PROVE  InOrder(h[i - 1], s[i].type) /\ h[i] = StateAfter(h[i - 1], s[i].type)
    <2>1. CASE i <= Len(q)
      <3>1. i \in 1 .. Len(q) /\ h[i] = f[i] /\ h[i - 1] = f[i - 1] /\ s[i] = q[i]
        BY <1>3, <2>1, SMTT(30)
      <3> QED
        BY <1>1, <3>1
    <2>2. CASE ~(i <= Len(q))
      <3> DEFINE j == i - Len(q)
      <3>1. j \in 1 .. Len(r) /\ i = Len(q) + j /\ h[i] = g[j] /\ s[i] = r[j]
        BY <1>3, <2>2, SMTT(60)
      <3>2. h[i - 1] = g[j - 1]
        <4>1. CASE j = 1
          <5>1. i - 1 = Len(q) /\ j - 1 = 0 /\ h[i - 1] = f[Len(q)]
            BY <1>3, <3>1, <4>1, SMTT(30)
          <5> QED
            BY <1>1, <1>2, <5>1
        <4>2. CASE j # 1
          <5>1. /\ i - 1 \in 0 .. Len(q) + Len(r) /\ ~(i - 1 <= Len(q))
                /\ (i - 1) - Len(q) = j - 1
            BY <1>3, <3>1, <4>2, SMTT(30)
          <5> QED
            BY <5>1
        <4> QED
          BY <4>1, <4>2
      <3> QED
        BY <1>2, <3>1, <3>2
    <2> QED
      BY <2>1, <2>2
  <1> HIDE DEF h
  <1>7. Leads(s, a, c)
    BY <1>4, <1>5, <1>6 DEF Leads
  <1> QED
    BY <1>s, <1>7

LEMMA ToldConcat ==
  ASSUME NEW q \in Seq(UIMessages), NEW r \in Seq(UIMessages), NEW a, NEW b, NEW c,
         Told(q, a, b), Told(r, b, c)
  PROVE  Told(q \o r, a, c)
  <1>1. Leads(q \o r, a, c)
    BY LeadsConcat DEF Told
  <1>2. Sent(q \o r, Stops) <=> Sent(q, Stops) \/ Sent(r, Stops)
    BY SentConcat
  <1>3. PICK s : s = q \o r
    OBVIOUS
  <1>4. /\ s \in Seq(UIMessages) /\ Len(s) = Len(q) + Len(r)
        /\ Len(q) \in Nat /\ Len(r) \in Nat
        /\ \A i \in 1 .. Len(q) : s[i] = q[i]
        /\ \A i \in 1 .. Len(r) : s[Len(q) + i] = r[i]
    BY <1>3, ConcatFacts, SMTT(30)
  <1>5. b # "Finished" => c # "Finished" \/ \E j \in 1 .. Len(r) : r[j].type \in Stops
    <2>1. DOMAIN r = 1 .. Len(r)
      BY SeqFacts
    <2> QED
      BY <2>1 DEF Told, Sent
  <1>6. ASSUME NEW i \in 1 .. Len(s), s[i].type \in Starts, c = "Finished"
        PROVE  \E j \in i + 1 .. Len(s) : s[j].type \in Stops
    <2>1. CASE i <= Len(q)
      <3>1. i \in 1 .. Len(q) /\ q[i].type \in Starts
        BY <1>4, <1>6, <2>1, SMTT(30)
      <3>2. CASE \E j \in i + 1 .. Len(q) : q[j].type \in Stops
        <4>1. PICK j \in i + 1 .. Len(q) : q[j].type \in Stops
          BY <3>2
        <4>2. j \in 1 .. Len(q) /\ j \in i + 1 .. Len(s)
          BY <1>4, SMTT(30)
        <4> QED
          BY <1>4, <4>1, <4>2
      <3>3. CASE b # "Finished"
        <4>1. PICK j \in 1 .. Len(r) : r[j].type \in Stops
          BY <1>5, <1>6, <3>3
        <4>2. Len(q) + j \in i + 1 .. Len(s)
          BY <1>4, <2>1, SMTT(30)
        <4> QED
          BY <1>4, <4>1, <4>2
      <3> QED
        BY <3>1, <3>2, <3>3 DEF Told
    <2>2. CASE ~(i <= Len(q))
      <3>1. i - Len(q) \in 1 .. Len(r) /\ Len(q) + (i - Len(q)) = i
        BY <1>4, <2>2, SMTT(30)
      <3>2. s[i] = r[i - Len(q)]
        BY <1>4, <3>1
      <3>3. PICK j \in (i - Len(q)) + 1 .. Len(r) : r[j].type \in Stops
        BY <1>6, <3>1, <3>2 DEF Told
      <3>4. j \in 1 .. Len(r) /\ Len(q) + j \in i + 1 .. Len(s)
        BY <1>4, <3>1, SMTT(30)
      <3> QED
        BY <1>4, <3>3, <3>4
    <2> QED
      BY <2>1, <2>2
  <1> QED
    BY <1>1, <1>2, <1>3, <1>6 DEF Told

\* A step of the web process that goes on from where it was keeps Good.
LEMMA WebStepKeeps ==
  \A p, w, tw, tu, q, u, x, y, v :
    /\ Good(p, w, TRUE, tw, tu) /\ u \in Seq(WebMessages) /\ IDs(p, w, TRUE, u, tu)
    /\ Proceeds(w, x) /\ Accounts(p, q, w, x, tw, u) /\ Delivers(x, y, tu, v)
    => Good(q, y, TRUE, u, v) /\ SameButtons(p, q)
  \* An item that no message in q removes is known throughout.
  <1>TeachesMore.
    ASSUME NEW q \in Seq(WebMessages), NEW a, NEW b, Teaches(q, a, b), NEW id \in Nat,
           \A i \in 1 .. Len(q) : q[i].type = "DidRemoveBackForwardItem" => q[i].id # id
    PROVE  Teaches(q, a \cup {id}, b \cup {id})
    <2> USE <1>TeachesMore
    <2>1. PICK f \in [0 .. Len(q) -> SUBSET Nat] :
             /\ f[0] = a /\ f[Len(q)] = b
             /\ \A i \in 1 .. Len(q) :
                  /\ q[i].type = "GoToBackForwardItem" => q[i].id \in f[i - 1]
                  /\ f[i] = KnownAfter(f[i - 1], q[i])
      BY DEF Teaches
    <2>2. Len(q) \in Nat
      BY SMTT(30)
    <2> DEFINE h == [i \in 0 .. Len(q) |-> f[i] \cup {id}]
    <2>3. /\ h \in [0 .. Len(q) -> SUBSET Nat]
          /\ h[0] = a \cup {id} /\ h[Len(q)] = b \cup {id}
      BY <2>1, <2>2, SMTT(30)
    <2>4. ASSUME NEW i \in 1 .. Len(q)
          PROVE  /\ q[i].type = "GoToBackForwardItem" => q[i].id \in h[i - 1]
                 /\ h[i] = KnownAfter(h[i - 1], q[i])
      <3>1. h[i] = f[i] \cup {id} /\ h[i - 1] = f[i - 1] \cup {id}
        BY <2>2, SMTT(30)
      <3>2. KnownAfter(f[i - 1], q[i]) \cup {id} = KnownAfter(f[i - 1] \cup {id}, q[i])
        BY DEF KnownAfter
      <3> QED
        BY <2>1, <3>1, <3>2
    <2> HIDE DEF h
    <2> QED
      BY <2>3, <2>4 DEF Teaches
  \* The web process takes a step of its own.
  <1>IDsGoesOn.
    ASSUME NEW p \in Pages, NEW w \in Webs, NEW tw \in Seq(WebMessages),
           NEW tu \in Seq(UIMessages), IDs(p, w, TRUE, tw, tu), w.created,
           NEW x, GoesOn(w, x), NEW y \in Webs, y.created = x.created,
           y.known = x.known, y.uniqueHistoryItemID = x.uniqueHistoryItemID
    PROVE  IDs(p, y, TRUE, tw, tu \o x.out)
    <2> USE <1>IDsGoesOn
    <2>1. PICK r : r = x.out
      OBVIOUS
    <2>2. PICK t : t = tu \o r
      OBVIOUS
    <2>3. r \in Seq(UIMessages) /\ y.created
      BY <2>1 DEF GoesOn, Webs
    <2>4. /\ t \in Seq(UIMessages) /\ Len(t) = Len(tu) + Len(r)
          /\ Len(tu) \in Nat /\ Len(r) \in Nat
          /\ \A i \in 1 .. Len(tu) : t[i] = tu[i]
          /\ \A i \in 1 .. Len(r) : t[Len(tu) + i] = r[i]
      BY <2>2, <2>3, ConcatFacts, SMTT(30)
    <2>5. \A i \in 1 .. Len(t) : ~(i <= Len(tu)) =>
            i - Len(tu) \in 1 .. Len(r) /\ t[i] = r[i - Len(tu)]
      <3>1. ASSUME NEW i \in 1 .. Len(t), ~(i <= Len(tu))
            PROVE  i - Len(tu) \in 1 .. Len(r) /\ t[i] = r[i - Len(tu)]
        <4>1. i - Len(tu) \in 1 .. Len(r) /\ Len(tu) + (i - Len(tu)) = i
          BY <2>4, <3>1, SMTT(30)
        <4> QED
          BY <2>4, <4>1
      <3> QED
        BY <3>1
    <2>6. PICK k \in SUBSET Nat :
             /\ Teaches(tw, w.known, k) /\ Range(p.entries) \subseteq k
             /\ \A i \in 1 .. Len(tu) : tu[i].type = "BackForwardAddItem" => tu[i].id \in k
      BY DEF IDs, Known
    <2>7. CASE /\ ~Sent(x.out, Additions)
               /\ x.known = w.known /\ x.uniqueHistoryItemID = w.uniqueHistoryItemID
      <3>1. ASSUME NEW i \in 1 .. Len(t), t[i].type \in Additions
            PROVE  i \in 1 .. Len(tu) /\ t[i] = tu[i]
        <4>1. DOMAIN r = 1 .. Len(r)
          BY <2>3, SeqFacts
        <4>2. \A j \in 1 .. Len(r) : r[j].type \notin Additions
          BY <2>1, <2>7, <4>1 DEF Sent
        <4>3. i <= Len(tu)
          BY <2>5, <3>1, <4>2
        <4>4. i \in 1 .. Len(tu)
          BY <2>4, <4>3, SMTT(30)
        <4> QED
          BY <2>4, <4>4
      <3>2. Counted(p, y, TRUE, tw, t)
        BY <2>3, <2>7 DEF IDs, Counted
      <3>3. InWeb(p, y, tw)
        BY <2>3 DEF IDs, InWeb, GoesOn
      <3>4. InUI(p, y, TRUE, tw, t)
        <4>1. ASSUME NEW i \in 1 .. Len(t), t[i].type \in Additions
              PROVE  \A j \in 1 .. i - 1 : t[j] = tu[j]
          BY <2>4, <3>1, <4>1, SMTT(30)
        <4>2. ASSUME NEW i \in 1 .. Len(t), t[i].type \in Additions, i # 1
              PROVE  t[i - 1] = tu[i - 1]
          <5>1. i - 1 \in 1 .. i - 1
            BY <2>4, <4>2, SMTT(30)
          <5> QED
            BY <4>1, <4>2, <5>1
        <4>3. "BackForwardAddItem" \in Additions
          BY DEF Additions
        <4>4. ASSUME NEW i \in 1 .. Len(t), t[i].type \in Additions
              PROVE  Odd(t[i].id) /\ 1 < t[i].id /\ t[i].id <= y.uniqueHistoryItemID
          BY <2>7, <3>1, <4>4 DEF IDs, InUI
        <4>5. ASSUME NEW i \in 1 .. Len(t), t[i].type = "BackForwardAddItem"
              PROVE  /\ \A n \in Range(p.entries) : Odd(n) => n < t[i].id
                     /\ \A j \in 1 .. i - 1 : t[j].type = "BackForwardAddItem" => t[j].id < t[i].id
                     /\ \A j \in 1 .. Len(tw) :
                          tw[j].type = "DidRemoveBackForwardItem" /\ Odd(tw[j].id) => tw[j].id < t[i].id
                     /\ i = 1 => t[i].id \in p.items
                     /\ i # 1 => t[i - 1].type = "AddBackForwardItem" /\ t[i - 1].id = t[i].id
          <5>1. /\ i \in 1 .. Len(tu) /\ t[i] = tu[i]
                /\ \A j \in 1 .. i - 1 : t[j] = tu[j]
                /\ i # 1 => t[i - 1] = tu[i - 1]
            BY <3>1, <4>1, <4>2, <4>3, <4>5
          <5>2. /\ \A n \in Range(p.entries) : Odd(n) => n < tu[i].id
                /\ \A j \in 1 .. i - 1 : tu[j].type = "BackForwardAddItem" => tu[j].id < tu[i].id
                /\ \A j \in 1 .. Len(tw) :
                     tw[j].type = "DidRemoveBackForwardItem" /\ Odd(tw[j].id) => tw[j].id < tu[i].id
                /\ i = 1 => tu[i].id \in p.items
                /\ i # 1 => tu[i - 1].type = "AddBackForwardItem" /\ tu[i - 1].id = tu[i].id
            BY <4>5, <5>1 DEF IDs, InUI
          <5> QED
            BY <5>1, <5>2
        <4> QED
          BY <4>4, <4>5 DEF InUI
      <3>5. Known(p, y, TRUE, tw, t)
        <4>1. \A i \in 1 .. Len(t) : t[i].type = "BackForwardAddItem" => t[i].id \in k
          BY <2>6, <3>1 DEF Additions
        <4> QED
          BY <2>6, <2>7, <4>1 DEF Known
      <3> QED
        BY <2>1, <2>2, <3>2, <3>3, <3>4, <3>5 DEF IDs
    <2>8. CASE /\ Adds(x.out, w.uniqueHistoryItemID + 2)
               /\ x.known = w.known \cup {w.uniqueHistoryItemID + 2}
               /\ x.uniqueHistoryItemID = w.uniqueHistoryItemID + 2
      <3>1. PICK id : id = w.uniqueHistoryItemID + 2
        OBVIOUS
      <3>2. /\ w.uniqueHistoryItemID \in Nat /\ id \in Nat /\ Odd(id) /\ 1 < id
            /\ w.uniqueHistoryItemID < id
        <4>1. w.uniqueHistoryItemID \in Nat /\ Odd(w.uniqueHistoryItemID)
          BY DEF IDs, Counted, Webs
        <4>2. Odd(id)
          BY <3>1, <4>1, ParityFacts
        <4> QED
          BY <3>1, <4>1, <4>2, SMTT(30)
      <3>3. /\ Len(r) >= 2 /\ r[1].type = "AddBackForwardItem" /\ r[1].id = id
            /\ r[2].type = "BackForwardAddItem" /\ r[2].id = id
            /\ \A i \in 3 .. Len(r) : r[i].type \notin Additions
        BY <2>1, <2>8, <3>1 DEF Adds
      <3>4. /\ \A n \in p.items : n \in Nat /\ (Odd(n) => n < id)
            /\ Range(p.entries) \subseteq p.items
            /\ \A n \in w.known : n \in Nat /\ (Odd(n) => n < id)
        <4>1. p.items \subseteq Nat /\ w.known \subseteq Nat
          BY DEF Pages, Webs
        <4>2. /\ Range(p.entries) \subseteq p.items
              /\ \A n \in p.items \cup w.known : Odd(n) => n <= w.uniqueHistoryItemID
          BY DEF IDs, Counted
        <4> QED
          BY <3>2, <4>1, <4>2, SMTT(30)
      <3>5. \A j \in 1 .. Len(tw) : tw[j].type = "DidRemoveBackForwardItem" => tw[j].id \in p.items
        BY DEF IDs, InWeb
      <3>6. Counted(p, y, TRUE, tw, t)
        <4>1. \A n \in p.items \cup y.known : Odd(n) => n <= id
          BY <2>8, <3>1, <3>2, <3>4, SMTT(30)
        <4> QED
          BY <2>3, <2>8, <3>1, <3>2, <4>1 DEF IDs, Counted
      <3>7. InWeb(p, y, tw)
        BY <2>3 DEF IDs, InWeb, GoesOn
      <3>8. \A i \in 1 .. Len(tu) : tu[i].type \in Additions => tu[i].id \in Nat /\ tu[i].id < id
        <4>1. \A i \in 1 .. Len(tu) : tu[i] \in UIMessages
          BY SeqFacts
        <4> QED
          BY <3>2, <4>1, SMTT(30) DEF IDs, InUI, UIMessages
      <3>9. \A i \in 1 .. Len(t) : ~(i <= Len(tu)) /\ t[i].type \in Additions =>
              \/ i = Len(tu) + 1 /\ t[i].type = "AddBackForwardItem" /\ t[i].id = id
              \/ i = Len(tu) + 2 /\ t[i].type = "BackForwardAddItem" /\ t[i].id = id
        <4>1. ASSUME NEW i \in 1 .. Len(t), ~(i <= Len(tu)), t[i].type \in Additions
              PROVE  \/ i = Len(tu) + 1 /\ t[i].type = "AddBackForwardItem" /\ t[i].id = id
                     \/ i = Len(tu) + 2 /\ t[i].type = "BackForwardAddItem" /\ t[i].id = id
          <5>1. i - Len(tu) \in 1 .. Len(r) /\ t[i] = r[i - Len(tu)]
            BY <2>5, <4>1
          <5>2. i - Len(tu) \notin 3 .. Len(r)
            BY <3>3, <4>1, <5>1
          <5>3. i - Len(tu) = 1 \/ i - Len(tu) = 2
            BY <2>4, <5>1, <5>2, SMTT(30)
          <5> QED
            BY <2>4, <3>3, <5>1, <5>3, SMTT(30)
        <4> QED
          BY <4>1
      <3>10. InUI(p, y, TRUE, tw, t)
        <4>1. "BackForwardAddItem" \in Additions /\ "AddBackForwardItem" \in Additions
          BY DEF Additions
        <4>2. ASSUME NEW i \in 1 .. Len(t), t[i].type \in Additions
              PROVE  Odd(t[i].id) /\ 1 < t[i].id /\ t[i].id <= id
          <5>1. CASE i <= Len(tu)
            <6>1. i \in 1 .. Len(tu) /\ t[i] = tu[i]
              BY <2>4, <5>1, SMTT(30)
            <6> QED
              BY <3>2, <3>8, <4>2, <6>1, SMTT(30) DEF IDs, InUI
          <5>2. CASE ~(i <= Len(tu))
            BY <3>2, <3>9, <4>2, <5>2, SMTT(30)
          <5> QED
            BY <5>1, <5>2
        <4>3. ASSUME NEW i \in 1 .. Len(t), t[i].type = "BackForwardAddItem"
              PROVE  /\ \A n \in Range(p.entries) : Odd(n) => n < t[i].id
                     /\ \A j \in 1 .. i - 1 : t[j].type = "BackForwardAddItem" => t[j].id < t[i].id
                     /\ \A j \in 1 .. Len(tw) :
                          tw[j].type = "DidRemoveBackForwardItem" /\ Odd(tw[j].id) => tw[j].id < t[i].id
                     /\ i = 1 => t[i].id \in p.items
                     /\ i # 1 => t[i - 1].type = "AddBackForwardItem" /\ t[i - 1].id = t[i].id
          <5>1. CASE i <= Len(tu)
            <6>1. /\ i \in 1 .. Len(tu) /\ t[i] = tu[i]
                  /\ \A j \in 1 .. i - 1 : t[j] = tu[j]
                  /\ i # 1 => t[i - 1] = tu[i - 1]
              BY <2>4, <5>1, SMTT(30)
            <6> QED
              BY <4>3, <6>1 DEF IDs, InUI
          <5>2. CASE ~(i <= Len(tu))
            <6>1. i = Len(tu) + 2 /\ t[i].id = id
              BY <3>9, <4>1, <4>3, <5>2
            <6>2. i # 1 /\ i - 1 = Len(tu) + 1 /\ i - 1 \in 1 .. Len(t) /\ 1 \in 1 .. Len(r)
              BY <2>4, <3>3, <6>1, SMTT(30)
            <6>3. t[i - 1].type = "AddBackForwardItem" /\ t[i - 1].id = id
              BY <2>4, <3>3, <6>2
            <6>4. ASSUME NEW j \in 1 .. i - 1, t[j].type = "BackForwardAddItem"
                  PROVE  t[j].id < id
              <7>1. j # Len(tu) + 1
                BY <6>2, <6>3, <6>4
              <7>2. j \in 1 .. Len(tu)
                BY <2>4, <6>1, <7>1, SMTT(30)
              <7> QED
                BY <2>4, <3>8, <4>1, <6>4, <7>2
            <6> QED
              BY <3>4, <3>5, <6>1, <6>2, <6>3, <6>4
          <5> QED
            BY <5>1, <5>2
        <4>4. y.uniqueHistoryItemID = id
          BY <2>8, <3>1
        <4> QED
          BY <4>2, <4>3, <4>4 DEF InUI
      <3>11. Known(p, y, TRUE, tw, t)
        <4>1. \A i \in 1 .. Len(tw) : tw[i].type = "DidRemoveBackForwardItem" => tw[i].id # id
          BY <3>2, <3>4, <3>5, SMTT(30)
        <4>2. Teaches(tw, w.known \cup {id}, k \cup {id})
          BY <2>6, <3>2, <4>1, <1>TeachesMore
        <4>3. \A i \in 1 .. Len(t) : t[i].type = "BackForwardAddItem" => t[i].id \in k \cup {id}
          <5>1. ASSUME NEW i \in 1 .. Len(t), t[i].type = "BackForwardAddItem"
                PROVE  t[i].id \in k \cup {id}
            <6>1. CASE i <= Len(tu)
              <7>1. i \in 1 .. Len(tu) /\ t[i] = tu[i]
                BY <2>4, <6>1, SMTT(30)
              <7> QED
                BY <2>6, <5>1, <7>1
            <6>2. CASE ~(i <= Len(tu))
              BY <3>9, <5>1, <6>2 DEF Additions
            <6> QED
              BY <6>1, <6>2
          <5> QED
            BY <5>1
        <4>4. k \cup {id} \in SUBSET Nat /\ y.known = w.known \cup {id}
          BY <2>8, <3>1, <3>2
        <4> QED
          BY <2>6, <4>2, <4>3, <4>4, SMTT(30) DEF Known
      <3> QED
        BY <2>1, <2>2, <3>6, <3>7, <3>10, <3>11 DEF IDs
    <2> QED
      BY <2>7, <2>8 DEF GoesOn
  <1>WaitsConcat.
    ASSUME NEW q \in Seq(UIMessages), NEW r \in Seq(UIMessages), NEW old, NEW wait,
           Waits(q, old), old \notin {"goTo", "policy"}, Waits(r, wait)
    PROVE  Waits(q \o r, wait)
    <2> USE <1>WaitsConcat
    <2>1. PICK t : t = q \o r
      OBVIOUS
    <2>2. /\ t \in Seq(UIMessages) /\ Len(t) = Len(q) + Len(r)
          /\ Len(q) \in Nat /\ Len(r) \in Nat
          /\ \A i \in 1 .. Len(q) : t[i] = q[i]
          /\ \A i \in 1 .. Len(r) : t[Len(q) + i] = r[i]
      BY <2>1, ConcatFacts, SMTT(30)
    <2>3. \A i \in 1 .. Len(q) : q[i].type \notin Questions
      BY DEF Waits
    <2>4. ASSUME NEW i \in 1 .. Len(t), t[i].type \in Questions
          PROVE  /\ i = Len(t)
                 /\ wait = IF t[i].type = "BackForwardGoToItem" THEN "goTo" ELSE "policy"
      <3>1. ~(i <= Len(q))
        BY <2>2, <2>3, <2>4, SMTT(30)
      <3>2. i - Len(q) \in 1 .. Len(r) /\ Len(q) + (i - Len(q)) = i
        BY <2>2, <3>1, SMTT(30)
      <3>3. t[i] = r[i - Len(q)]
        BY <2>2, <3>2
      <3>4. /\ i - Len(q) = Len(r)
            /\ wait = IF t[i].type = "BackForwardGoToItem" THEN "goTo" ELSE "policy"
        BY <2>4, <3>2, <3>3 DEF Waits
      <3> QED
        BY <2>2, <3>2, <3>4
    <2> QED
      BY <2>1, <2>4 DEF Waits
  <1>GoesOnKeeps.
    ASSUME NEW p, NEW w, NEW tw, NEW tu, NEW q, NEW u,
           Typed(p, w, TRUE, tw, tu), Synced(p, w, TRUE, tw, tu), Loads(p, w, TRUE, tu),
           w.wait \notin {"goTo", "policy"}, NEW x, GoesOn(w, x),
           u \in Seq(WebMessages), q \in Pages, q.out = << >>, q.fresh = FALSE,
           q.valid = p.valid, q.state = p.state,
           NEW y, y = [x EXCEPT !.out = << >>]
    PROVE  /\ Typed(q, y, TRUE, u, tu \o x.out) /\ Synced(q, y, TRUE, u, tu \o x.out)
           /\ Loads(q, y, TRUE, tu \o x.out)
    <2> USE <1>GoesOnKeeps
    <2>1. x \in Webs /\ x.out \in Seq(UIMessages)
      BY DEF GoesOn, Webs
    <2>2. tu \in Seq(UIMessages) /\ w \in Webs
      BY DEF Typed
    <2>3. /\ y \in Webs /\ y.out = << >> /\ y.wait = x.wait /\ y.next = x.next
          /\ y.loader = x.loader /\ y.load = x.load
      <3>1. << >> \in Seq(UIMessages)
        BY SMTT(30)
      <3> QED
        BY <2>1, <3>1 DEF Webs
    <2>4. tu \o x.out \in Seq(UIMessages)
      BY <2>1, <2>2, ConcatFacts
    <2>5. Typed(q, y, TRUE, u, tu \o x.out)
      BY <2>3, <2>4 DEF Typed
    <2>6. Waits(tu \o x.out, y.wait)
      BY <2>1, <2>2, <2>3, <1>WaitsConcat DEF Synced, GoesOn
    <2>7. p.valid /\ p.valid \in BOOLEAN
      BY DEF Synced, Typed, Pages
    <2>8. Synced(q, y, TRUE, u, tu \o x.out)
      BY <2>3, <2>6, <2>7 DEF Synced, Ready, GoesOn
    <2>9. Told(tu, p.state, w.loader) /\ Told(x.out, w.loader, x.loader)
      BY DEF Loads, GoesOn
    <2>10. Told(tu \o x.out, q.state, y.loader) /\ y.loader \in States
      BY <2>1, <2>2, <2>3, <2>9, ToldConcat DEF Webs
    <2>11. Loads(q, y, TRUE, tu \o x.out)
      BY <2>10 DEF Loads
    <2> QED
      BY <2>5, <2>8, <2>11
  <1>GoesOnEvidence.
    ASSUME NEW p \in Pages, NEW w \in Webs, NEW tw, NEW tu \in Seq(UIMessages), NEW u,
           Evidence(p, w, TRUE, tw, tu), NEW x, GoesOn(w, x), NEW q \in Pages,
           q.timer = p.timer, q.responsive = p.responsive, q.pending = p.pending,
           NEW y, y = [x EXCEPT !.out = << >>],
           Sent(tw, Requests) => Sent(u, Requests) \/ x.handling \/ Sent(x.out, Done),
           \/ q.pending # 0 => q.dropped
           \/ /\ q.dropped = p.dropped
              /\ \/ Sent(tw, Requests \ {"StopLoading"})
                 \/ w.wait \in Backed /\ w.next # Web!Nothing
                 =>
                   \/ Sent(u, Requests \ {"StopLoading"})
                   \/ x.wait \in Backed /\ x.next # Web!Nothing
                   \/ Sent(x.out, Answers)
    PROVE  Evidence(q, y, TRUE, u, tu \o x.out)
    <2> USE <1>GoesOnEvidence
    <2>1. x \in Webs /\ x.out \in Seq(UIMessages)
      BY DEF GoesOn, Webs
    <2>2. /\ y.handling = x.handling /\ y.wait = x.wait /\ y.next = x.next
      BY <2>1 DEF Webs
    <2>3. /\ Sent(tu \o x.out, Done) <=> Sent(tu, Done) \/ Sent(x.out, Done)
          /\ Sent(tu \o x.out, Answers) <=> Sent(tu, Answers) \/ Sent(x.out, Answers)
      BY <2>1, SentConcat
    <2>4. w.handling => x.handling \/ Sent(x.out, Done)
      BY DEF GoesOn
    <2>5. p.timer \/ ~p.responsive => Sent(tw, Requests) \/ w.handling \/ Sent(tu, Done)
      BY DEF Evidence
    <2>6. q.timer \/ ~q.responsive => Sent(u, Requests) \/ y.handling \/ Sent(tu \o x.out, Done)
      BY <2>2, <2>3, <2>4, <2>5
    <2>7. q.pending # 0 =>
            \/ q.dropped
            \/ Sent(u, Requests \ {"StopLoading"})
            \/ y.wait \in Backed /\ y.next # Web!Nothing
            \/ Sent(tu \o x.out, Answers)
      <3>1. p.pending # 0 =>
              \/ p.dropped
              \/ Sent(tw, Requests \ {"StopLoading"})
              \/ w.wait \in Backed /\ w.next # Web!Nothing
              \/ Sent(tu, Answers)
        BY DEF Evidence
      <3>2. CASE q.pending # 0 => q.dropped
        BY <3>2
      <3>3. CASE ~(q.pending # 0 => q.dropped)
        BY <2>2, <2>3, <3>1, <3>3 DEF Pages
      <3> QED
        BY <3>2, <3>3
    <2> QED
      BY <2>6, <2>7 DEF Evidence
  \* The request that a step leaves without an answer is marked as dropped.
  <1>DropFacts.
    ASSUME NEW p \in Pages, NEW q, q = [p EXCEPT !.dropped = p.pending # 0]
    PROVE  /\ q \in Pages /\ q.out = p.out /\ q.fresh = p.fresh /\ q.valid = p.valid
           /\ q.state = p.state /\ q.timer = p.timer /\ q.responsive = p.responsive
           /\ q.pending = p.pending /\ (q.pending # 0 => q.dropped)
           /\ SameIDs(p, q) /\ SameButtons(p, q)
    <2> USE <1>DropFacts
    <2>1. PICK d \in BOOLEAN : d = (p.pending # 0)
      OBVIOUS
    <2>2. q = [p EXCEPT !.dropped = d]
      BY <2>1
    <2>3. q \in Pages
      BY <2>2 DEF Pages
    <2>4. /\ q.out = p.out /\ q.fresh = p.fresh /\ q.valid = p.valid
          /\ q.state = p.state /\ q.timer = p.timer /\ q.responsive = p.responsive
          /\ q.pending = p.pending /\ q.dropped = d
      BY <2>2 DEF Pages
    <2>5. SameIDs(p, q) /\ SameButtons(p, q)
      BY <2>2 DEF Pages, SameIDs, SameButtons
    <2> QED
      BY <2>1, <2>3, <2>4, <2>5
  <1>Step.
    ASSUME NEW p, NEW w, NEW tw, NEW tu, NEW q, NEW u, NEW x, NEW y, NEW v,
           Good(p, w, TRUE, tw, tu), u \in Seq(WebMessages), IDs(p, w, TRUE, u, tu),
           Proceeds(w, x), Accounts(p, q, w, x, tw, u), Delivers(x, y, tu, v)
    PROVE  Good(q, y, TRUE, u, v) /\ SameButtons(p, q)
    <2> USE <1>Step
    <2>0. /\ w.created /\ w.wait \notin {"goTo", "policy"} /\ GoesOn(w, x)
          /\ y = [x EXCEPT !.out = << >>] /\ v = tu \o x.out
      BY DEF Proceeds, Delivers
    <2>1. /\ p \in Pages /\ p.out = << >> /\ p.fresh = FALSE /\ w \in Webs
          /\ tw \in Seq(WebMessages) /\ tu \in Seq(UIMessages) /\ Buttons(p)
          /\ Typed(p, w, TRUE, tw, tu) /\ Synced(p, w, TRUE, tw, tu) /\ Loads(p, w, TRUE, tu)
          /\ Evidence(p, w, TRUE, tw, tu)
      BY DEF Good, Typed
    <2>2. /\ q \in Pages /\ q.out = << >> /\ q.fresh = FALSE /\ q.valid = p.valid
          /\ q.state = p.state /\ q.timer = p.timer /\ q.responsive = p.responsive
          /\ q.pending = p.pending /\ SameIDs(p, q) /\ SameButtons(p, q)
      <3>1. CASE q = p
        BY <2>1, <3>1 DEF SameIDs, SameButtons
      <3>2. CASE q = [p EXCEPT !.dropped = p.pending # 0]
        BY <2>1, <3>2, <1>DropFacts
      <3> QED
        BY <3>1, <3>2 DEF Accounts
    <2>3. /\ Typed(q, y, TRUE, u, v) /\ Synced(q, y, TRUE, u, v) /\ Loads(q, y, TRUE, v)
      BY <2>0, <2>1, <2>2, <1>GoesOnKeeps
    <2>4. Evidence(q, y, TRUE, u, v)
      <3>1. Sent(tw, Requests) => Sent(u, Requests) \/ x.handling \/ Sent(x.out, Done)
        BY DEF Accounts
      <3>2. \/ q.pending # 0 => q.dropped
            \/ /\ q.dropped = p.dropped
               /\ \/ Sent(tw, Requests \ {"StopLoading"})
                  \/ w.wait \in Backed /\ w.next # Web!Nothing
                  =>
                    \/ Sent(u, Requests \ {"StopLoading"})
                    \/ x.wait \in Backed /\ x.next # Web!Nothing
                    \/ Sent(x.out, Answers)
        <4>1. CASE q = [p EXCEPT !.dropped = p.pending # 0]
          BY <2>1, <4>1, <1>DropFacts
        <4>2. CASE ~(q = [p EXCEPT !.dropped = p.pending # 0])
          BY <4>2 DEF Accounts, Backs
        <4> QED
          BY <4>1, <4>2
      <3> QED
        BY <2>0, <2>1, <2>2, <3>1, <3>2, <1>GoesOnEvidence
    <2>5. IDs(q, y, TRUE, u, v)
      <3>1. x \in Webs
        BY <2>0 DEF GoesOn
      <3>2. y \in Webs
        BY <2>3 DEF Typed
      <3>3. y.created = x.created /\ y.known = x.known
            /\ y.uniqueHistoryItemID = x.uniqueHistoryItemID
        BY <2>0, <3>1 DEF Webs
      <3>4. IDs(p, y, TRUE, u, v)
        BY <2>0, <2>1, <3>2, <3>3, <1>IDsGoesOn
      <3> QED
        BY <2>2, <3>4, IDsSame
    <2>6. Buttons(q)
      BY <2>1, <2>2 DEF Buttons, SameButtons
    <2> QED
      BY <2>2, <2>3, <2>4, <2>5, <2>6 DEF Good
  <1> QED
    <2> SUFFICES
          ASSUME NEW p, NEW w, NEW tw, NEW tu, NEW q, NEW u, NEW x, NEW y, NEW v,
                 /\ Good(p, w, TRUE, tw, tu) /\ u \in Seq(WebMessages) /\ IDs(p, w, TRUE, u, tu)
                 /\ Proceeds(w, x) /\ Accounts(p, q, w, x, tw, u) /\ Delivers(x, y, tu, v)
          PROVE  Good(q, y, TRUE, u, v) /\ SameButtons(p, q)
      OBVIOUS
    <2> QED
      BY <1>Step

-----------------------------------------------------------------------------
(* The operations of the web process.                                      *)

\* From where it may be, with nothing to send, the page's side in the web
\* process goes on in each of its operations.
LEMMA OperationsGoOn ==
  \A w \in Webs : \A x : Ready(w) /\ w.out = << >> =>
    /\ \A m \in WebMessages :
         w.wait = "no" /\ m.type \in Requests /\ x = Web!HandleRequest(w, m) =>
           /\ GoesOn(w, x)
           /\ x.handling \/ Sent(x.out, Done)
           /\ m.type # "StopLoading" /\ ~Web!Ignores(w, m) =>
                x.wait \in Backed /\ x.next # Web!Nothing
    /\ x = Web!FollowLink(w) => GoesOn(w, x)
    /\ x = Web!WentToItem(w) =>
         /\ GoesOn(w, x)
         /\ w.next # Web!Nothing => x.wait \in Backed /\ x.next # Web!Nothing
    /\ x = Web!NavigateWithinDocument(w) => GoesOn(w, x) /\ Sent(x.out, Answers)
    /\ x = Web!GiveUp(w) => GoesOn(w, x)
    /\ w.wait = "use" /\ x = Web!StartProvisionalLoad(w) =>
         GoesOn(w, x) /\ Sent(x.out, Answers)
    /\ x = Web!PushState(w) => GoesOn(w, x)
    /\ w.loader = "Provisional" /\ x = Web!CommitLoad(w) => GoesOn(w, x)
    /\ x = Web!FailProvisionalLoad(w) => GoesOn(w, x)
    /\ \A how \in {"DidFinishLoad", "DidFailLoad"} :
         w.loader = "Committed" /\ x = Web!FinishLoad(w, how) => GoesOn(w, x)
    /\ x = Web!Report(w, "BackForwardClear", 0) => GoesOn(w, x)
  <1>LeadsAppend.
    ASSUME NEW q \in Seq(UIMessages), NEW a, NEW b \in States, Leads(q, a, b),
           NEW m \in UIMessages, InOrder(b, m.type)
    PROVE  Leads(Append(q, m), a, StateAfter(b, m.type))
    <2> USE <1>LeadsAppend
    <2> DEFINE c == StateAfter(b, m.type)
    <2>1. c \in States
      BY DEF StateAfter, States
    <2>2. PICK r : r = <<m>>
      OBVIOUS
    <2>3. r \in Seq(UIMessages) /\ Len(r) = 1 /\ r[1] = m
      BY <2>2, SMTT(30)
    <2>4. Append(q, m) = q \o r
      BY <2>2, SMTT(30)
    <2> HIDE DEF c
    <2>5. Leads(r, b, c)
      <3> DEFINE f == [i \in 0 .. 1 |-> IF i = 0 THEN b ELSE c]
      <3>1. f \in [0 .. Len(r) -> States] /\ f[0] = b /\ f[Len(r)] = c
        BY <2>1, <2>3, SMTT(30)
      <3>2. ASSUME NEW i \in 1 .. Len(r)
            PROVE  InOrder(f[i - 1], r[i].type) /\ f[i] = StateAfter(f[i - 1], r[i].type)
        <4>1. i = 1 /\ f[i - 1] = b /\ f[i] = c /\ r[i] = m
          BY <2>3, SMTT(30)
        <4> QED
          BY <4>1 DEF c
      <3> HIDE DEF f
      <3> QED
        BY <3>1, <3>2 DEF Leads
    <2> QED
      BY <2>3, <2>4, <2>5, LeadsConcat DEF c
  <1>SentNothing.
    ASSUME NEW T PROVE ~Sent(<< >>, T)
    BY SMTT(30) DEF Sent
  <1>ToldAppend.
    ASSUME NEW q \in Seq(UIMessages), NEW a, NEW b \in States, Told(q, a, b),
           NEW m \in UIMessages, InOrder(b, m.type)
    PROVE  Told(Append(q, m), a, StateAfter(b, m.type))
    <2> USE <1>ToldAppend
    <2> DEFINE c == StateAfter(b, m.type)
    <2>1. c \in States
      BY DEF StateAfter, States
    <2>2. PICK r : r = <<m>>
      OBVIOUS
    <2>3. /\ r \in Seq(UIMessages) /\ Append(q, m) = q \o r
          /\ r = Append(<< >>, m) /\ Len(r) = 1 /\ r[1] = m
      BY <2>2, SMTT(30)
    <2>4. Leads(r, b, c)
      <3>1. Leads(<< >>, b, b) /\ << >> \in Seq(UIMessages)
        BY LeadsNowhere, SMTT(30)
      <3> QED
        BY <2>3, <3>1, <1>LeadsAppend
    <2>5. Sent(r, Stops) <=> m.type \in Stops
      BY <2>2, SentOne
    <2>6. c = "Finished" /\ b # "Finished" => m.type \in Stops
      BY DEF StateAfter
    <2>7. m.type \in Starts => c # "Finished"
      BY DEF StateAfter, Starts, Stops
    <2> HIDE DEF c
    <2>8. Told(r, b, c)
      BY <2>3, <2>4, <2>5, <2>6, <2>7, SMTT(30) DEF Told
    <2> QED
      BY <2>3, <2>8, ToldConcat DEF c
  <1>ReportFacts.
    ASSUME NEW w \in Webs, NEW type \in UITypes, NEW id \in Nat,
           NEW x, x = Web!Report(w, type, id)
    PROVE  /\ x \in Webs /\ SameWeb(w, x)
           /\ Sent(x.out, Questions) <=> Sent(w.out, Questions) \/ type \in Questions
           /\ Sent(x.out, Additions) <=> Sent(w.out, Additions) \/ type \in Additions
           /\ Sent(x.out, Answers) <=> Sent(w.out, Answers) \/ type \in Answers
           /\ Sent(x.out, Done) <=> Sent(w.out, Done) \/ type \in Done
    <2> USE <1>ReportFacts
    <2> DEFINE m == [type |-> type, id |-> id]
    <2>1. m \in UIMessages /\ m.type = type
      BY DEF UIMessages
    <2>2. w.out \in Seq(UIMessages)
      BY DEF Webs
    <2>3. SameWeb(w, x) /\ x.out = Append(w.out, m)
      BY DEF Webs, SameWeb, Web!Report
    <2> HIDE DEF m
    <2>4. x.out \in Seq(UIMessages)
      BY <2>1, <2>2, <2>3, SMTT(30)
    <2>5. x \in Webs
      BY <2>4 DEF Web!Report, Webs
    <2>6. \A T : Sent(Append(w.out, m), T) <=> Sent(w.out, T) \/ m.type \in T
      BY <2>1, <2>2, SentAppend
    <2> QED
      BY <2>1, <2>3, <2>5, <2>6 DEF m
  <1>ReportOut.
    ASSUME NEW w \in Webs, NEW type \in UITypes, NEW id \in Nat,
           NEW x, x = Web!Report(w, type, id)
    PROVE  /\ Len(x.out) = Len(w.out) + 1 /\ Len(w.out) \in Nat
           /\ \A i \in 1 .. Len(w.out) : x.out[i] = w.out[i]
           /\ x.out[Len(w.out) + 1].type = type /\ x.out[Len(w.out) + 1].id = id
    <2> USE <1>ReportOut
    <2> DEFINE m == [type |-> type, id |-> id]
    <2>1. m \in UIMessages /\ m.type = type /\ m.id = id
      BY DEF UIMessages
    <2>2. w.out \in Seq(UIMessages) /\ x.out = Append(w.out, m)
      BY DEF Webs, Web!Report
    <2> HIDE DEF m
    <2>3. /\ Len(x.out) = Len(w.out) + 1 /\ Len(w.out) \in Nat
          /\ \A i \in 1 .. Len(w.out) : x.out[i] = w.out[i]
          /\ x.out[Len(w.out) + 1] = m
      BY <2>1, <2>2, AppendFacts, SMTT(30)
    <2> QED
      BY <2>1, <2>3
  <1>ReportTold.
    ASSUME NEW w \in Webs, NEW type \in UITypes, NEW id \in Nat,
           NEW a, NEW b \in States, Told(w.out, a, b), InOrder(b, type),
           NEW x, x = Web!Report(w, type, id)
    PROVE  Told(x.out, a, StateAfter(b, type))
    <2> USE <1>ReportTold
    <2> DEFINE m == [type |-> type, id |-> id]
    <2>1. m \in UIMessages /\ m.type = type
      BY DEF UIMessages
    <2>2. w.out \in Seq(UIMessages)
      BY DEF Webs
    <2>3. x.out = Append(w.out, m)
      BY DEF Webs, Web!Report
    <2> HIDE DEF m
    <2> QED
      BY <2>1, <2>2, <2>3, <1>ToldAppend
  \* Messages that say nothing of a load.
  <1>ReportQuiet.
    ASSUME NEW w \in Webs, NEW type \in UITypes \ (Starts \cup Stops), NEW id \in Nat,
           NEW a, NEW b \in States, Told(w.out, a, b),
           NEW x, x = Web!Report(w, type, id)
    PROVE  Told(x.out, a, b)
    <2> USE <1>ReportQuiet
    <2>1. InOrder(b, type) /\ StateAfter(b, type) = b
      BY DEF InOrder, StateAfter, Starts, Stops
    <2> QED
      BY <2>1, <1>ReportTold
  \* A synchronous message after ones that are not.
  <1>ReportWaits.
    ASSUME NEW w \in Webs, NEW type \in UITypes, NEW id \in Nat,
           ~Sent(w.out, Questions), NEW x, x = Web!Report(w, type, id), NEW wait,
           type \in Questions =>
             wait = IF type = "BackForwardGoToItem" THEN "goTo" ELSE "policy"
    PROVE  Waits(x.out, wait)
    <2> USE <1>ReportWaits
    <2>1. /\ Len(x.out) = Len(w.out) + 1
          /\ \A i \in 1 .. Len(w.out) : x.out[i] = w.out[i]
          /\ x.out[Len(w.out) + 1].type = type
      BY <1>ReportOut, SMTT(30)
    <2>2. Len(w.out) \in Nat /\ DOMAIN w.out = 1 .. Len(w.out)
      BY SeqFacts DEF Webs
    <2>3. ASSUME NEW i \in 1 .. Len(x.out), x.out[i].type \in Questions
          PROVE  i = Len(x.out) /\ x.out[i].type = type
      <3>1. i \notin 1 .. Len(w.out)
        BY <2>1, <2>2, <2>3 DEF Sent
      <3>2. i = Len(w.out) + 1
        BY <2>1, <2>2, <3>1, SMTT(30)
      <3> QED
        BY <2>1, <3>2
    <2> QED
      BY <2>3 DEF Waits
  <1>NoneWaits.
    ASSUME NEW q \in Seq(UIMessages), ~Sent(q, Questions), NEW wait
    PROVE  Waits(q, wait)
    <2> USE <1>NoneWaits
    <2>1. DOMAIN q = 1 .. Len(q)
      BY SeqFacts
    <2> QED
      BY <2>1 DEF Waits, Sent
  \* A process that has sent nothing yet.
  <1>SilentFacts.
    ASSUME NEW w \in Webs, w.out = << >>
    PROVE  /\ Told(w.out, w.loader, w.loader)
           /\ ~Sent(w.out, Questions) /\ ~Sent(w.out, Additions)
           /\ ~Sent(w.out, Answers) /\ ~Sent(w.out, Done) /\ Len(w.out) = 0
    <2> USE <1>SilentFacts
    <2>1. w.loader \in States
      BY DEF Webs
    <2> QED
      BY <2>1, ToldNothing, <1>SentNothing
  \* Return, after whatever it was.
  <1>ReturnFacts.
    ASSUME NEW w \in Webs, NEW a, Told(w.out, a, w.loader),
           ~Sent(w.out, Questions), NEW x, x = Web!Return(w)
    PROVE  /\ x \in Webs /\ Continues(w, x)
           /\ x.wait = "no" /\ x.next = Web!Nothing
           /\ Told(x.out, a, x.loader) /\ Waits(x.out, x.wait)
           /\ w.handling => Sent(x.out, Done)
           /\ Sent(x.out, Answers) <=> Sent(w.out, Answers)
           /\ Sent(x.out, Additions) <=> Sent(w.out, Additions)
    <2> USE <1>ReturnFacts
    <2> DEFINE y == [w EXCEPT !.wait = "no", !.next = Web!Nothing, !.handling = FALSE]
    <2>1. /\ y \in Webs /\ y.wait = "no" /\ y.next = Web!Nothing
          /\ Continues(w, y) /\ y.loader = w.loader /\ y.out = w.out
      BY LoadKindsFacts DEF Webs, Continues
    <2>2. x = IF w.handling THEN Web!Report(y, "StopResponsivenessTimer", 0) ELSE y
      BY DEF Web!Return
    <2> HIDE DEF y
    <2>3. CASE ~w.handling
      <3>1. w.out \in Seq(UIMessages)
        BY DEF Webs
      <3> QED
        BY <2>1, <2>2, <2>3, <3>1, <1>NoneWaits
    <2>4. CASE w.handling
      <3>1. x = Web!Report(y, "StopResponsivenessTimer", 0)
        BY <2>2, <2>4
      <3>2. "StopResponsivenessTimer" \in UITypes \ (Starts \cup Stops) /\ w.loader \in States
        BY DEF UITypes, Done, Starts, Stops, Webs
      <3>a. /\ "StopResponsivenessTimer" \in UITypes \cap Done
            /\ "StopResponsivenessTimer" \notin Answers \cup Additions \cup Questions
        BY DEF UITypes, Answers, Additions, Questions, Done
      <3>b. /\ x \in Webs /\ SameWeb(y, x)
            /\ Sent(x.out, Answers) <=> Sent(y.out, Answers) \/ "StopResponsivenessTimer" \in Answers
            /\ Sent(x.out, Additions) <=> Sent(y.out, Additions) \/ "StopResponsivenessTimer" \in Additions
            /\ Sent(x.out, Done) <=> Sent(y.out, Done) \/ "StopResponsivenessTimer" \in Done
        BY <2>1, <3>1, <3>a, <1>ReportFacts
      <3>3. /\ x \in Webs /\ SameWeb(y, x)
            /\ Sent(x.out, Answers) <=> Sent(y.out, Answers)
            /\ Sent(x.out, Additions) <=> Sent(y.out, Additions)
            /\ Sent(x.out, Done)
        BY <3>a, <3>b
      <3>4. Told(x.out, a, w.loader)
        BY <2>1, <3>1, <3>2, <1>ReportQuiet
      <3>5. Waits(x.out, "no")
        BY <2>1, <3>1, <3>2, <1>ReportWaits DEF Questions
      <3> QED
        BY <2>1, <3>3, <3>4, <3>5 DEF SameWeb, Continues
    <2> QED
      BY <2>3, <2>4
  \* AskForPolicy, after messages that nobody waits for.
  <1>AskForPolicyFacts.
    ASSUME NEW w \in Webs, NEW a, Told(w.out, a, w.loader), ~Sent(w.out, Questions),
           NEW load \in LoadKinds, NEW x, x = Web!AskForPolicy(w, load)
    PROVE  /\ x \in Webs /\ Continues(w, x) /\ x.handling = w.handling
           /\ x.wait = "policy" /\ x.next = load
           /\ Told(x.out, a, x.loader) /\ Waits(x.out, x.wait)
           /\ Sent(x.out, Additions) <=> Sent(w.out, Additions)
    <2> USE <1>AskForPolicyFacts
    <2> DEFINE type == "DecidePolicyForNavigationAction"
               y    == Web!Report(w, type, load.url)
    <2>1. /\ load.url \in Nat /\ w.loader \in States
          /\ type \in UITypes /\ type \in UITypes \ (Starts \cup Stops)
          /\ type \notin Additions /\ type # "BackForwardGoToItem"
      BY LoadKindsFacts DEF Webs, UITypes, Questions, Starts, Stops, Additions
    <2>2. x = [y EXCEPT !.wait = "policy", !.next = load]
      BY DEF Web!AskForPolicy
    <2> HIDE DEF type, y
    <2>3. y = Web!Report(w, type, load.url)
      BY DEF y
    <2>4. /\ y \in Webs /\ SameWeb(w, y)
          /\ Sent(y.out, Additions) <=> Sent(w.out, Additions) \/ type \in Additions
      BY <2>1, <2>3, <1>ReportFacts, SMTT(30)
    <2>5. Told(y.out, a, w.loader)
      BY <2>1, <2>3, <1>ReportQuiet
    <2>6. Waits(y.out, "policy")
      BY <2>1, <2>3, <1>ReportWaits
    <2>7. /\ x \in Webs /\ Continues(y, x) /\ x.handling = y.handling
          /\ x.wait = "policy" /\ x.next = load /\ x.out = y.out
      BY <2>2, <2>4 DEF Webs, Continues
    <2> QED
      BY <2>1, <2>4, <2>5, <2>6, <2>7 DEF SameWeb, Continues
  <1>GoToItemFacts.
    ASSUME NEW w \in Webs, NEW a, Told(w.out, a, w.loader), ~Sent(w.out, Questions),
           NEW id \in Nat, NEW next \in LoadKinds, NEW x, x = Web!GoToItem(w, id, next)
    PROVE  /\ x \in Webs /\ Continues(w, x) /\ x.handling = w.handling
           /\ x.wait = "goTo" /\ x.next = next
           /\ Told(x.out, a, x.loader) /\ Waits(x.out, x.wait)
           /\ Sent(x.out, Additions) <=> Sent(w.out, Additions)
    <2> USE <1>GoToItemFacts
    <2> DEFINE type == "BackForwardGoToItem"
               n    == IF id \in w.known THEN id ELSE 0
               y    == Web!Report(w, type, n)
    <2>1. /\ n \in Nat /\ w.loader \in States
          /\ type \in UITypes /\ type \in UITypes \ (Starts \cup Stops)
          /\ type \notin Additions /\ type = "BackForwardGoToItem"
      BY DEF Webs, UITypes, Questions, Starts, Stops, Additions
    <2>2. x = [y EXCEPT !.wait = "goTo", !.next = next, !.strayed = Web!LoadsItem(w)]
      BY DEF Web!GoToItem
    <2> HIDE DEF type, n, y
    <2>3. y = Web!Report(w, type, n)
      BY DEF y
    <2>4. /\ y \in Webs /\ SameWeb(w, y)
          /\ Sent(y.out, Additions) <=> Sent(w.out, Additions) \/ type \in Additions
      BY <2>1, <2>3, <1>ReportFacts
    <2>5. Told(y.out, a, w.loader)
      BY <2>1, <2>3, <1>ReportQuiet
    <2>6. Waits(y.out, "goTo")
      BY <2>1, <2>3, <1>ReportWaits
    <2>7. /\ x \in Webs /\ Continues(y, x) /\ x.handling = y.handling
          /\ x.wait = "goTo" /\ x.next = next /\ x.out = y.out
      <3>1. Web!LoadsItem(w) \in BOOLEAN
        BY DEF Web!LoadsItem
      <3> QED
        BY <2>2, <2>4, <3>1 DEF Webs, Continues
    <2> QED
      BY <2>1, <2>4, <2>5, <2>6, <2>7 DEF SameWeb, Continues
  \* StopAllLoaders says that the load is over, if there is one.
  <1>StopAllLoadersFacts.
    ASSUME NEW w \in Webs, w.out = << >>, NEW x, x = Web!StopAllLoaders(w)
    PROVE  /\ x \in Webs /\ Continues(w, x) /\ x.handling = w.handling
           /\ x.wait = w.wait /\ x.next = w.next /\ x.shown = w.shown
           /\ Told(x.out, w.loader, "Finished")
           /\ ~Sent(x.out, Questions) /\ ~Sent(x.out, Additions)
    <2> USE <1>StopAllLoadersFacts
    <2>1. w.loader \in States /\ w.strayed \in BOOLEAN
      BY DEF Webs
    <2>2. CASE w.loader = "Finished"
      <3>1. x = w
        BY <2>2 DEF Web!StopAllLoaders
      <3> QED
        BY <2>2, <3>1, <1>SilentFacts DEF Continues
    <2>3. CASE w.loader = "Provisional"
      <3> DEFINE type == "DidFailProvisionalLoad"
                 y    == Web!Report(w, type, 0)
      <3>1. /\ type \in UITypes /\ type \notin Questions /\ type \notin Additions
            /\ InOrder(w.loader, type) /\ StateAfter(w.loader, type) = "Finished"
        BY <2>3 DEF UITypes, Stops, Questions, Additions, InOrder, StateAfter
      <3>2. x = [y EXCEPT !.strayed = y.strayed \/ Web!LoadsItem(w)]
        BY <2>3 DEF Web!StopAllLoaders
      <3> HIDE DEF type, y
      <3>3. y = Web!Report(w, type, 0)
        BY DEF y
      <3>4. /\ y \in Webs /\ SameWeb(w, y)
            /\ Sent(y.out, Questions) <=> Sent(w.out, Questions) \/ type \in Questions
            /\ Sent(y.out, Additions) <=> Sent(w.out, Additions) \/ type \in Additions
        BY <3>1, <3>3, <1>ReportFacts
      <3>5. Told(y.out, w.loader, "Finished")
        BY <2>1, <3>1, <3>3, <1>SilentFacts, <1>ReportTold
      <3>6. /\ x \in Webs /\ Continues(y, x) /\ x.handling = y.handling
            /\ x.wait = y.wait /\ x.next = y.next /\ x.shown = y.shown /\ x.out = y.out
        <4>1. (y.strayed \/ Web!LoadsItem(w)) \in BOOLEAN
          OBVIOUS
        <4> QED
          BY <3>2, <3>4, <4>1 DEF Webs, Continues
      <3> QED
        BY <3>1, <3>4, <3>5, <3>6, <1>SilentFacts DEF SameWeb, Continues
    <2>4. CASE w.loader = "Committed"
      <3> DEFINE type == "DidFailLoad"
      <3>1. /\ type \in UITypes /\ type \notin Questions /\ type \notin Additions
            /\ InOrder(w.loader, type) /\ StateAfter(w.loader, type) = "Finished"
        BY <2>4 DEF UITypes, Stops, Questions, Additions, InOrder, StateAfter
      <3>2. x = Web!Report(w, type, 0)
        BY <2>4 DEF Web!StopAllLoaders
      <3> HIDE DEF type
      <3>3. /\ x \in Webs /\ SameWeb(w, x)
            /\ Sent(x.out, Questions) <=> Sent(w.out, Questions) \/ type \in Questions
            /\ Sent(x.out, Additions) <=> Sent(w.out, Additions) \/ type \in Additions
        BY <3>1, <3>2, <1>ReportFacts
      <3>4. Told(x.out, w.loader, "Finished")
        BY <2>1, <3>1, <3>2, <1>SilentFacts, <1>ReportTold
      <3> QED
        BY <3>1, <3>3, <3>4, <1>SilentFacts DEF SameWeb, Continues
    <2> QED
      BY <2>1, <2>2, <2>3, <2>4 DEF States
  <1>FailProvisionalLoadFacts.
    ASSUME NEW w \in Webs, w.out = << >>, NEW x, x = Web!FailProvisionalLoad(w)
    PROVE  /\ x \in Webs /\ x.created = w.created
           /\ x.known = w.known /\ x.uniqueHistoryItemID = w.uniqueHistoryItemID
           /\ x.loader = "Finished" /\ x.handling = w.handling
           /\ x.wait = w.wait /\ x.next = w.next
           /\ Told(x.out, w.loader, "Finished")
           /\ ~Sent(x.out, Questions) /\ ~Sent(x.out, Additions)
    <2> USE <1>FailProvisionalLoadFacts
    <2>1. PICK y : y = Web!StopAllLoaders(w)
      OBVIOUS
    <2>2. x = [y EXCEPT !.loader = "Finished", !.load = Web!Nothing]
      BY <2>1 DEF Web!FailProvisionalLoad
    <2>3. /\ y \in Webs /\ Continues(w, y) /\ y.handling = w.handling
          /\ y.wait = w.wait /\ y.next = w.next
          /\ Told(y.out, w.loader, "Finished")
          /\ ~Sent(y.out, Questions) /\ ~Sent(y.out, Additions)
      BY <2>1, <1>StopAllLoadersFacts
    <2>4. /\ x \in Webs /\ x.created = y.created
          /\ x.known = y.known /\ x.uniqueHistoryItemID = y.uniqueHistoryItemID
          /\ x.loader = "Finished" /\ x.handling = y.handling
          /\ x.wait = y.wait /\ x.next = y.next /\ x.out = y.out
      BY <2>2, <2>3, LoadKindsFacts DEF Webs, States
    <2> QED
      BY <2>3, <2>4 DEF Continues
  \* Ways for a step to end.
  <1>ReturnGoesOn.
    ASSUME NEW w \in Webs, NEW y \in Webs, y.created = w.created, Ready(y),
           y.known = w.known, y.uniqueHistoryItemID = w.uniqueHistoryItemID,
           w.handling => y.handling,
           Told(y.out, w.loader, y.loader), ~Sent(y.out, Questions),
           ~Sent(y.out, Additions), NEW x, x = Web!Return(y)
    PROVE  GoesOn(w, x)
    <2> USE <1>ReturnGoesOn
    <2>1. /\ x \in Webs /\ Continues(y, x)
          /\ x.wait = "no" /\ x.next = Web!Nothing
          /\ Told(x.out, w.loader, x.loader) /\ Waits(x.out, x.wait)
          /\ y.handling => Sent(x.out, Done)
          /\ Sent(x.out, Additions) <=> Sent(y.out, Additions)
      BY <1>ReturnFacts
    <2>2. Ready(x)
      BY <2>1 DEF Ready, Continues, Decided
    <2> QED
      BY <2>1, <2>2 DEF GoesOn, Continues
  <1>AskForPolicyGoesOn.
    ASSUME NEW w \in Webs, NEW y \in Webs, y.created = w.created, Ready(y),
           y.known = w.known, y.uniqueHistoryItemID = w.uniqueHistoryItemID,
           w.handling => y.handling,
           Told(y.out, w.loader, y.loader), ~Sent(y.out, Questions),
           ~Sent(y.out, Additions), NEW load \in LoadKinds, load # Web!Nothing,
           NEW x, x = Web!AskForPolicy(y, load)
    PROVE  GoesOn(w, x) /\ x.wait = "policy" /\ x.next = load /\ x.handling = y.handling
    <2> USE <1>AskForPolicyGoesOn
    <2>1. /\ x \in Webs /\ Continues(y, x) /\ x.handling = y.handling
          /\ x.wait = "policy" /\ x.next = load
          /\ Told(x.out, w.loader, x.loader) /\ Waits(x.out, x.wait)
          /\ Sent(x.out, Additions) <=> Sent(y.out, Additions)
      BY <1>AskForPolicyFacts, SMTT(30)
    <2>2. Ready(x)
      BY <2>1 DEF Ready, Continues
    <2> QED
      BY <2>1, <2>2 DEF GoesOn, Continues
  <1>GoToItemGoesOn.
    ASSUME NEW w \in Webs, NEW y \in Webs, y.created = w.created, Ready(y),
           y.known = w.known, y.uniqueHistoryItemID = w.uniqueHistoryItemID,
           w.handling => y.handling,
           Told(y.out, w.loader, y.loader), ~Sent(y.out, Questions),
           ~Sent(y.out, Additions), NEW id \in Nat, NEW next \in LoadKinds,
           NEW x, x = Web!GoToItem(y, id, next)
    PROVE  GoesOn(w, x) /\ x.wait = "goTo" /\ x.next = next /\ x.handling = y.handling
    <2> USE <1>GoToItemGoesOn
    <2>1. /\ x \in Webs /\ Continues(y, x) /\ x.handling = y.handling
          /\ x.wait = "goTo" /\ x.next = next
          /\ Told(x.out, w.loader, x.loader) /\ Waits(x.out, x.wait)
          /\ Sent(x.out, Additions) <=> Sent(y.out, Additions)
      BY <1>GoToItemFacts, SMTT(30)
    <2>2. Ready(x)
      BY <2>1 DEF Ready, Continues, Decided
    <2> QED
      BY <2>1, <2>2 DEF GoesOn, Continues
  <1>StopLoadingGoesOn.
    ASSUME NEW w \in Webs, Ready(w), w.out = << >>, NEW x, x = Web!StopLoading(w)
    PROVE  GoesOn(w, x) /\ (w.handling => x.handling \/ Sent(x.out, Done))
    <2> USE <1>StopLoadingGoesOn
    <2>1. PICK z : z = Web!FailProvisionalLoad(w)
      OBVIOUS
    <2>2. PICK y : y = [z EXCEPT !.provisional = 0]
      OBVIOUS
    <2>3. x = IF Web!LoadsItem(w) /\ w.shown # 0
              THEN Web!GoToItem(y, w.shown, Web!Nothing) ELSE Web!Return(y)
      BY <2>1, <2>2 DEF Web!StopLoading
    <2>4. /\ z \in Webs /\ z.created = w.created
          /\ z.known = w.known /\ z.uniqueHistoryItemID = w.uniqueHistoryItemID
          /\ z.loader = "Finished" /\ z.handling = w.handling
          /\ z.wait = w.wait /\ z.next = w.next
          /\ Told(z.out, w.loader, "Finished")
          /\ ~Sent(z.out, Questions) /\ ~Sent(z.out, Additions)
      BY <2>1, <1>FailProvisionalLoadFacts
    <2>5. /\ y \in Webs /\ y.created = z.created
          /\ y.known = z.known /\ y.uniqueHistoryItemID = z.uniqueHistoryItemID
          /\ y.loader = "Finished" /\ y.handling = z.handling
          /\ y.wait = z.wait /\ y.next = z.next /\ y.out = z.out
      BY <2>2, <2>4 DEF Webs
    <2>6. Ready(y)
      BY <2>4, <2>5 DEF Ready
    <2>7. w.shown \in Nat /\ Web!Nothing \in LoadKinds
      BY LoadKindsFacts DEF Webs
    <2>8. GoesOn(w, x)
      <3>1. CASE Web!LoadsItem(w) /\ w.shown # 0
        <4>1. x = Web!GoToItem(y, w.shown, Web!Nothing)
          BY <2>3, <3>1
        <4> QED
          BY <2>4, <2>5, <2>6, <2>7, <4>1, <1>GoToItemGoesOn, SMTT(30)
      <3>2. CASE ~(Web!LoadsItem(w) /\ w.shown # 0)
        <4>1. x = Web!Return(y)
          BY <2>3, <3>2
        <4> QED
          BY <2>4, <2>5, <2>6, <4>1, <1>ReturnGoesOn
      <3> QED
        BY <3>1, <3>2
    <2> QED
      BY <2>8 DEF GoesOn
  <1>HandleRequestGoesOn.
    ASSUME NEW w \in Webs, Ready(w), w.out = << >>, w.wait = "no",
           NEW m \in WebMessages, m.type \in Requests,
           NEW x, x = Web!HandleRequest(w, m)
    PROVE  /\ GoesOn(w, x)
           /\ x.handling \/ Sent(x.out, Done)
           /\ m.type # "StopLoading" /\ ~Web!Ignores(w, m) =>
                x.wait \in Backed /\ x.next # Web!Nothing
    <2> USE <1>HandleRequestGoesOn
    <2>1. PICK v : v = [w EXCEPT !.handling = TRUE]
      OBVIOUS
    <2>2. v \in Webs /\ v.handling /\ SameWeb([w EXCEPT !.handling = TRUE], v) /\ v.out = << >>
      BY <2>1 DEF Webs, SameWeb
    <2>3. /\ Continues(w, v) /\ v.wait = w.wait /\ v.next = w.next
          /\ v.document = w.document /\ v.shown = w.shown
      BY <2>1 DEF Webs, Continues
    <2>4. Ready(v)
      BY <2>3 DEF Ready, Continues
    <2>5. ASSUME GoesOn(v, x) PROVE GoesOn(w, x) /\ (x.handling \/ Sent(x.out, Done))
      BY <2>2, <2>3, <2>5 DEF GoesOn, Continues
    <2>6. /\ Told(v.out, v.loader, v.loader) /\ ~Sent(v.out, Questions)
          /\ ~Sent(v.out, Additions)
      BY <2>2, <1>SilentFacts
    <2>7. v.shown \in Nat /\ m.id \in Nat
      BY <2>2 DEF Webs, WebMessages, Requests
    <2>8. CASE Web!Ignores(w, m)
      <3>0. \/ m.type = "Reload" /\ ~w.document
            \/ m.type = "GoToBackForwardItem" /\ m.id \notin w.known
        BY <2>8 DEF Web!Ignores
      <3>1. x = Web!Return(v)
        BY <2>1, <2>8, <3>0 DEF Web!HandleRequest
      <3>2. GoesOn(v, x)
        BY <2>2, <2>4, <2>6, <3>1, <1>ReturnGoesOn
      <3> QED
        BY <2>5, <2>8, <3>2
    <2>9. CASE ~Web!Ignores(w, m) /\ m.type = "StopLoading"
      <3>1. x = Web!StopLoading(v)
        BY <2>1, <2>9 DEF Web!HandleRequest
      <3>2. GoesOn(v, x)
        BY <2>2, <2>4, <3>1, <1>StopLoadingGoesOn
      <3> QED
        BY <2>5, <2>9, <3>2
    <2>10. CASE ~Web!Ignores(w, m) /\ m.type = "LoadRequest"
      <3>1. x = Web!AskForPolicy(v, [kind |-> "new", url |-> 1])
        BY <2>1, <2>10 DEF Web!HandleRequest
      <3>2. PICK load : load = [kind |-> "new", url |-> 1]
        OBVIOUS
      <3>3. load \in LoadKinds /\ load # Web!Nothing
        BY <3>2, LoadKindsFacts
      <3>4. GoesOn(v, x) /\ x.wait = "policy" /\ x.next = load
        BY <2>2, <2>4, <2>6, <3>1, <3>2, <3>3, <1>AskForPolicyGoesOn, SMTT(30)
      <3> QED
        BY <2>5, <3>3, <3>4 DEF Backed
    <2>11. CASE ~Web!Ignores(w, m) /\ m.type = "Reload"
      <3>1. x = Web!AskForPolicy(v, [kind |-> "reload", url |-> v.shown])
        BY <2>1, <2>3, <2>11 DEF Web!HandleRequest, Web!Ignores
      <3>2. PICK load : load = [kind |-> "reload", url |-> v.shown]
        OBVIOUS
      <3>3. load \in LoadKinds /\ load # Web!Nothing
        BY <2>7, <3>2, LoadKindsFacts
      <3>4. GoesOn(v, x) /\ x.wait = "policy" /\ x.next = load
        BY <2>2, <2>4, <2>6, <3>1, <3>2, <3>3, <1>AskForPolicyGoesOn, SMTT(30)
      <3> QED
        BY <2>5, <3>3, <3>4 DEF Backed
    <2>12. CASE ~Web!Ignores(w, m) /\ m.type = "GoToBackForwardItem"
      <3>1. x = Web!GoToItem(v, m.id, [kind |-> "item", url |-> m.id])
        BY <2>1, <2>12 DEF Web!HandleRequest, Web!Ignores
      <3>2. PICK load : load = [kind |-> "item", url |-> m.id]
        OBVIOUS
      <3>3. load \in LoadKinds /\ load # Web!Nothing
        BY <2>7, <3>2, LoadKindsFacts
      <3>4. GoesOn(v, x) /\ x.wait = "goTo" /\ x.next = load
        BY <2>2, <2>4, <2>6, <2>7, <3>1, <3>2, <3>3, <1>GoToItemGoesOn, SMTT(30)
      <3> QED
        BY <2>5, <3>3, <3>4 DEF Backed
    <2> QED
      BY <2>8, <2>9, <2>10, <2>11, <2>12 DEF Requests
  <1>FollowLinkGoesOn.
    ASSUME NEW w \in Webs, Ready(w), w.out = << >>, NEW x, x = Web!FollowLink(w)
    PROVE  GoesOn(w, x)
    <2> USE <1>FollowLinkGoesOn
    <2>1. PICK load : load = [kind |-> "new", url |-> 0]
      OBVIOUS
    <2>2. load \in LoadKinds /\ load # Web!Nothing
      BY <2>1, LoadKindsFacts
    <2>3. x = Web!AskForPolicy(w, load)
      BY <2>1 DEF Web!FollowLink
    <2> QED
      BY <2>2, <2>3, <1>SilentFacts, <1>AskForPolicyGoesOn
  <1>WentToItemGoesOn.
    ASSUME NEW w \in Webs, Ready(w), w.out = << >>, NEW x, x = Web!WentToItem(w)
    PROVE  /\ GoesOn(w, x)
           /\ w.next # Web!Nothing => x.wait \in Backed /\ x.next # Web!Nothing
    <2> USE <1>WentToItemGoesOn
    <2>1. CASE w.next = Web!Nothing
      <3>1. x = Web!Return(w)
        BY <2>1 DEF Web!WentToItem
      <3> QED
        BY <2>1, <3>1, <1>SilentFacts, <1>ReturnGoesOn
    <2>2. CASE w.next # Web!Nothing
      <3>1. PICK y : y = [w EXCEPT !.provisional = w.next.url]
        OBVIOUS
      <3>2. x = Web!AskForPolicy(y, w.next)
        BY <2>2, <3>1 DEF Web!WentToItem
      <3>3. w.next \in LoadKinds /\ w.next.url \in Nat
        BY LoadKindsFacts DEF Webs
      <3>4. /\ y \in Webs /\ Continues(w, y) /\ y.handling = w.handling
            /\ y.wait = w.wait /\ y.next = w.next /\ y.out = << >>
        BY <3>1, <3>3 DEF Webs, Continues
      <3>5. Ready(y)
        BY <3>4 DEF Ready, Continues
      <3>6. /\ y.created = w.created /\ y.known = w.known /\ y.loader = w.loader
            /\ y.uniqueHistoryItemID = w.uniqueHistoryItemID
        BY <3>4 DEF Continues
      <3>7. /\ Told(y.out, y.loader, y.loader) /\ ~Sent(y.out, Questions)
            /\ ~Sent(y.out, Additions)
        BY <3>4, <1>SilentFacts
      <3>8. GoesOn(w, x) /\ x.wait = "policy" /\ x.next = w.next
        BY <2>2, <3>2, <3>3, <3>4, <3>5, <3>6, <3>7, <1>AskForPolicyGoesOn, SMTT(30)
      <3> QED
        BY <2>2, <3>8 DEF Backed
    <2> QED
      BY <2>1, <2>2
  <1>NavigateWithinDocumentGoesOn.
    ASSUME NEW w \in Webs, Ready(w), w.out = << >>,
           NEW x, x = Web!NavigateWithinDocument(w)
    PROVE  GoesOn(w, x) /\ Sent(x.out, Answers)
    <2> USE <1>NavigateWithinDocumentGoesOn
    <2> DEFINE type == "DidSameDocumentNavigation"
    <2>1. /\ type \in UITypes /\ type \in UITypes \ (Starts \cup Stops)
          /\ type \notin Questions /\ type \notin Additions /\ type \in Answers
      BY DEF UITypes, Starts, Stops, Questions, Additions, Answers
    <2>2. PICK z : z = Web!Report(w, type, 0)
      OBVIOUS
    <2>3. PICK y : y = [z EXCEPT !.shown = w.next.url]
      OBVIOUS
    <2>4. x = Web!Return(y)
      BY <2>2, <2>3 DEF Web!NavigateWithinDocument
    <2>5. w.next.url \in Nat /\ w.loader \in States
      BY LoadKindsFacts DEF Webs
    <2> HIDE DEF type
    <2>6. /\ z \in Webs /\ SameWeb(w, z)
          /\ Sent(z.out, Questions) <=> Sent(w.out, Questions) \/ type \in Questions
          /\ Sent(z.out, Additions) <=> Sent(w.out, Additions) \/ type \in Additions
          /\ Sent(z.out, Answers) <=> Sent(w.out, Answers) \/ type \in Answers
      BY <2>1, <2>2, <1>ReportFacts
    <2>7. Told(z.out, w.loader, w.loader)
      BY <2>1, <2>2, <2>5, <1>SilentFacts, <1>ReportQuiet
    <2>8. /\ y \in Webs /\ Continues(z, y) /\ y.handling = z.handling
          /\ y.wait = z.wait /\ y.next = z.next /\ y.out = z.out
      BY <2>3, <2>5, <2>6 DEF Webs, Continues
    <2>9. /\ y.created = w.created /\ y.known = w.known /\ y.loader = w.loader
          /\ y.uniqueHistoryItemID = w.uniqueHistoryItemID
          /\ y.handling = w.handling /\ Ready(y)
      BY <2>6, <2>8 DEF SameWeb, Continues, Ready
    <2>10. ~Sent(y.out, Questions) /\ ~Sent(y.out, Additions) /\ Sent(y.out, Answers)
      BY <2>1, <2>6, <2>8, <1>SilentFacts
    <2>11. GoesOn(w, x)
      BY <2>4, <2>7, <2>8, <2>9, <2>10, <1>ReturnGoesOn
    <2>12. Sent(x.out, Answers)
      BY <2>4, <2>7, <2>8, <2>9, <2>10, <1>ReturnFacts
    <2> QED
      BY <2>11, <2>12
  <1>GiveUpGoesOn.
    ASSUME NEW w \in Webs, Ready(w), w.out = << >>, NEW x, x = Web!GiveUp(w)
    PROVE  GoesOn(w, x)
    <2> USE <1>GiveUpGoesOn
    <2>1. w.shown \in Nat /\ Web!Nothing \in LoadKinds
      BY LoadKindsFacts DEF Webs
    <2>2. CASE w.next.kind = "item" /\ w.shown # 0
      <3>1. x = Web!GoToItem(w, w.shown, Web!Nothing)
        BY <2>2 DEF Web!GiveUp
      <3> QED
        BY <2>1, <3>1, <1>SilentFacts, <1>GoToItemGoesOn, SMTT(30)
    <2>3. CASE ~(w.next.kind = "item" /\ w.shown # 0)
      <3>1. x = Web!Return(w)
        BY <2>3 DEF Web!GiveUp
      <3> QED
        BY <3>1, <1>SilentFacts, <1>ReturnGoesOn
    <2> QED
      BY <2>2, <2>3
  <1>StartProvisionalLoadGoesOn.
    ASSUME NEW w \in Webs, Ready(w), w.out = << >>, w.wait = "use",
           NEW x, x = Web!StartProvisionalLoad(w)
    PROVE  GoesOn(w, x) /\ Sent(x.out, Answers)
    <2> USE <1>StartProvisionalLoadGoesOn
    <2> DEFINE type == "DidStartProvisionalLoad"
    <2>1. /\ type \in UITypes /\ InOrder("Finished", type)
          /\ StateAfter("Finished", type) = "Provisional" /\ "Finished" \in States
          /\ type \notin Questions /\ type \notin Additions /\ type \in Answers
      BY DEF UITypes, Starts, Questions, Additions, Answers, InOrder, StateAfter, States
    <2>2. PICK v : v = Web!StopAllLoaders(w)
      OBVIOUS
    <2>3. PICK z : z = Web!Report(v, type, 0)
      OBVIOUS
    <2>4. PICK y : y = [z EXCEPT !.loader = "Provisional", !.load = w.next,
                         !.strayed = z.strayed /\ w.next.kind # "item"]
      OBVIOUS
    <2>5. x = Web!Return(y)
      BY <2>2, <2>3, <2>4 DEF Web!StartProvisionalLoad
    <2> HIDE DEF type
    <2>6. /\ v \in Webs /\ Continues(w, v) /\ v.handling = w.handling
          /\ v.wait = w.wait /\ v.next = w.next
          /\ Told(v.out, w.loader, "Finished")
          /\ ~Sent(v.out, Questions) /\ ~Sent(v.out, Additions)
      BY <2>2, <1>StopAllLoadersFacts
    <2>7. /\ z \in Webs /\ SameWeb(v, z)
          /\ Sent(z.out, Questions) <=> Sent(v.out, Questions) \/ type \in Questions
          /\ Sent(z.out, Additions) <=> Sent(v.out, Additions) \/ type \in Additions
          /\ Sent(z.out, Answers) <=> Sent(v.out, Answers) \/ type \in Answers
      BY <2>1, <2>3, <2>6, <1>ReportFacts
    <2>8. Told(z.out, w.loader, "Provisional")
      BY <2>1, <2>3, <2>6, <1>ReportTold
    <2>9. w.next \in LoadKinds /\ w.next # Web!Nothing
      BY DEF Webs, Ready, Decided
    <2>10. /\ y \in Webs /\ y.created = z.created /\ y.known = z.known
           /\ y.uniqueHistoryItemID = z.uniqueHistoryItemID /\ y.handling = z.handling
           /\ y.wait = z.wait /\ y.next = z.next /\ y.out = z.out
           /\ y.loader = "Provisional" /\ y.load = w.next
      <3>1. (z.strayed /\ w.next.kind # "item") \in BOOLEAN
        OBVIOUS
      <3> QED
        BY <2>4, <2>7, <2>9, <3>1 DEF Webs, States
    <2>11. /\ y.created = w.created /\ y.known = w.known
           /\ y.uniqueHistoryItemID = w.uniqueHistoryItemID
           /\ y.handling = w.handling /\ Ready(y)
      BY <2>6, <2>7, <2>9, <2>10 DEF SameWeb, Continues, Ready
    <2>12. ~Sent(y.out, Questions) /\ ~Sent(y.out, Additions) /\ Sent(y.out, Answers)
      BY <2>1, <2>6, <2>7, <2>10
    <2>13. Told(y.out, w.loader, y.loader)
      BY <2>8, <2>10
    <2>14. GoesOn(w, x)
      BY <2>5, <2>10, <2>11, <2>12, <2>13, <1>ReturnGoesOn
    <2>15. Sent(x.out, Answers)
      BY <2>5, <2>10, <2>12, <2>13, <1>ReturnFacts
    <2> QED
      BY <2>14, <2>15
  <1>AddItemFacts.
    ASSUME NEW w \in Webs, w.out = << >>, NEW x, x = Web!AddItem(w)
    PROVE  /\ x \in Webs /\ x.created = w.created
           /\ x.known = w.known \cup {w.uniqueHistoryItemID + 2}
           /\ x.uniqueHistoryItemID = w.uniqueHistoryItemID + 2
           /\ x.loader = w.loader /\ x.load = w.load
           /\ x.wait = w.wait /\ x.next = w.next /\ x.handling = w.handling
           /\ Told(x.out, w.loader, w.loader) /\ ~Sent(x.out, Questions)
           /\ Len(x.out) = 2 /\ Adds(x.out, w.uniqueHistoryItemID + 2)
    <2> USE <1>AddItemFacts
    <2>1. PICK id : id = w.uniqueHistoryItemID + 2
      OBVIOUS
    <2>2. id \in Nat /\ w.loader \in States
      BY <2>1, SMTT(30) DEF Webs
    <2>3. PICK v : v = [w EXCEPT !.uniqueHistoryItemID = id, !.known = w.known \cup {id},
                         !.shown = id, !.strayed = Web!LoadsItem(w)]
      OBVIOUS
    <2>4. /\ v \in Webs /\ v.out = << >> /\ v.created = w.created
          /\ v.known = w.known \cup {id} /\ v.uniqueHistoryItemID = id
          /\ v.loader = w.loader /\ v.load = w.load
          /\ v.wait = w.wait /\ v.next = w.next /\ v.handling = w.handling
      <3>1. Web!LoadsItem(w) \in BOOLEAN /\ w.known \cup {id} \in SUBSET Nat
        BY <2>2 DEF Web!LoadsItem, Webs
      <3> QED
        BY <2>2, <2>3, <3>1 DEF Webs
    <2>5. PICK y : y = Web!Report(v, "AddBackForwardItem", id)
      OBVIOUS
    <2>6. x = Web!Report(y, "BackForwardAddItem", id)
      BY <2>1, <2>3, <2>5 DEF Web!AddItem
    <2>7. /\ {"AddBackForwardItem", "BackForwardAddItem"} \subseteq UITypes
          /\ {"AddBackForwardItem", "BackForwardAddItem"} \subseteq UITypes \ (Starts \cup Stops)
          /\ "AddBackForwardItem" \notin Questions /\ "BackForwardAddItem" \notin Questions
      BY DEF UITypes, Starts, Stops, Questions, Additions
    <2>8. /\ y \in Webs /\ SameWeb(v, y)
          /\ Sent(y.out, Questions) <=> Sent(v.out, Questions) \/ "AddBackForwardItem" \in Questions
      BY <2>2, <2>4, <2>5, <2>7, <1>ReportFacts
    <2>9. /\ x \in Webs /\ SameWeb(y, x)
          /\ Sent(x.out, Questions) <=> Sent(y.out, Questions) \/ "BackForwardAddItem" \in Questions
      BY <2>2, <2>6, <2>7, <2>8, <1>ReportFacts
    <2>10. Told(y.out, w.loader, w.loader)
      BY <2>2, <2>4, <2>5, <2>7, <1>SilentFacts, <1>ReportQuiet
    <2>11. Told(x.out, w.loader, w.loader)
      BY <2>2, <2>6, <2>7, <2>8, <2>10, <1>ReportQuiet
    <2>12. /\ Len(y.out) = Len(v.out) + 1
           /\ y.out[Len(v.out) + 1].type = "AddBackForwardItem"
           /\ y.out[Len(v.out) + 1].id = id
      <3>1. v \in Webs
        BY <2>4
      <3> QED
        BY <2>2, <2>5, <2>7, <3>1, <1>ReportOut, SMTT(30)
    <2>13. Len(v.out) = 0
      BY <2>4, SMTT(30)
    <2>14. Len(y.out) = 1 /\ y.out[1].type = "AddBackForwardItem" /\ y.out[1].id = id
      BY <2>12, <2>13, SMTT(30)
    <2>15. /\ Len(x.out) = Len(y.out) + 1
           /\ \A i \in 1 .. Len(y.out) : x.out[i] = y.out[i]
           /\ x.out[Len(y.out) + 1].type = "BackForwardAddItem"
           /\ x.out[Len(y.out) + 1].id = id
      BY <2>2, <2>6, <2>7, <2>8, <1>ReportOut, SMTT(30)
    <2>16. Len(x.out) = 2 /\ Adds(x.out, id)
      BY <2>14, <2>15, SMTT(30) DEF Adds
    <2> QED
      BY <2>1, <2>4, <2>7, <2>8, <2>9, <2>11, <2>16, <1>SilentFacts DEF SameWeb
  \* A message after those of AddItem.
  <1>AddsMore.
    ASSUME NEW w \in Webs, NEW id, Adds(w.out, id), NEW type \in UITypes \ Additions,
           NEW n \in Nat, NEW x, x = Web!Report(w, type, n)
    PROVE  Adds(x.out, id)
    <2> USE <1>AddsMore
    <2>1. /\ Len(x.out) = Len(w.out) + 1 /\ Len(w.out) \in Nat
          /\ \A i \in 1 .. Len(w.out) : x.out[i] = w.out[i]
          /\ x.out[Len(w.out) + 1].type = type
      BY <1>ReportOut, SMTT(30)
    <2>2. ASSUME NEW i \in 3 .. Len(x.out) PROVE x.out[i].type \notin Additions
      <3>1. CASE i = Len(w.out) + 1
        BY <2>1, <3>1
      <3>2. CASE i # Len(w.out) + 1
        <4>1. i \in 1 .. Len(w.out) /\ i \in 3 .. Len(w.out)
          BY <2>1, <3>2, SMTT(30)
        <4> QED
          BY <2>1, <4>1 DEF Adds
      <3> QED
        BY <3>1, <3>2
    <2>3. Len(w.out) >= 2 /\ 1 \in 1 .. Len(w.out) /\ 2 \in 1 .. Len(w.out)
      BY <2>1, SMTT(30) DEF Adds
    <2> QED
      BY <2>1, <2>2, <2>3, SMTT(30) DEF Adds
  <1>PushStateGoesOn.
    ASSUME NEW w \in Webs, Ready(w), w.out = << >>, NEW x, x = Web!PushState(w)
    PROVE  GoesOn(w, x)
    <2> USE <1>PushStateGoesOn
    <2> DEFINE type == "DidSameDocumentNavigation"
    <2>1. PICK y : y = Web!AddItem(w)
      OBVIOUS
    <2>2. x = Web!Report(y, type, 0)
      BY <2>1 DEF Web!PushState
    <2>3. /\ type \in UITypes /\ type \in UITypes \ (Starts \cup Stops)
          /\ type \in UITypes \ Additions /\ type \notin Questions
      BY DEF UITypes, Starts, Stops, Questions, Additions, Answers
    <2> HIDE DEF type
    <2>4. /\ y \in Webs /\ y.created = w.created
          /\ y.known = w.known \cup {w.uniqueHistoryItemID + 2}
          /\ y.uniqueHistoryItemID = w.uniqueHistoryItemID + 2
          /\ y.loader = w.loader /\ y.load = w.load
          /\ y.wait = w.wait /\ y.next = w.next /\ y.handling = w.handling
          /\ Told(y.out, w.loader, w.loader) /\ ~Sent(y.out, Questions)
          /\ Adds(y.out, w.uniqueHistoryItemID + 2)
      BY <2>1, <1>AddItemFacts
    <2>5. x \in Webs /\ SameWeb(y, x)
      BY <2>2, <2>3, <2>4, <1>ReportFacts
    <2>6. w.loader \in States
      BY DEF Webs
    <2>7. Told(x.out, w.loader, w.loader)
      BY <2>2, <2>3, <2>4, <2>6, <1>ReportQuiet
    <2>8. Waits(x.out, x.wait)
      BY <2>2, <2>3, <2>4, <1>ReportWaits
    <2>9. Adds(x.out, w.uniqueHistoryItemID + 2)
      BY <2>2, <2>3, <2>4, <1>AddsMore
    <2> QED
      BY <2>4, <2>5, <2>7, <2>8, <2>9 DEF GoesOn, SameWeb, Ready
  <1>CommitLoadGoesOn.
    ASSUME NEW w \in Webs, Ready(w), w.out = << >>, w.loader = "Provisional",
           NEW x, x = Web!CommitLoad(w)
    PROVE  GoesOn(w, x)
    <2> USE <1>CommitLoadGoesOn
    <2> DEFINE type == "DidCommitLoad"
    <2>1. PICK y : y = CASE w.load.kind = "new"    -> Web!AddItem(w)
                         [] w.load.kind = "item"   -> [w EXCEPT !.shown = w.provisional,
                                                       !.provisional = 0]
                         [] w.load.kind = "reload" -> w
      OBVIOUS
    <2>2. PICK z : z = Web!Report(y, type, 0)
      OBVIOUS
    <2>3. x = [z EXCEPT !.loader = "Committed", !.load = Web!Nothing, !.document = TRUE]
      BY <2>1, <2>2 DEF Web!CommitLoad
    <2>4. /\ type \in UITypes /\ InOrder("Provisional", type)
          /\ StateAfter("Provisional", type) = "Committed" /\ "Provisional" \in States
          /\ type \in UITypes \ Additions /\ type \notin Questions /\ type \notin Additions
      BY DEF UITypes, Starts, Questions, Additions, InOrder, StateAfter, States
    <2> HIDE DEF type
    <2>5. /\ y \in Webs /\ y.created = w.created /\ y.wait = w.wait /\ y.next = w.next
          /\ y.handling = w.handling
          /\ Told(y.out, w.loader, w.loader) /\ ~Sent(y.out, Questions)
          /\ \/ /\ ~Sent(y.out, Additions)
                /\ y.known = w.known /\ y.uniqueHistoryItemID = w.uniqueHistoryItemID
             \/ /\ Adds(y.out, w.uniqueHistoryItemID + 2)
                /\ y.known = w.known \cup {w.uniqueHistoryItemID + 2}
                /\ y.uniqueHistoryItemID = w.uniqueHistoryItemID + 2
      <3>1. CASE w.load.kind = "new"
        <4>1. y = Web!AddItem(w)
          BY <2>1, <3>1
        <4> QED
          BY <4>1, <1>AddItemFacts
      <3>2. CASE w.load.kind = "item"
        <4>1. y = [w EXCEPT !.shown = w.provisional, !.provisional = 0]
          BY <2>1, <3>2
        <4>2. /\ y \in Webs /\ y.created = w.created /\ y.wait = w.wait /\ y.next = w.next
              /\ y.handling = w.handling /\ y.out = w.out
              /\ y.known = w.known /\ y.uniqueHistoryItemID = w.uniqueHistoryItemID
          BY <4>1 DEF Webs
        <4> QED
          BY <4>2, <1>SilentFacts
      <3>3. CASE w.load.kind = "reload"
        <4>1. y = w
          BY <2>1, <3>3
        <4> QED
          BY <4>1, <1>SilentFacts
      <3>4. w.load.kind \in {"new", "item", "reload"}
        BY DEF Ready, Webs, LoadKinds
      <3> QED
        BY <3>1, <3>2, <3>3, <3>4
    <2>6. /\ z \in Webs /\ SameWeb(y, z)
          /\ Sent(z.out, Additions) <=> Sent(y.out, Additions) \/ type \in Additions
      BY <2>2, <2>4, <2>5, <1>ReportFacts
    <2>7. Told(z.out, w.loader, "Committed")
      BY <2>2, <2>4, <2>5, <1>ReportTold, SMTT(30)
    <2>8. Waits(z.out, w.wait)
      BY <2>2, <2>4, <2>5, <1>ReportWaits
    <2>9. Adds(y.out, w.uniqueHistoryItemID + 2) => Adds(z.out, w.uniqueHistoryItemID + 2)
      BY <2>2, <2>4, <2>5, <1>AddsMore
    <2>10. /\ x \in Webs /\ x.created = z.created /\ x.known = z.known
           /\ x.uniqueHistoryItemID = z.uniqueHistoryItemID /\ x.handling = z.handling
           /\ x.wait = z.wait /\ x.next = z.next /\ x.out = z.out
           /\ x.loader = "Committed"
      BY <2>3, <2>6, LoadKindsFacts DEF Webs, States
    <2>11. Ready(x) /\ x.wait = w.wait
      BY <2>5, <2>6, <2>10 DEF Ready, SameWeb
    <2>12. \/ /\ ~Sent(x.out, Additions)
              /\ x.known = w.known /\ x.uniqueHistoryItemID = w.uniqueHistoryItemID
           \/ /\ Adds(x.out, w.uniqueHistoryItemID + 2)
              /\ x.known = w.known \cup {w.uniqueHistoryItemID + 2}
              /\ x.uniqueHistoryItemID = w.uniqueHistoryItemID + 2
      BY <2>4, <2>5, <2>6, <2>9, <2>10 DEF SameWeb
    <2> QED
      BY <2>5, <2>6, <2>7, <2>8, <2>10, <2>11, <2>12 DEF GoesOn, SameWeb
  <1>FailProvisionalLoadGoesOn.
    ASSUME NEW w \in Webs, Ready(w), w.out = << >>,
           NEW x, x = Web!FailProvisionalLoad(w)
    PROVE  GoesOn(w, x)
    <2> USE <1>FailProvisionalLoadGoesOn
    <2>1. /\ x \in Webs /\ x.created = w.created
          /\ x.known = w.known /\ x.uniqueHistoryItemID = w.uniqueHistoryItemID
          /\ x.loader = "Finished" /\ x.handling = w.handling
          /\ x.wait = w.wait /\ x.next = w.next
          /\ Told(x.out, w.loader, "Finished")
          /\ ~Sent(x.out, Questions) /\ ~Sent(x.out, Additions)
      BY <1>FailProvisionalLoadFacts
    <2>2. x.out \in Seq(UIMessages)
      BY <2>1 DEF Webs
    <2>3. Waits(x.out, x.wait)
      BY <2>1, <2>2, <1>NoneWaits
    <2> QED
      BY <2>1, <2>3 DEF GoesOn, Ready
  <1>FinishLoadGoesOn.
    ASSUME NEW w \in Webs, Ready(w), w.out = << >>, w.loader = "Committed",
           NEW how \in {"DidFinishLoad", "DidFailLoad"}, NEW x, x = Web!FinishLoad(w, how)
    PROVE  GoesOn(w, x)
    <2> USE <1>FinishLoadGoesOn
    <2>1. PICK z : z = Web!Report(w, how, 0)
      OBVIOUS
    <2>2. x = [z EXCEPT !.loader = "Finished"]
      BY <2>1 DEF Web!FinishLoad
    <2>3. /\ how \in UITypes /\ InOrder("Committed", how)
          /\ StateAfter("Committed", how) = "Finished" /\ "Committed" \in States
          /\ how \notin Questions /\ how \notin Additions
      BY DEF UITypes, Stops, Questions, Additions, InOrder, StateAfter, States
    <2>4. /\ z \in Webs /\ SameWeb(w, z)
          /\ Sent(z.out, Additions) <=> Sent(w.out, Additions) \/ how \in Additions
      BY <2>1, <2>3, <1>ReportFacts
    <2>5. Told(z.out, w.loader, "Finished")
      BY <2>1, <2>3, <1>SilentFacts, <1>ReportTold
    <2>6. Waits(z.out, w.wait)
      BY <2>1, <2>3, <1>SilentFacts, <1>ReportWaits
    <2>7. /\ x \in Webs /\ x.created = z.created /\ x.known = z.known
          /\ x.uniqueHistoryItemID = z.uniqueHistoryItemID /\ x.handling = z.handling
          /\ x.wait = z.wait /\ x.next = z.next /\ x.out = z.out
          /\ x.loader = "Finished"
      BY <2>2, <2>4 DEF Webs, States
    <2>8. Ready(x)
      BY <2>4, <2>7 DEF Ready, SameWeb
    <2> QED
      BY <2>3, <2>4, <2>5, <2>6, <2>7, <2>8, <1>SilentFacts DEF GoesOn, SameWeb
  <1>ClearGoesOn.
    ASSUME NEW w \in Webs, Ready(w), w.out = << >>,
           NEW x, x = Web!Report(w, "BackForwardClear", 0)
    PROVE  GoesOn(w, x)
    <2> USE <1>ClearGoesOn
    <2>1. /\ "BackForwardClear" \in UITypes
          /\ "BackForwardClear" \in UITypes \ (Starts \cup Stops)
          /\ "BackForwardClear" \notin Questions /\ "BackForwardClear" \notin Additions
      BY DEF UITypes, Starts, Stops, Questions, Additions
    <2>2. w.loader \in States
      BY DEF Webs
    <2>3. /\ x \in Webs /\ SameWeb(w, x)
          /\ Sent(x.out, Additions) <=> Sent(w.out, Additions) \/ "BackForwardClear" \in Additions
      BY <2>1, <1>ReportFacts
    <2>4. Told(x.out, w.loader, w.loader)
      BY <2>1, <2>2, <1>SilentFacts, <1>ReportQuiet
    <2>5. Waits(x.out, w.wait)
      BY <2>1, <1>SilentFacts, <1>ReportWaits
    <2> QED
      BY <2>1, <2>3, <2>4, <2>5, <1>SilentFacts DEF GoesOn, SameWeb, Ready
  <1> QED
    BY <1>HandleRequestGoesOn, <1>FollowLinkGoesOn, <1>WentToItemGoesOn,
       <1>NavigateWithinDocumentGoesOn, <1>GiveUpGoesOn, <1>StartProvisionalLoadGoesOn,
       <1>PushStateGoesOn, <1>CommitLoadGoesOn, <1>FailProvisionalLoadGoesOn,
       <1>FinishLoadGoesOn, <1>ClearGoesOn

-----------------------------------------------------------------------------
(* The steps of the web process.                                           *)

\* What the web process does: it handles a message, goes on after an answer,
\* loads, or does what the page asks of it.
LEMMA WebProcessKeeps ==
  Good(page, web, alive, toWeb, toUI) /\ (HandleMessage \/ GoOn \/ Load \/ PageActs)
    => Good(page, web, alive, toWeb, toUI)' /\ SameButtons(page, page')
  <1>TeachesTail.
    ASSUME NEW q \in Seq(WebMessages), q # << >>, NEW a, NEW b, Teaches(q, a, b)
    PROVE  /\ Head(q).type = "GoToBackForwardItem" => Head(q).id \in a
           /\ Teaches(Tail(q), KnownAfter(a, Head(q)), b)
    <2> USE <1>TeachesTail
    <2>1. PICK f \in [0 .. Len(q) -> SUBSET Nat] :
             /\ f[0] = a /\ f[Len(q)] = b
             /\ \A i \in 1 .. Len(q) :
                  /\ q[i].type = "GoToBackForwardItem" => q[i].id \in f[i - 1]
                  /\ f[i] = KnownAfter(f[i - 1], q[i])
      BY DEF Teaches
    <2>r. PICK r : r = Tail(q)
      OBVIOUS
    <2>2. /\ Len(q) \in Nat \ {0} /\ Len(r) = Len(q) - 1 /\ Head(q) = q[1]
          /\ \A i \in 1 .. Len(q) - 1 : r[i] = q[i + 1]
      BY <2>r, TailFacts
    <2>3. /\ Head(q).type = "GoToBackForwardItem" => Head(q).id \in a
          /\ f[1] = KnownAfter(a, Head(q))
      <3>1. 1 \in 1 .. Len(q) /\ 1 - 1 = 0
        BY <2>2, SMTT(30)
      <3> QED
        BY <2>1, <2>2, <3>1
    <2> DEFINE h == [i \in 0 .. Len(r) |-> f[i + 1]]
    <2>4. h \in [0 .. Len(r) -> SUBSET Nat] /\ h[0] = f[1] /\ h[Len(r)] = b
      BY <2>1, <2>2, SMTT(30)
    <2>5. ASSUME NEW i \in 1 .. Len(r)
          PROVE  /\ r[i].type = "GoToBackForwardItem" => r[i].id \in h[i - 1]
                 /\ h[i] = KnownAfter(h[i - 1], r[i])
      <3>1. i + 1 \in 1 .. Len(q) /\ (i + 1) - 1 = i /\ r[i] = q[i + 1]
            /\ h[i] = f[i + 1] /\ h[i - 1] = f[i]
        BY <2>2, SMTT(30)
      <3> QED
        BY <2>1, <3>1
    <2> HIDE DEF h
    <2> QED
      BY <2>r, <2>3, <2>4, <2>5 DEF Teaches
  \* The web process handles its next message: what it knows changes with it.
  <1>IDsTaught.
    ASSUME NEW p \in Pages, NEW w \in Webs, NEW tw \in Seq(WebMessages), tw # << >>,
           NEW tu \in Seq(UIMessages), IDs(p, w, TRUE, tw, tu),
           NEW x \in Webs, x.created = TRUE, x.known = KnownAfter(w.known, Head(tw)),
           \/ w.created /\ x.uniqueHistoryItemID = w.uniqueHistoryItemID
           \/ /\ ~w.created
              /\ Odd(x.uniqueHistoryItemID) /\ Head(tw).highest <= x.uniqueHistoryItemID
    PROVE  IDs(p, x, TRUE, Tail(tw), tu)
    <2> USE <1>IDsTaught
    <2>1. PICK t : t = Tail(tw)
      OBVIOUS
    <2>2. PICK m : m = Head(tw)
      OBVIOUS
    <2>3. /\ t \in Seq(WebMessages) /\ Len(t) = Len(tw) - 1
          /\ Len(tw) \in Nat \ {0} /\ m = tw[1] /\ m \in WebMessages
          /\ \A i \in 1 .. Len(tw) - 1 : t[i] = tw[i + 1]
      BY <2>1, <2>2, TailFacts
    <2>4. /\ 1 \in 1 .. Len(tw)
          /\ \A i \in 1 .. Len(t) : i + 1 \in 1 .. Len(tw) /\ t[i] = tw[i + 1] /\ i + 1 # 1
      BY <2>3, SMTT(30)
    <2>5. /\ w.created => m.type # "CreateWebPage"
          /\ m.type = "RestoreSession" => \A n \in m.items : ~Odd(n)
      BY <2>3, <2>4 DEF IDs, InWeb
    <2>6. Counted(p, x, TRUE, t, tu)
      <3>1. CASE w.created
        <4>1. \A n \in x.known : Odd(n) => n \in w.known
          BY <2>2, <2>5, <3>1 DEF KnownAfter
        <4> QED
          BY <3>1, <4>1 DEF IDs, Counted
      <3>2. CASE ~w.created
        <4>1. m.type = "CreateWebPage" /\ w.known = {}
              /\ \A n \in p.items \cup m.items : Odd(n) => n <= m.highest
          BY <2>3, <3>2, NewWebProcessFacts DEF IDs, Counted
        <4>2. x.known = m.items /\ m.highest <= x.uniqueHistoryItemID /\ Odd(x.uniqueHistoryItemID)
          BY <2>2, <3>2, <4>1 DEF KnownAfter
        <4>3. m.highest \in Nat /\ m.items \subseteq Nat /\ p.items \subseteq Nat
              /\ x.uniqueHistoryItemID \in Nat
          BY <2>3, <4>1 DEF WebMessages, Pages, Webs, Requests
        <4>4. \A n \in p.items \cup x.known : Odd(n) => n <= x.uniqueHistoryItemID
          BY <4>1, <4>2, <4>3, SMTT(30)
        <4> QED
          BY <4>2, <4>4 DEF IDs, Counted
      <3> QED
        BY <3>1, <3>2
    <2>7. InWeb(p, x, t)
      BY <2>4, SMTT(30) DEF IDs, InWeb
    <2>8. InUI(p, x, TRUE, t, tu)
      <3>1. CASE w.created
        <4>1. x.uniqueHistoryItemID = w.uniqueHistoryItemID
          BY <3>1
        <4>2. ASSUME NEW i \in 1 .. Len(tu), tu[i].type = "BackForwardAddItem",
                     NEW j \in 1 .. Len(t), t[j].type = "DidRemoveBackForwardItem",
                     Odd(t[j].id)
              PROVE  t[j].id < tu[i].id
          BY <2>4, <4>2 DEF IDs, InUI
        <4> QED
          BY <4>1, <4>2 DEF IDs, InUI
      <3>2. CASE ~w.created
        <4>1. Len(tu) = 0
          BY <3>2, SMTT(30) DEF IDs, Counted
        <4> QED
          BY <4>1, SMTT(30) DEF InUI
      <3> QED
        BY <3>1, <3>2
    <2>9. Known(p, x, TRUE, t, tu)
      <3>1. PICK k \in SUBSET Nat :
               /\ Teaches(tw, w.known, k) /\ Range(p.entries) \subseteq k
               /\ \A i \in 1 .. Len(tu) : tu[i].type = "BackForwardAddItem" => tu[i].id \in k
        BY DEF IDs, Known
      <3>2. Teaches(t, x.known, k)
        BY <2>1, <3>1, <1>TeachesTail
      <3> QED
        BY <3>1, <3>2 DEF Known
    <2> QED
      BY <2>1, <2>6, <2>7, <2>8, <2>9 DEF IDs
  \* A process that is at work has been created.
  <1>AtWorkIsCreated.
    ASSUME NEW p, NEW w \in Webs, NEW tw, NEW tu, IDs(p, w, TRUE, tw, tu),
           \/ w.wait # "no" \/ w.loader # "Finished" \/ w.document
           \/ tw # << >> /\ tw[1].type # "CreateWebPage"
    PROVE  w.created
    <2> USE <1>AtWorkIsCreated
    <2>1. ~w.created => w = Web!NewWebProcess /\ tw # << >> /\ tw[1].type = "CreateWebPage"
      BY DEF IDs, Counted
    <2>2. /\ Web!NewWebProcess.wait = "no" /\ Web!NewWebProcess.loader = "Finished"
          /\ Web!NewWebProcess.document = FALSE
      BY DEF Web!NewWebProcess
    <2> QED
      BY <2>1, <2>2
  \* In a step of the web process, w becomes x and then sends what it collected.
  <1>WebActs.
    ASSUME Good(page, web, alive, toWeb, toUI), web.wait \notin {"goTo", "policy"},
           NEW x, WebBecomes(x), GoesOn(web, x), web.created, toWeb' = toWeb,
           Accounts(page, page', web, x, toWeb, toWeb)
    PROVE  Good(page, web, alive, toWeb, toUI)' /\ SameButtons(page, page')
    <2> USE <1>WebActs
    <2>1. alive = TRUE /\ alive' = TRUE
      <3>1. alive \in BOOLEAN
        BY DEF Good, Typed
      <3> QED
        BY <3>1 DEF WebBecomes
    <2>2. Delivers(x, web', toUI, toUI') /\ Proceeds(web, x)
      BY DEF WebBecomes, Delivers, Proceeds
    <2>3. Good(page, web, TRUE, toWeb, toUI)
      BY <2>1
    <2>4. IDs(page, web, TRUE, toWeb, toUI) /\ toWeb \in Seq(WebMessages)
      BY <2>3 DEF Good, Typed
    <2>5. Good(page', web', TRUE, toWeb, toUI') /\ SameButtons(page, page')
      BY <2>2, <2>3, <2>4, WebStepKeeps
    <2> QED
      BY <2>1, <2>5
  <1>Working.
    ASSUME Good(page, web, alive, toWeb, toUI), alive
    PROVE  /\ web \in Webs /\ Ready(web) /\ web.out = << >>
           /\ IDs(page, web, TRUE, toWeb, toUI) /\ toWeb \in Seq(WebMessages)
    <2> USE <1>Working
    <2>1. alive = TRUE
      BY DEF Good, Typed
    <2> QED
      BY <2>1 DEF Good, Typed, Synced
  <1>GoOnKeeps.
    ASSUME Good(page, web, alive, toWeb, toUI), GoOn
    PROVE  Good(page, web, alive, toWeb, toUI)' /\ SameButtons(page, page')
    <2> USE <1>GoOnKeeps
    <2>1. alive
      BY DEF GoOn, WebBecomes
    <2>2. /\ web \in Webs /\ Ready(web) /\ web.out = << >>
          /\ IDs(page, web, TRUE, toWeb, toUI)
      BY <2>1, <1>Working
    <2>3. toWeb' = toWeb
      BY DEF GoOn
    <2>4. CASE web.wait = "went" /\ WebBecomes(Web!WentToItem(web)) /\ UNCHANGED page
      <3>1. PICK x : x = Web!WentToItem(web)
        OBVIOUS
      <3>2. GoesOn(web, x) /\ (web.next # Web!Nothing => Backs(x))
        BY <2>2, <3>1, OperationsGoOn DEF Backs
      <3>3. Accounts(page, page', web, x, toWeb, toWeb)
        BY <2>4, <3>2 DEF Accounts, Backs
      <3>4. web.wait \notin {"goTo", "policy"} /\ web.wait # "no"
        BY <2>4
      <3>5. web.created
        BY <2>2, <3>4, <1>AtWorkIsCreated
      <3> QED
        BY <2>3, <2>4, <3>1, <3>2, <3>3, <3>4, <3>5, <1>WebActs
    <2>5. CASE /\ web.wait = "went"
               /\ WebBecomes(Web!NavigateWithinDocument(web)) /\ UNCHANGED page
      <3>1. PICK x : x = Web!NavigateWithinDocument(web)
        OBVIOUS
      <3>2. GoesOn(web, x) /\ Sent(x.out, Answers)
        BY <2>2, <3>1, OperationsGoOn
      <3>3. Accounts(page, page', web, x, toWeb, toWeb)
        BY <2>5, <3>2 DEF Accounts
      <3>4. web.wait \notin {"goTo", "policy"} /\ web.wait # "no"
        BY <2>5
      <3>5. web.created
        BY <2>2, <3>4, <1>AtWorkIsCreated
      <3> QED
        BY <2>3, <2>5, <3>1, <3>2, <3>3, <3>4, <3>5, <1>WebActs
    <2>6. CASE web.wait = "ignore" /\ WebBecomes(Web!GiveUp(web)) /\ UNCHANGED page
      <3>1. PICK x : x = Web!GiveUp(web)
        OBVIOUS
      <3>2. GoesOn(web, x)
        BY <2>2, <3>1, OperationsGoOn
      <3>3. /\ web.wait \notin {"goTo", "policy"} /\ web.wait # "no"
            /\ web.wait \notin Backed
        BY <2>6 DEF Backed
      <3>4. Accounts(page, page', web, x, toWeb, toWeb)
        BY <2>6, <3>3 DEF Accounts, Backs
      <3>5. web.created
        BY <2>2, <3>3, <1>AtWorkIsCreated
      <3> QED
        BY <2>3, <2>6, <3>1, <3>2, <3>3, <3>4, <3>5, <1>WebActs
    <2>7. CASE web.wait \in {"download", "use"} /\ WebBecomes(Web!GiveUp(web)) /\ Drop
      <3>1. PICK x : x = Web!GiveUp(web)
        OBVIOUS
      <3>2. GoesOn(web, x)
        BY <2>2, <3>1, OperationsGoOn
      <3>3. Accounts(page, page', web, x, toWeb, toWeb)
        BY <2>7 DEF Accounts, Drop
      <3>4. web.wait \notin {"goTo", "policy"} /\ web.wait # "no"
        BY <2>7
      <3>5. web.created
        BY <2>2, <3>4, <1>AtWorkIsCreated
      <3> QED
        BY <2>3, <2>7, <3>1, <3>2, <3>3, <3>4, <3>5, <1>WebActs
    <2>8. CASE /\ web.wait = "use"
               /\ WebBecomes(Web!StartProvisionalLoad(web)) /\ UNCHANGED page
      <3>1. PICK x : x = Web!StartProvisionalLoad(web)
        OBVIOUS
      <3>2. GoesOn(web, x) /\ Sent(x.out, Answers)
        BY <2>2, <2>8, <3>1, OperationsGoOn
      <3>3. Accounts(page, page', web, x, toWeb, toWeb)
        BY <2>8, <3>2 DEF Accounts
      <3>4. web.wait \notin {"goTo", "policy"} /\ web.wait # "no"
        BY <2>8
      <3>5. web.created
        BY <2>2, <3>4, <1>AtWorkIsCreated
      <3> QED
        BY <2>3, <2>8, <3>1, <3>2, <3>3, <3>4, <3>5, <1>WebActs
    <2> QED
      BY <2>4, <2>5, <2>6, <2>7, <2>8 DEF GoOn
  <1>LoadKeeps.
    ASSUME Good(page, web, alive, toWeb, toUI), Load
    PROVE  Good(page, web, alive, toWeb, toUI)' /\ SameButtons(page, page')
    <2> USE <1>LoadKeeps
    <2>1. alive /\ toWeb' = toWeb /\ page' = page /\ web.wait = "no"
      BY DEF Load, WebBecomes
    <2>2. /\ web \in Webs /\ Ready(web) /\ web.out = << >>
          /\ IDs(page, web, TRUE, toWeb, toUI)
      BY <2>1, <1>Working
    <2>3. web.wait \notin {"goTo", "policy"} /\ web.wait \notin Backed
      BY <2>1 DEF Backed
    <2>4. \A x : Accounts(page, page', web, x, toWeb, toWeb)
      BY <2>1, <2>3 DEF Accounts, Backs
    <2>5. CASE web.loader = "Provisional" /\ WebBecomes(Web!FailProvisionalLoad(web))
      <3>1. GoesOn(web, Web!FailProvisionalLoad(web))
        BY <2>2, OperationsGoOn
      <3>2. web.loader # "Finished"
        BY <2>5
      <3>3. web.created
        BY <2>2, <3>2, <1>AtWorkIsCreated
      <3> QED
        BY <2>1, <2>3, <2>4, <2>5, <3>1, <3>3, <1>WebActs
    <2>6. CASE web.loader = "Provisional" /\ WebBecomes(Web!CommitLoad(web))
      <3>1. GoesOn(web, Web!CommitLoad(web))
        BY <2>2, <2>6, OperationsGoOn
      <3>2. web.loader # "Finished"
        BY <2>6
      <3>3. web.created
        BY <2>2, <3>2, <1>AtWorkIsCreated
      <3> QED
        BY <2>1, <2>3, <2>4, <2>6, <3>1, <3>3, <1>WebActs
    <2>7. CASE /\ web.loader = "Committed"
               /\ \E how \in {"DidFinishLoad", "DidFailLoad"} :
                    WebBecomes(Web!FinishLoad(web, how))
      <3>1. PICK how \in {"DidFinishLoad", "DidFailLoad"} : WebBecomes(Web!FinishLoad(web, how))
        BY <2>7
      <3>2. GoesOn(web, Web!FinishLoad(web, how))
        BY <2>2, <2>7, OperationsGoOn
      <3>3. web.loader # "Finished"
        BY <2>7
      <3>4. web.created
        BY <2>2, <3>3, <1>AtWorkIsCreated
      <3> QED
        BY <2>1, <2>3, <2>4, <3>1, <3>2, <3>4, <1>WebActs
    <2> QED
      BY <2>5, <2>6, <2>7 DEF Load
  <1>PageActsKeeps.
    ASSUME Good(page, web, alive, toWeb, toUI), PageActs
    PROVE  Good(page, web, alive, toWeb, toUI)' /\ SameButtons(page, page')
    <2> USE <1>PageActsKeeps
    <2>1. alive /\ toWeb' = toWeb /\ page' = page /\ web.wait = "no" /\ web.document
      BY DEF PageActs, WebBecomes
    <2>2. /\ web \in Webs /\ Ready(web) /\ web.out = << >>
          /\ IDs(page, web, TRUE, toWeb, toUI)
      BY <2>1, <1>Working
    <2>3. web.wait \notin {"goTo", "policy"} /\ web.wait \notin Backed
      BY <2>1 DEF Backed
    <2>4. \A x : Accounts(page, page', web, x, toWeb, toWeb)
      BY <2>1, <2>3 DEF Accounts, Backs
    <2>5. web.created
      BY <2>1, <2>2, <1>AtWorkIsCreated
    <2>6. /\ GoesOn(web, Web!FollowLink(web)) /\ GoesOn(web, Web!PushState(web))
          /\ GoesOn(web, Web!Report(web, "BackForwardClear", 0))
      BY <2>2, OperationsGoOn
    <2>7. \E x : GoesOn(web, x) /\ WebBecomes(x)
      BY <2>6 DEF PageActs
    <2> QED
      BY <2>1, <2>3, <2>4, <2>5, <2>7, <1>WebActs
  <1>TaughtKeeps.
    ASSUME NEW p, NEW w, NEW tw, NEW tu, NEW x \in Webs,
           Good(p, w, TRUE, tw, tu), tw # << >>, Head(tw).type \notin Requests,
           Learns(w, x), IDs(p, x, TRUE, Tail(tw), tu)
    PROVE  Good(p, x, TRUE, Tail(tw), tu)
    <2> USE <1>TaughtKeeps
    <2>1. PICK u : u = Tail(tw)
      OBVIOUS
    <2>2. /\ Typed(p, w, TRUE, tw, tu) /\ Synced(p, w, TRUE, tw, tu)
          /\ Loads(p, w, TRUE, tu) /\ Evidence(p, w, TRUE, tw, tu)
          /\ tw \in Seq(WebMessages) /\ Buttons(p)
      BY DEF Good, Typed
    <2>3. u \in Seq(WebMessages)
      BY <2>1, <2>2, TailFacts
    <2>4. Typed(p, x, TRUE, u, tu)
      BY <2>2, <2>3 DEF Typed, Learns
    <2>5. Synced(p, x, TRUE, u, tu)
      BY <2>2 DEF Synced, Learns, Ready
    <2>6. Loads(p, x, TRUE, tu)
      BY <2>2 DEF Loads, Learns
    <2>7. Evidence(p, x, TRUE, u, tu)
      <3>1. Sent(tw, Requests) <=> Head(tw).type \in Requests \/ Sent(u, Requests)
        BY <2>1, <2>2, SentTail
      <3>2. Sent(tw, Requests \ {"StopLoading"}) <=>
              Head(tw).type \in Requests \ {"StopLoading"}
                \/ Sent(u, Requests \ {"StopLoading"})
        BY <2>1, <2>2, SentTail
      <3> QED
        BY <2>2, <3>1, <3>2 DEF Evidence, Learns
    <2> QED
      BY <2>1, <2>2, <2>4, <2>5, <2>6, <2>7 DEF Good
  <1>TeachingFacts.
    ASSUME NEW w \in Webs, w.out = << >>, NEW m \in WebMessages
    PROVE  /\ m.type = "CreateWebPage" =>
                LET x == Web!CreateWebPage(w, m)
                IN  /\ x \in Webs /\ Learns(w, x) /\ x.created = TRUE
                    /\ x.known = KnownAfter(w.known, m)
                    /\ Odd(w.uniqueHistoryItemID) =>
                         Odd(x.uniqueHistoryItemID) /\ m.highest <= x.uniqueHistoryItemID
           /\ m.type = "RestoreSession" =>
                LET x == Web!RestoreSession(w, m.items)
                IN  /\ x \in Webs /\ Learns(w, x) /\ x.created = w.created
                    /\ x.known = KnownAfter(w.known, m)
                    /\ x.uniqueHistoryItemID = w.uniqueHistoryItemID
           /\ m.type = "DidRemoveBackForwardItem" =>
                LET x == Web!RemoveItem(w, m.id)
                IN  /\ x \in Webs /\ Learns(w, x) /\ x.created = w.created
                    /\ x.known = KnownAfter(w.known, m)
                    /\ x.uniqueHistoryItemID = w.uniqueHistoryItemID
    <2> USE <1>TeachingFacts
    <2>1. w.known \in SUBSET Nat /\ w.uniqueHistoryItemID \in Nat
      BY DEF Webs
    <2>2. ASSUME m.type = "CreateWebPage"
          PROVE  LET x == Web!CreateWebPage(w, m)
                 IN  /\ x \in Webs /\ Learns(w, x) /\ x.created = TRUE
                     /\ x.known = KnownAfter(w.known, m)
                     /\ Odd(w.uniqueHistoryItemID) =>
                          Odd(x.uniqueHistoryItemID) /\ m.highest <= x.uniqueHistoryItemID
      <3>1. m.items \in SUBSET Nat /\ m.highest \in Nat
        BY <2>2 DEF WebMessages, Requests
      <3>2. PICK k : k = w.known \cup m.items
        OBVIOUS
      <3>3. PICK n : n = IF m.highest <= w.uniqueHistoryItemID THEN w.uniqueHistoryItemID
                         ELSE IF m.highest % 2 = 1 THEN m.highest ELSE m.highest + 1
        OBVIOUS
      <3>4. k \in SUBSET Nat /\ n \in Nat
        BY <2>1, <3>1, <3>2, <3>3, SMTT(30)
      <3>5. PICK x : x = Web!CreateWebPage(w, m)
        OBVIOUS
      <3>6. x = [w EXCEPT !.uniqueHistoryItemID = n, !.known = k, !.created = TRUE]
        BY <3>2, <3>3, <3>5 DEF Webs, Web!CreateWebPage, Web!RestoreSession,
           Web!SetHighestItemIDFromUIProcess
      <3>7. x \in Webs
        BY <3>4, <3>6 DEF Webs
      <3>8. Learns(w, x) /\ x.created = TRUE /\ x.known = k /\ x.uniqueHistoryItemID = n
        BY <3>6 DEF Webs, Learns
      <3>9. k = KnownAfter(w.known, m)
        BY <2>2, <3>2 DEF KnownAfter
      <3>10. Odd(w.uniqueHistoryItemID) => Odd(n) /\ m.highest <= n
        BY <2>1, <3>1, <3>3, SMTT(30) DEF Odd
      <3> QED
        BY <3>5, <3>7, <3>8, <3>9, <3>10
    <2>3. ASSUME m.type = "RestoreSession"
          PROVE  LET x == Web!RestoreSession(w, m.items)
                 IN  /\ x \in Webs /\ Learns(w, x) /\ x.created = w.created
                     /\ x.known = KnownAfter(w.known, m)
                     /\ x.uniqueHistoryItemID = w.uniqueHistoryItemID
      <3>1. m.items \in SUBSET Nat
        BY <2>3 DEF WebMessages, Requests
      <3>2. PICK k \in SUBSET Nat : k = w.known \cup m.items
        BY <2>1, <3>1
      <3>3. PICK x : x = Web!RestoreSession(w, m.items)
        OBVIOUS
      <3>4. x = [w EXCEPT !.known = k]
        BY <3>2, <3>3 DEF Webs, Web!RestoreSession
      <3>5. x \in Webs
        BY <3>4 DEF Webs
      <3>6. /\ Learns(w, x) /\ x.created = w.created /\ x.known = k
            /\ x.uniqueHistoryItemID = w.uniqueHistoryItemID
        BY <3>4 DEF Webs, Learns
      <3>7. k = KnownAfter(w.known, m)
        BY <2>3, <3>2 DEF KnownAfter
      <3> QED
        BY <3>3, <3>5, <3>6, <3>7
    <2>4. ASSUME m.type = "DidRemoveBackForwardItem"
          PROVE  LET x == Web!RemoveItem(w, m.id)
                 IN  /\ x \in Webs /\ Learns(w, x) /\ x.created = w.created
                     /\ x.known = KnownAfter(w.known, m)
                     /\ x.uniqueHistoryItemID = w.uniqueHistoryItemID
      <3>1. PICK k \in SUBSET Nat : k = w.known \ {m.id}
        BY <2>1
      <3>2. PICK x : x = Web!RemoveItem(w, m.id)
        OBVIOUS
      <3>3. x = [w EXCEPT !.known = k]
        BY <3>1, <3>2 DEF Webs, Web!RemoveItem
      <3>4. x \in Webs
        BY <3>3 DEF Webs
      <3>5. /\ Learns(w, x) /\ x.created = w.created /\ x.known = k
            /\ x.uniqueHistoryItemID = w.uniqueHistoryItemID
        BY <3>3 DEF Webs, Learns
      <3>6. k = KnownAfter(w.known, m)
        BY <2>4, <3>1 DEF KnownAfter
      <3> QED
        BY <3>2, <3>4, <3>5, <3>6
    <2> QED
      BY <2>2, <2>3, <2>4
  \* The message that is handled only teaches: x is what it makes of w.
  <1>TaughtStep.
    ASSUME Good(page, web, TRUE, toWeb, toUI), toWeb # << >>,
           Head(toWeb).type \notin Requests, ~Web!Ignores(web, Head(toWeb)),
           HandleMessage, NEW x \in Webs, WebBecomes(x), Learns(web, x),
           IDs(page, x, TRUE, Tail(toWeb), toUI)
    PROVE  Good(page', web', TRUE, toWeb', toUI') /\ SameButtons(page, page')
    <2> USE <1>TaughtStep
    <2>1. /\ web' = [x EXCEPT !.out = << >>] /\ toUI' = toUI \o x.out
          /\ toWeb' = Tail(toWeb) /\ page' = page
      BY DEF HandleMessage, WebBecomes
    <2>2. x.out = << >> /\ toUI \in Seq(UIMessages)
      BY DEF Learns, Good, Typed
    <2>3. web' = x
      BY <2>1, <2>2 DEF Webs
    <2>4. toUI' = toUI
      BY <2>1, <2>2, SMTT(30)
    <2>5. Good(page, x, TRUE, Tail(toWeb), toUI)
      BY <1>TaughtKeeps
    <2> QED
      BY <2>1, <2>3, <2>4, <2>5 DEF SameButtons
  <1>HandleRequestStep.
    ASSUME Good(page, web, TRUE, toWeb, toUI), HandleMessage,
           Head(toWeb).type \in Requests
    PROVE  Good(page', web', TRUE, toWeb', toUI') /\ SameButtons(page, page')
    <2> USE <1>HandleRequestStep
    <2>1. PICK m : m = Head(toWeb)
      OBVIOUS
    <2>2. PICK x : x = Web!HandleRequest(web, m)
      OBVIOUS
    <2>3. /\ m.type # "CreateWebPage" /\ m.type # "RestoreSession"
          /\ m.type # "DidRemoveBackForwardItem"
      BY <2>1 DEF Requests
    <2>4. WebBecomes(x)
      BY <2>1, <2>2, <2>3 DEF HandleMessage
    <2>5. /\ toWeb # << >> /\ web.wait = "no" /\ toWeb' = Tail(toWeb)
          /\ (IF Web!Ignores(web, m) THEN Drop ELSE UNCHANGED page)
      BY <2>1 DEF HandleMessage
    <2>6. /\ page \in Pages /\ web \in Webs /\ Ready(web) /\ web.out = << >>
          /\ toWeb \in Seq(WebMessages) /\ toUI \in Seq(UIMessages)
          /\ IDs(page, web, TRUE, toWeb, toUI)
      BY DEF Good, Typed, Synced
    <2>7. m \in WebMessages /\ m = toWeb[1] /\ toWeb' \in Seq(WebMessages)
      BY <2>1, <2>5, <2>6, TailFacts
    <2>8. web.created
      BY <2>3, <2>5, <2>6, <2>7, <1>AtWorkIsCreated
    <2>9. /\ GoesOn(web, x) /\ (x.handling \/ Sent(x.out, Done))
          /\ m.type # "StopLoading" /\ ~Web!Ignores(web, m) => Backs(x)
      BY <2>1, <2>2, <2>5, <2>6, <2>7, OperationsGoOn DEF Backs
    <2>10. IDs(page, web, TRUE, toWeb', toUI)
      <3>1. web.known = KnownAfter(web.known, m)
        BY <2>3 DEF KnownAfter
      <3>2. web.created = TRUE
        BY <2>6, <2>8 DEF Webs
      <3> QED
        BY <2>1, <2>5, <2>6, <3>1, <3>2, <1>IDsTaught
    <2>11. web.wait \notin {"goTo", "policy"} /\ web.wait \notin Backed
      BY <2>5 DEF Backed
    <2>12. Proceeds(web, x) /\ Delivers(x, web', toUI, toUI')
      BY <2>4, <2>8, <2>9, <2>11 DEF Proceeds, Delivers, WebBecomes
    <2>13. Accounts(page, page', web, x, toWeb, toWeb')
      <3>1. CASE Web!Ignores(web, m)
        BY <2>5, <2>9, <3>1 DEF Accounts, Drop
      <3>2. CASE ~Web!Ignores(web, m)
        <4>1. Sent(toWeb, Requests \ {"StopLoading"}) =>
                m.type \in Requests \ {"StopLoading"}
                  \/ Sent(toWeb', Requests \ {"StopLoading"})
          BY <2>1, <2>5, <2>6, SentTail
        <4> QED
          BY <2>5, <2>9, <2>11, <3>2, <4>1 DEF Accounts, Backs
      <3> QED
        BY <3>1, <3>2
    <2> QED
      BY <2>7, <2>10, <2>12, <2>13, WebStepKeeps
  <1>HandleMessageKeeps.
    ASSUME Good(page, web, alive, toWeb, toUI), HandleMessage
    PROVE  Good(page, web, alive, toWeb, toUI)' /\ SameButtons(page, page')
    <2> USE <1>HandleMessageKeeps
    <2>1. alive = TRUE /\ alive' = TRUE
      <3>1. alive \in BOOLEAN
        BY DEF Good, Typed
      <3>2. alive /\ alive' = alive
        BY DEF HandleMessage, WebBecomes
      <3> QED
        BY <3>1, <3>2
    <2>2. PICK m : m = Head(toWeb)
      OBVIOUS
    <2>3. Good(page, web, TRUE, toWeb, toUI) /\ toWeb # << >>
      BY <2>1 DEF HandleMessage
    <2>4. /\ page \in Pages /\ web \in Webs /\ web.out = << >>
          /\ toWeb \in Seq(WebMessages) /\ toUI \in Seq(UIMessages)
          /\ IDs(page, web, TRUE, toWeb, toUI)
      BY <2>3 DEF Good, Typed
    <2>5. m \in WebMessages /\ m = toWeb[1]
      BY <2>2, <2>3, <2>4, TailFacts
    <2>6. CASE m.type \in Requests
      BY <2>1, <2>2, <2>3, <2>6, <1>HandleRequestStep
    <2>7. CASE m.type = "CreateWebPage"
      <3>1. PICK x : x = Web!CreateWebPage(web, m)
        OBVIOUS
      <3>2. /\ x \in Webs /\ Learns(web, x) /\ x.created = TRUE
            /\ x.known = KnownAfter(web.known, m)
            /\ Odd(web.uniqueHistoryItemID) =>
                 Odd(x.uniqueHistoryItemID) /\ m.highest <= x.uniqueHistoryItemID
        BY <2>4, <2>5, <2>7, <3>1, <1>TeachingFacts
      <3>3. m.type \notin Requests /\ ~Web!Ignores(web, m)
        BY <2>7 DEF Requests, Web!Ignores
      <3>4. WebBecomes(x)
        BY <2>2, <2>7, <3>1 DEF HandleMessage
      <3>5. Odd(web.uniqueHistoryItemID) /\ InWeb(page, web, toWeb)
        BY <2>4 DEF IDs, Counted
      <3>6. 1 \in 1 .. Len(toWeb)
        BY <2>3, <2>4, SMTT(30)
      <3>7. ~web.created
        BY <2>5, <2>7, <3>5, <3>6 DEF InWeb
      <3>8. IDs(page, x, TRUE, Tail(toWeb), toUI)
        BY <2>2, <2>3, <2>4, <3>2, <3>5, <3>7, <1>IDsTaught
      <3> QED
        BY <2>1, <2>2, <2>3, <3>2, <3>3, <3>4, <3>8, <1>TaughtStep
    <2>8. CASE m.type = "RestoreSession"
      <3>1. PICK x : x = Web!RestoreSession(web, m.items)
        OBVIOUS
      <3>2. m.type # "CreateWebPage" /\ m.type \notin Requests /\ ~Web!Ignores(web, m)
        BY <2>8 DEF Requests, Web!Ignores
      <3>3. web.created
        BY <2>3, <2>4, <2>5, <3>2, <1>AtWorkIsCreated
      <3>4. /\ x \in Webs /\ Learns(web, x) /\ x.created = web.created
            /\ x.known = KnownAfter(web.known, m)
            /\ x.uniqueHistoryItemID = web.uniqueHistoryItemID
        BY <2>4, <2>5, <2>8, <3>1, <1>TeachingFacts
      <3>5. x.created = TRUE
        BY <2>4, <3>3, <3>4 DEF Webs
      <3>6. WebBecomes(x)
        BY <2>2, <2>8, <3>1, <3>2 DEF HandleMessage
      <3>7. IDs(page, x, TRUE, Tail(toWeb), toUI)
        BY <2>2, <2>3, <2>4, <3>3, <3>4, <3>5, <1>IDsTaught
      <3> QED
        BY <2>1, <2>2, <2>3, <3>2, <3>4, <3>6, <3>7, <1>TaughtStep
    <2>9. CASE m.type = "DidRemoveBackForwardItem"
      <3>1. PICK x : x = Web!RemoveItem(web, m.id)
        OBVIOUS
      <3>2. /\ m.type # "CreateWebPage" /\ m.type # "RestoreSession"
            /\ m.type \notin Requests /\ ~Web!Ignores(web, m)
        BY <2>9 DEF Requests, Web!Ignores
      <3>3. web.created
        BY <2>3, <2>4, <2>5, <3>2, <1>AtWorkIsCreated
      <3>4. /\ x \in Webs /\ Learns(web, x) /\ x.created = web.created
            /\ x.known = KnownAfter(web.known, m)
            /\ x.uniqueHistoryItemID = web.uniqueHistoryItemID
        BY <2>4, <2>5, <2>9, <3>1, <1>TeachingFacts
      <3>5. x.created = TRUE
        BY <2>4, <3>3, <3>4 DEF Webs
      <3>6. WebBecomes(x)
        BY <2>2, <2>9, <3>1, <3>2 DEF HandleMessage
      <3>7. IDs(page, x, TRUE, Tail(toWeb), toUI)
        BY <2>2, <2>3, <2>4, <3>3, <3>4, <3>5, <1>IDsTaught
      <3> QED
        BY <2>1, <2>2, <2>3, <3>2, <3>4, <3>6, <3>7, <1>TaughtStep
    <2>10. \/ m.type \in Requests \/ m.type = "CreateWebPage" \/ m.type = "RestoreSession"
           \/ m.type = "DidRemoveBackForwardItem"
      BY <2>5 DEF WebMessages
    <2> QED
      BY <2>6, <2>7, <2>8, <2>9, <2>10
  <1> QED
    BY <1>HandleMessageKeeps, <1>GoOnKeeps, <1>LoadKeeps, <1>PageActsKeeps

-----------------------------------------------------------------------------
(* The list of a page.                                                     *)

LEMMA ListHelpers ==
  /\ \A e, c, i, k : List!EntriesAfterAdd(e, c, i, k) = EntriesAfterAdd(e, c, i, k)
  /\ \A e, c, i, k : List!EntriesAfterGoTo(e, c, i, k) = EntriesAfterGoTo(e, c, i, k)
  /\ \A e, c : List!EntriesAfterClear(e, c) = EntriesAfterClear(e, c)
  /\ \A e, i : List!IsListed(e, i) <=> IsListed(e, i)
  /\ \A e, c, i : List!CanGoTo(e, c, i) <=> CanGoTo(e, c, i)
  /\ \A e, i : List!IndexOf(e, i) = IndexOf(e, i)
  /\ \A e : List!Range(e) = Range(e)
  <1>1. \A e, c : List!KeptByAdd(e, c) = KeptByAdd(e, c)
    BY DEF List!KeptByAdd, KeptByAdd, List!TossesFirst, TossesFirst
  <1>2. \A e, c, i, k : List!EntriesAfterAdd(e, c, i, k) = EntriesAfterAdd(e, c, i, k)
    BY <1>1 DEF List!EntriesAfterAdd, EntriesAfterAdd
  <1>3. \A e, c, i, k : List!EntriesAfterGoTo(e, c, i, k) = EntriesAfterGoTo(e, c, i, k)
    BY DEF List!EntriesAfterGoTo, EntriesAfterGoTo, List!RemoveEntry, RemoveEntry
  <1>4. \A e, c : List!EntriesAfterClear(e, c) = EntriesAfterClear(e, c)
    BY DEF List!EntriesAfterClear, EntriesAfterClear
  <1>5. \A e, i : List!IsListed(e, i) <=> IsListed(e, i)
    BY DEF List!IsListed, IsListed
  <1>6. \A e, c, i : List!CanGoTo(e, c, i) <=> CanGoTo(e, c, i)
    BY <1>5 DEF List!CanGoTo, CanGoTo
  <1>7. \A e, i : List!IndexOf(e, i) = IndexOf(e, i)
    BY DEF List!IndexOf, IndexOf
  <1>8. \A e : List!Range(e) = Range(e)
    BY DEF List!Range, Range
  <1> QED
    BY <1>2, <1>3, <1>4, <1>5, <1>6, <1>7, <1>8

LEMMA ListIsList ==
  /\ List!ListOK <=> IsList(page.entries, page.cur, Nat \ {0, 1})
  /\ List!ListOK' <=> IsList(page'.entries, page'.cur, Nat \ {0, 1})
  BY DEF List!ListOK, IsList, Distinct

LEMMA IDsAreNumbers ==
  ASSUME NEW s \in Seq(Nat \ {0, 1})
  PROVE  s \in Seq(Nat)
  <1>1. s \in [1 .. Len(s) -> Nat] /\ Len(s) \in Nat
    BY SMTT(30)
  <1> QED
    BY <1>1, SMTT(30)

LEMMA ListOKKept ==
  ASSUME List!ListOK, [List!Next]_(List!vars)
  PROVE  List!ListOK'
  <1>1. PICK e : e = page.entries
    OBVIOUS
  <1>2. PICK c : c = page.cur
    OBVIOUS
  <1>3. PICK f : f = page'.entries
    OBVIOUS
  <1>4. PICK k : k = page'.cur
    OBVIOUS
  <1>5. PICK I : I = Nat \ {0, 1}
    OBVIOUS
  <1>6. IsList(e, c, I)
    BY <1>1, <1>2, <1>5, ListIsList
  <1>7. SUFFICES IsList(f, k, I)
    BY <1>3, <1>4, <1>5, ListIsList
  <1>8. CASE List!AddItem
    <2>1. PICK item \in I, keep \in BOOLEAN :
            ~IsListed(e, item) /\ f = EntriesAfterAdd(e, c, item, keep) /\ k = Len(f)
      BY <1>1, <1>2, <1>3, <1>4, <1>5, <1>8, ListHelpers DEF List!AddItem
    <2> QED
      BY <1>6, <2>1, AddIsList
  <1>9. CASE List!GoToItem
    <2>1. PICK item, keep : /\ keep \in BOOLEAN /\ CanGoTo(e, c, item)
                            /\ f = EntriesAfterGoTo(e, c, item, keep)
                            /\ k = IndexOf(f, item)
      BY <1>1, <1>2, <1>3, <1>4, <1>9, ListHelpers DEF List!GoToItem
    <2> QED
      BY <1>6, <2>1, GoToIsList
  <1>10. CASE List!Clear
    <2>1. f = EntriesAfterClear(e, c) /\ k = Len(f)
      BY <1>1, <1>2, <1>3, <1>4, <1>10, ListHelpers DEF List!Clear
    <2> QED
      BY <1>6, <2>1, ClearIsList
  <1>11. CASE List!RemoveAllItems
    <2>1. f = << >> /\ k = 0
      BY <1>3, <1>4, <1>11 DEF List!RemoveAllItems
    <2> QED
      BY <2>1, EmptyIsList
  <1>12. CASE List!RestoreFromState
    <2>1. PICK n \in 1 .. Capacity : f \in [1 .. n -> I]
      BY <1>3, <1>5, <1>12 DEF List!RestoreFromState
    <2>2. Distinct(f) /\ k \in 1 .. Len(f)
      BY <1>3, <1>4, <1>12 DEF List!RestoreFromState, Distinct
    <2> QED
      BY <2>1, <2>2, RestoredIsList
  <1>13. CASE UNCHANGED List!vars
    <2>1. f = e /\ k = c
      BY <1>1, <1>2, <1>3, <1>4, <1>13 DEF List!vars
    <2> QED
      BY <1>6, <2>1
  <1> QED
    BY <1>8, <1>9, <1>10, <1>11, <1>12, <1>13 DEF List!Next

\* Facts about the list that hold as long as it is one.
LEMMA ListFacts ==
  ASSUME List!ListOK
  PROVE  /\ page.entries \in Seq(Nat) /\ page.entries \in Seq(Nat \ {0, 1})
         /\ Len(page.entries) \in Nat /\ page.cur \in Nat
         /\ page.cur # 0 => page.cur \in 1 .. Len(page.entries)
         /\ page.cur = 0 => page.entries = << >>
         /\ Range(page.entries) \subseteq Nat \ {0, 1}
         /\ \A i \in 1 .. Len(page.entries) : page.entries[i] \in Range(page.entries)
         /\ \A x \in Range(page.entries) : IsListed(page.entries, x)
         /\ \A x : IsListed(page.entries, x) => x \in Range(page.entries)
  <1>1. page.entries \in Seq(Nat \ {0, 1})
    BY DEF List!ListOK
  <1>2. PICK e : e = page.entries
    OBVIOUS
  <1>3. e \in Seq(Nat \ {0, 1}) /\ DOMAIN e = 1 .. Len(e) /\ Len(e) \in Nat
    BY <1>1, <1>2, SMTT(30)
  <1>4. e \in [1 .. Len(e) -> Nat] /\ \A i \in 1 .. Len(e) : e[i] \in Nat \ {0, 1}
    BY <1>3, SMTT(30)
  <1>5. e \in Seq(Nat)
    BY <1>3, <1>4, SMTT(30)
  <1>6. \A x : x \in Range(e) <=> \E i \in 1 .. Len(e) : e[i] = x
    BY <1>3 DEF Range
  <1>7. e # << >> => 1 <= Len(e)
    BY <1>5, SeqFacts, SMTT(30)
  <1>8. page.cur \in (IF e = << >> THEN {0} ELSE 1 .. Len(e))
    BY <1>2 DEF List!ListOK
  <1>9. /\ page.cur \in Nat /\ (page.cur # 0 => page.cur \in 1 .. Len(e))
        /\ (page.cur = 0 => e = << >>)
    BY <1>3, <1>8, SMTT(30)
  <1> QED
    BY <1>2, <1>3, <1>4, <1>5, <1>6, <1>9, SMTT(30) DEF IsListed

LEMMA AddIsListStep ==
  ASSUME List!ListOK, NEW item \in Nat \ {0, 1}, NEW keep \in BOOLEAN,
         ~IsListed(page.entries, item),
         page'.entries = EntriesAfterAdd(page.entries, page.cur, item, keep),
         page'.cur = Len(page'.entries)
  PROVE  List!Next
  <1>1. item \in Range(page'.entries)
    <2>1. PICK I : I = Nat \ {0, 1}
      OBVIOUS
    <2>2. IsList(page.entries, page.cur, I)
      BY <2>1, ListIsList
    <2> QED
      BY <2>2, AddTells, SMTT(30)
  <1>2. List!AddItem
    BY <1>1, ListHelpers DEF List!AddItem
  <1> QED
    BY <1>2 DEF List!Next

LEMMA GoToIsListStep ==
  ASSUME List!ListOK, NEW item, NEW keep \in BOOLEAN,
         CanGoTo(page.entries, page.cur, item),
         page'.entries = EntriesAfterGoTo(page.entries, page.cur, item, keep),
         page'.cur = IndexOf(page'.entries, item)
  PROVE  List!Next
  <1>1. item \in Range(page.entries)
    BY ListFacts DEF CanGoTo
  <1>2. List!GoToItem
    BY <1>1, ListHelpers DEF List!GoToItem
  <1> QED
    BY <1>2 DEF List!Next

LEMMA ClearIsListStep ==
  ASSUME List!ListOK, ~(Len(page.entries) <= 1),
         page'.entries = EntriesAfterClear(page.entries, page.cur), page'.cur = 1
  PROVE  List!Next
  <1>1. Len(page'.entries) = 1
    <2>1. IsList(page.entries, page.cur, Nat \ {0, 1})
      BY ListIsList
    <2>2. Len(EntriesAfterClear(page.entries, page.cur)) = 1
      BY <2>1, ClearTells, SMTT(30)
    <2> QED
      BY <2>2
  <1>2. List!Clear
    BY <1>1, ListHelpers DEF List!Clear
  <1> QED
    BY <1>2 DEF List!Next

LEMMA RestoreIsListStep ==
  ASSUME NEW last \in Nat, NEW n \in 1 .. Capacity, NEW i \in 1 .. n,
         page'.entries = [k \in 1 .. n |-> last + 2 * k], page'.cur = i
  PROVE  List!Next
  <1>1. n \in Nat
    BY CapacityAssumption, SMTT(30)
  <1>2. PICK e : e = [k \in 1 .. n |-> last + 2 * k]
    OBVIOUS
  <1>3. \A k \in 1 .. n : last + 2 * k \in Nat \ {0, 1}
    BY <1>1, SMTT(30)
  <1>4. e \in [1 .. n -> Nat \ {0, 1}]
    BY <1>2, <1>3
  <1>5. \A j, k \in 1 .. n : e[j] = e[k] => j = k
    BY <1>1, <1>2, SMTT(30)
  <1>6. Len(e) = n
    BY <1>1, <1>4, SMTT(30)
  <1>7. page'.entries = e
    BY <1>2
  <1>8. List!RestoreFromState
    BY <1>4, <1>5, <1>6, <1>7 DEF List!RestoreFromState
  <1> QED
    BY <1>8 DEF List!Next

LEMMA AddToPage ==
  ASSUME List!ListOK, NEW item \in Nat, NEW keep \in BOOLEAN
  PROVE  /\ RemovedByAdd(page.entries, page.cur) \in Seq(Nat)
         /\ Range(RemovedByAdd(page.entries, page.cur)) \subseteq Range(page.entries)
         /\ KeptByAdd(page.entries, page.cur) \in Seq(Nat)
         /\ Range(KeptByAdd(page.entries, page.cur))
              \subseteq Range(page.entries) \ Range(RemovedByAdd(page.entries, page.cur))
         /\ EntriesAfterAdd(page.entries, page.cur, item, keep) \in Seq(Nat)
         /\ Range(EntriesAfterAdd(page.entries, page.cur, item, keep))
              \subseteq Range(KeptByAdd(page.entries, page.cur)) \cup {item}
  <1>2. /\ RemovedByAdd(page.entries, page.cur) \in Seq(Nat \ {0, 1})
        /\ Range(RemovedByAdd(page.entries, page.cur)) \subseteq Range(page.entries)
        /\ KeptByAdd(page.entries, page.cur) \in Seq(Nat \ {0, 1})
        /\ Range(KeptByAdd(page.entries, page.cur))
              \subseteq Range(page.entries) \ Range(RemovedByAdd(page.entries, page.cur))
        /\ Range(EntriesAfterAdd(page.entries, page.cur, item, keep))
              \subseteq Range(KeptByAdd(page.entries, page.cur)) \cup {item}
    <2>1. IsList(page.entries, page.cur, Nat \ {0, 1})
      BY ListIsList
    <2> QED
      BY <2>1, AddTells, SMTT(30)
  <1>4. PICK kept : kept = KeptByAdd(page.entries, page.cur)
    OBVIOUS
  <1>5. kept \in Seq(Nat)
    BY <1>2, <1>4, IDsAreNumbers
  <1>6. EntriesAfterAdd(page.entries, page.cur, item, keep) \in Seq(Nat)
    <2>1. EntriesAfterAdd(page.entries, page.cur, item, keep)
            = IF keep \/ kept = << >> THEN Append(kept, item)
              ELSE Append(SubSeq(kept, 1, Len(kept) - 1), item)
      BY <1>4 DEF EntriesAfterAdd
    <2>2. kept # << >> => SubSeq(kept, 1, Len(kept) - 1) \in Seq(Nat)
      <3>1. \A i \in 1 .. Len(kept) - 1 : i \in 1 .. Len(kept) /\ kept[i] \in Nat
        BY <1>5, SMTT(30)
      <3> QED
        BY <1>5, <3>1, SMTT(30)
    <2> QED
      BY <1>5, <2>1, <2>2, SMTT(30)
  <1> QED
    BY <1>2, <1>4, <1>5, <1>6, IDsAreNumbers

LEMMA GoToOnPage ==
  ASSUME List!ListOK, NEW item, NEW keep \in BOOLEAN,
         CanGoTo(page.entries, page.cur, item),
         NEW e, e = EntriesAfterGoTo(page.entries, page.cur, item, keep)
  PROVE  /\ e \in Seq(Nat) /\ Range(e) \subseteq Range(page.entries)
         /\ IndexOf(e, item) \in 1 .. Len(e) /\ item \in Range(e)
  <1>1. PICK k : k = IndexOf(e, item)
    OBVIOUS
  <1>2. IsList(e, k, Nat \ {0, 1}) /\ k \in 1 .. Len(e) /\ e[k] = item
    <2>1. IsList(page.entries, page.cur, Nat \ {0, 1})
      BY ListIsList
    <2> QED
      BY <1>1, <2>1, GoToIsList, SMTT(30)
  <1>3. Range(e) \subseteq Range(page.entries)
    <2>1. IsList(page.entries, page.cur, Nat \ {0, 1})
      BY ListIsList
    <2> QED
      BY <2>1, GoToKeeps
  <1>4. e \in Seq(Nat \ {0, 1}) /\ e \in Seq(Nat)
    BY <1>2, IDsAreNumbers DEF IsList
  <1>5. DOMAIN e = 1 .. Len(e)
    BY <1>4, SMTT(30)
  <1>6. item \in Range(e)
    BY <1>2, <1>5 DEF Range
  <1> QED
    BY <1>1, <1>2, <1>3, <1>4, <1>6

LEMMA ClearOnPage ==
  ASSUME List!ListOK, ~(Len(page.entries) <= 1)
  PROVE  /\ RemoveEntry(page.entries, page.cur) \in Seq(Nat)
         /\ Range(RemoveEntry(page.entries, page.cur)) \subseteq Range(page.entries)
         /\ EntriesAfterClear(page.entries, page.cur) \in Seq(Nat)
         /\ Range(EntriesAfterClear(page.entries, page.cur))
              \subseteq Range(page.entries) \ Range(RemoveEntry(page.entries, page.cur))
  <1>1. /\ RemoveEntry(page.entries, page.cur) \in Seq(Nat \ {0, 1})
        /\ Range(RemoveEntry(page.entries, page.cur)) \subseteq Range(page.entries)
        /\ Range(EntriesAfterClear(page.entries, page.cur))
             \subseteq Range(page.entries) \ Range(RemoveEntry(page.entries, page.cur))
    <2>1. IsList(page.entries, page.cur, Nat \ {0, 1})
      BY ListIsList
    <2> QED
      BY <2>1, ClearTells
  <1>2. EntriesAfterClear(page.entries, page.cur) \in Seq(Nat \ {0, 1})
    <2>1. IsList(page.entries, page.cur, Nat \ {0, 1})
      BY ListIsList
    <2>2. PICK k : k = Len(EntriesAfterClear(page.entries, page.cur))
      OBVIOUS
    <2>3. IsList(EntriesAfterClear(page.entries, page.cur), k, Nat \ {0, 1})
      BY <2>1, <2>2, ClearIsList
    <2> QED
      BY <2>3 DEF IsList
  <1> QED
    BY <1>1, <1>2, IDsAreNumbers

-----------------------------------------------------------------------------
(* The end of a web process, and one that does not answer.                 *)

\* The web process crashes, is terminated, is found to have crashed, or is
\* late with an answer.
LEMMA LossKeeps ==
  Good(page, web, alive, toWeb, toUI)
  /\ (Crash \/ TerminateProcess \/ ProcessDidCrash \/ ResponsivenessTimerFired)
    => Good(page, web, alive, toWeb, toUI)' /\ SameButtons(page, page')
  \* The web process is gone; what it sent may still be handled.
  <1>IDsCrash.
    ASSUME NEW p \in Pages, NEW w, NEW a, NEW tw, NEW tu \in Seq(UIMessages),
           IDs(p, w, a, tw, tu)
    PROVE  IDs(p, Web!NewWebProcess, FALSE, << >>, tu)
    <2> USE <1>IDsCrash
    <2>1. Odd(Web!NewWebProcess.uniqueHistoryItemID)
      BY NewWebProcessFacts, ParityFacts
    <2>2. \A i \in 1 .. Len(<< >>) : FALSE
      BY SMTT(30)
    <2>3. Counted(p, Web!NewWebProcess, FALSE, << >>, tu)
      BY <2>1 DEF IDs, Counted
    <2>4. InWeb(p, Web!NewWebProcess, << >>) /\ Known(p, Web!NewWebProcess, FALSE, << >>, tu)
      BY <2>2 DEF InWeb, Known
    <2>5. InUI(p, Web!NewWebProcess, FALSE, << >>, tu)
      BY <2>2 DEF IDs, InUI
    <2> QED
      BY <2>3, <2>4, <2>5 DEF IDs
  <1>IDsGone.
    ASSUME NEW p, NEW w, NEW tw, NEW tu, IDs(p, w, FALSE, tw, tu)
    PROVE  IDs(p, w, FALSE, tw, << >>)
    BY <1>IDsGone, SMTT(30) DEF IDs, Counted, InWeb, InUI, Known
  <1>CrashKeeps.
    ASSUME Good(page, web, alive, toWeb, toUI), Crash
    PROVE  Good(page, web, alive, toWeb, toUI)' /\ SameButtons(page, page')
    <2> USE <1>CrashKeeps
    <2>1. /\ alive /\ alive' = FALSE /\ web' = Web!NewWebProcess /\ toWeb' = << >>
          /\ page' = page /\ toUI' = toUI
      BY DEF Crash
    <2>2. /\ page \in Pages /\ page.out = << >> /\ page.fresh = FALSE
          /\ toUI \in Seq(UIMessages) /\ IDs(page, web, alive, toWeb, toUI)
          /\ Synced(page, web, alive, toWeb, toUI) /\ Loads(page, web, alive, toUI)
          /\ Buttons(page)
      BY DEF Good, Typed
    <2>3. << >> \in Seq(WebMessages) /\ FALSE \in BOOLEAN
      BY SMTT(30)
    <2>4. Typed(page, Web!NewWebProcess, FALSE, << >>, toUI)
      BY <2>2, <2>3, NewWebProcessFacts DEF Typed
    <2>5. Synced(page, Web!NewWebProcess, FALSE, << >>, toUI)
      BY <2>1, <2>2, NewWebProcessFacts DEF Synced
    <2>6. Loads(page, Web!NewWebProcess, FALSE, toUI)
      BY <2>2 DEF Loads
    <2>7. Evidence(page, Web!NewWebProcess, FALSE, << >>, toUI)
      BY DEF Evidence
    <2>8. IDs(page, Web!NewWebProcess, FALSE, << >>, toUI)
      BY <2>2, <1>IDsCrash
    <2>9. Good(page', web', alive', toWeb', toUI')
      BY <2>1, <2>2, <2>4, <2>5, <2>6, <2>7, <2>8 DEF Good
    <2> QED
      BY <2>1, <2>9 DEF SameButtons
  <1>ResetFacts.
    ASSUME NEW p \in Pages, NEW q, q = ResetStateAfterProcessExited(p)
    PROVE  /\ q \in Pages /\ q.out = p.out /\ q.fresh = p.fresh /\ q.pending = 0
           /\ q.state = "Finished" /\ SameIDs(p, q) /\ SameButtons(p, q)
    <2> USE <1>ResetFacts
    <2>1. q = [p EXCEPT !.valid = FALSE, !.pending = 0, !.state = "Finished",
                        !.timer = FALSE]
      BY DEF ResetStateAfterProcessExited
    <2>2. q \in Pages
      <3>1. PICK s \in States : s = "Finished"
        BY DEF States
      <3>2. PICK f \in BOOLEAN, n \in Nat : f = FALSE /\ n = 0
        OBVIOUS
      <3>3. q = [p EXCEPT !.valid = f, !.pending = n, !.state = s, !.timer = f]
        BY <2>1, <3>1, <3>2
      <3> QED
        BY <3>3 DEF Pages
    <2>3. /\ q.out = p.out /\ q.fresh = p.fresh /\ q.pending = 0 /\ q.state = "Finished"
      BY <2>1 DEF Pages
    <2>4. SameIDs(p, q)
      BY <2>1 DEF Pages, SameIDs
    <2>5. SameButtons(p, q)
      BY <2>1 DEF Pages, SameButtons
    <2> QED
      BY <2>2, <2>3, <2>4, <2>5
  \* A process has ended, and nothing is left that came from it.
  <1>GoneKeeps.
    ASSUME NEW p, NEW w, NEW a, NEW tw, NEW tu, Good(p, w, a, tw, tu),
           NEW q, q = ResetStateAfterProcessExited(p)
    PROVE  Good(q, Web!NewWebProcess, FALSE, << >>, << >>) /\ SameButtons(p, q)
    <2> USE <1>GoneKeeps
    <2>1. p \in Pages /\ p.out = << >> /\ p.fresh = FALSE /\ tu \in Seq(UIMessages)
          /\ IDs(p, w, a, tw, tu) /\ Buttons(p)
      BY DEF Good, Typed
    <2>2. /\ q \in Pages /\ q.out = << >> /\ q.fresh = FALSE /\ q.pending = 0
          /\ q.state = "Finished" /\ SameIDs(p, q) /\ SameButtons(p, q)
      BY <2>1, <1>ResetFacts
    <2>3. << >> \in Seq(WebMessages) /\ << >> \in Seq(UIMessages) /\ FALSE \in BOOLEAN
      BY SMTT(30)
    <2>4. Typed(q, Web!NewWebProcess, FALSE, << >>, << >>)
      BY <2>2, <2>3, NewWebProcessFacts DEF Typed
    <2>5. Synced(q, Web!NewWebProcess, FALSE, << >>, << >>)
      BY <2>2, NewWebProcessFacts DEF Synced
    <2>6. Loads(q, Web!NewWebProcess, FALSE, << >>)
      BY <2>2, ToldNothing DEF Loads, States
    <2>7. Evidence(q, Web!NewWebProcess, FALSE, << >>, << >>)
      BY DEF Evidence
    <2>8. IDs(p, Web!NewWebProcess, FALSE, << >>, tu)
      BY <2>1, <1>IDsCrash
    <2>9. IDs(p, Web!NewWebProcess, FALSE, << >>, << >>)
      BY <2>8, <1>IDsGone
    <2>10. IDs(q, Web!NewWebProcess, FALSE, << >>, << >>)
      BY <2>2, <2>9, IDsSame
    <2>11. Buttons(q)
      BY <2>1, <2>2 DEF Buttons, SameButtons
    <2> QED
      BY <2>2, <2>4, <2>5, <2>6, <2>7, <2>10, <2>11 DEF Good
  <1>TerminateProcessKeeps.
    ASSUME Good(page, web, alive, toWeb, toUI), TerminateProcess
    PROVE  Good(page, web, alive, toWeb, toUI)' /\ SameButtons(page, page')
    <2> USE <1>TerminateProcessKeeps
    <2>1. /\ page' = ResetStateAfterProcessExited(page)
          /\ alive' = FALSE /\ web' = Web!NewWebProcess /\ toWeb' = << >> /\ toUI' = << >>
      BY DEF TerminateProcess
    <2> QED
      BY <2>1, <1>GoneKeeps
  <1>ProcessDidCrashKeeps.
    ASSUME Good(page, web, alive, toWeb, toUI), ProcessDidCrash
    PROVE  Good(page, web, alive, toWeb, toUI)' /\ SameButtons(page, page')
    <2> USE <1>ProcessDidCrashKeeps
    <2>1. /\ page' = ResetStateAfterProcessExited(page) /\ toUI = << >> /\ ~alive
          /\ web' = web /\ alive' = alive /\ toWeb' = toWeb /\ toUI' = toUI
      BY DEF ProcessDidCrash
    <2>2. web = Web!NewWebProcess /\ alive = FALSE /\ toWeb = << >>
      BY <2>1 DEF Good, Typed, Synced
    <2> QED
      BY <2>1, <2>2, <1>GoneKeeps
  <1>ResponsivenessTimerFiredKeeps.
    ASSUME Good(page, web, alive, toWeb, toUI), ResponsivenessTimerFired
    PROVE  Good(page, web, alive, toWeb, toUI)' /\ SameButtons(page, page')
    <2> USE <1>ResponsivenessTimerFiredKeeps
    <2>1. PICK q : q = page'
      OBVIOUS
    <2>2. /\ q = [page EXCEPT !.timer = FALSE, !.responsive = FALSE] /\ page.timer
          /\ web' = web /\ alive' = alive /\ toWeb' = toWeb /\ toUI' = toUI
      BY <2>1 DEF ResponsivenessTimerFired, TimerFired
    <2>3. /\ Typed(page, web, alive, toWeb, toUI) /\ page \in Pages
          /\ page.out = << >> /\ page.fresh = FALSE
          /\ IDs(page, web, alive, toWeb, toUI) /\ Evidence(page, web, alive, toWeb, toUI)
          /\ Synced(page, web, alive, toWeb, toUI) /\ Loads(page, web, alive, toUI)
          /\ Buttons(page)
      BY DEF Good, Typed
    <2>4. q \in Pages
      BY <2>2, <2>3 DEF Pages
    <2>5. /\ q.out = << >> /\ q.fresh = FALSE /\ q.valid = page.valid
          /\ q.state = page.state /\ q.pending = page.pending /\ q.dropped = page.dropped
      BY <2>2, <2>3 DEF Pages
    <2>6. SameIDs(page, q)
      BY <2>2, <2>3 DEF Pages, SameIDs
    <2>7. SameButtons(page, q)
      BY <2>2, <2>3 DEF Pages, SameButtons
    <2>8. Typed(q, web, alive, toWeb, toUI)
      BY <2>3, <2>4, <2>5 DEF Typed
    <2>9. Synced(q, web, alive, toWeb, toUI) /\ Loads(q, web, alive, toUI)
      BY <2>3, <2>5 DEF Synced, Loads
    <2>10. Evidence(q, web, alive, toWeb, toUI)
      BY <2>2, <2>3, <2>5 DEF Evidence
    <2>11. IDs(q, web, alive, toWeb, toUI)
      BY <2>3, <2>6, IDsSame
    <2>12. Buttons(q)
      BY <2>3, <2>7 DEF Buttons, SameButtons
    <2>13. Good(q, web, alive, toWeb, toUI)
      BY <2>8, <2>9, <2>10, <2>11, <2>12 DEF Good
    <2> QED
      BY <2>1, <2>2, <2>7, <2>13
  <1> QED
    BY <1>CrashKeeps, <1>TerminateProcessKeeps, <1>ProcessDidCrashKeeps,
       <1>ResponsivenessTimerFiredKeeps

=============================================================================
