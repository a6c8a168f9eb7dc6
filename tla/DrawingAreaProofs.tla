-------------------------- MODULE DrawingAreaProofs --------------------------
(***************************************************************************)
(* Proofs about DrawingArea: how the web process schedules its drawing,    *)
(* that messages are handled in the state they belong to, and that neither *)
(* process waits for the other in vain.                                    *)
(***************************************************************************)
EXTENDS DrawingArea, Functions, SequenceTheorems, WellFoundedInduction, TLAPS

\* Zenon is the prover of a step that does not name another.
USE ZenonT(60)

-----------------------------------------------------------------------------
(* Facts about the messages and the queues that both processes need.       *)

Drawn == [size : Nat, area : Areas]

Reports ==
  [type : {"Update", "EnterAcceleratedCompositingMode",
           "ExitAcceleratedCompositingMode", "DidUpdateBackingStoreState"},
   id : Nat, info : Drawn, context : BOOLEAN]

LEMMA ReportIDs ==
  ASSUME NEW q \in Seq(Reports)
  PROVE  /\ Len(q) \in Nat
         /\ \A i \in 1 .. Len(q) : q[i] \in Reports /\ q[i].id \in Nat
  <1>1. \A m \in Reports : m.id \in Nat
    BY DEF Reports
  <1> QED
    BY <1>1, SMTT(30)

LEMMA AppendReport ==
  ASSUME NEW q \in Seq(Reports), NEW m \in Reports, NEW r, r = Append(q, m)
  PROVE  /\ r \in Seq(Reports) /\ Len(r) = Len(q) + 1
         /\ \A i \in 1 .. Len(q) : r[i] = q[i]
         /\ r[Len(q) + 1] = m
BY SMTT(30)

LEMMA ConcatFacts ==
  ASSUME NEW a \in Seq(Reports), NEW b \in Seq(Reports)
  PROVE  /\ a \o b \in Seq(Reports) /\ Len(a \o b) = Len(a) + Len(b)
         /\ Len(a) \in Nat /\ Len(b) \in Nat
         /\ \A i \in 1 .. Len(a) + Len(b) :
              (a \o b)[i] = IF i <= Len(a) THEN a[i] ELSE b[i - Len(a)]
BY SMTT(30)

Asks ==
  [type : {"UpdateBackingStoreState"}, id : Nat, respond : BOOLEAN, size : Nat]

Orders == Asks \cup [type : {"DidUpdate"}]

IsAsk(m) == m.type = "UpdateBackingStoreState"

LEMMA OrderFacts ==
  ASSUME NEW m \in Orders
  PROVE  /\ IsAsk(m) => /\ m \in Asks /\ m.id \in Nat /\ m.size \in Nat
                        /\ m.respond \in BOOLEAN /\ m.type # "DidUpdate"
         /\ ~IsAsk(m) => m.type = "DidUpdate"
BY DEF Orders, Asks, IsAsk

LEMMA RangeFacts ==
  ASSUME NEW S, NEW q \in Seq(S)
  PROVE  /\ Range(q) = {q[i] : i \in 1 .. Len(q)}
         /\ \A m : Range(Append(q, m)) = Range(q) \cup {m}
         /\ q # << >> => Range(q) = {q[1]} \cup Range(Tail(q))
         /\ Range(q) \subseteq S
  <1>1. Range(q) = {q[i] : i \in 1 .. Len(q)}
    BY SMTT(30) DEF Range
  <1>2. ASSUME NEW m
        PROVE  Range(Append(q, m)) = Range(q) \cup {m}
    <2>1. /\ Len(q) \in Nat /\ DOMAIN Append(q, m) = 1 .. Len(q) + 1
          /\ \A i \in 1 .. Len(q) : Append(q, m)[i] = q[i] /\ i \in 1 .. Len(q) + 1
          /\ Append(q, m)[Len(q) + 1] = m /\ Len(q) + 1 \in 1 .. Len(q) + 1
          /\ \A i \in 1 .. Len(q) + 1 : i \in 1 .. Len(q) \/ i = Len(q) + 1
      BY SMTT(30)
    <2> QED
      BY <1>1, <2>1 DEF Range
  <1>3. ASSUME q # << >>
        PROVE  Range(q) = {q[1]} \cup Range(Tail(q))
    <2>1. /\ DOMAIN Tail(q) = 1 .. Len(q) - 1 /\ 1 \in 1 .. Len(q)
          /\ \A i \in 1 .. Len(q) - 1 : Tail(q)[i] = q[i + 1] /\ i + 1 \in 1 .. Len(q)
          /\ \A i \in 1 .. Len(q) : i = 1 \/ (i - 1 \in 1 .. Len(q) - 1 /\ (i - 1) + 1 = i)
      BY <1>3, SMTT(30)
    <2>2. \A i \in 1 .. Len(q) : i = 1 \/ (i - 1 \in 1 .. Len(q) - 1 /\ q[i] = Tail(q)[i - 1])
      BY <2>1
    <2>3. PICK t : t = Tail(q)
      OBVIOUS
    <2>4. Range(t) = {t[i] : i \in 1 .. Len(q) - 1}
      BY <2>1, <2>3 DEF Range
    <2>5. Range(q) \subseteq {q[1]} \cup Range(t)
      BY <1>1, <2>2, <2>3, <2>4
    <2>6. q[1] \in Range(q)
      BY <1>1, <2>1
    <2>7. Range(t) \subseteq Range(q)
      BY <1>1, <2>1, <2>3, <2>4
    <2> QED
      BY <2>3, <2>5, <2>6, <2>7
  <1>4. Range(q) \subseteq S
    BY <1>1, SMTT(30)
  <1> QED
    BY <1>1, <1>2, <1>3, <1>4

\* q consists of a, b and c, in this order.
Joined(a, b, c, q) ==
  /\ q \in Seq(Reports) /\ Len(q) = Len(a) + Len(b) + Len(c)
  /\ Len(a) \in Nat /\ Len(b) \in Nat /\ Len(c) \in Nat
  /\ \A i \in 1 .. Len(a) : q[i] = a[i]
  /\ \A i \in 1 .. Len(b) : q[Len(a) + i] = b[i]
  /\ \A i \in 1 .. Len(c) : q[Len(a) + Len(b) + i] = c[i]

LEMMA Queued ==
  ASSUME NEW a \in Seq(Reports), NEW b \in Seq(Reports), NEW c \in Seq(Reports),
         NEW q, q = a \o b \o c
  PROVE  Joined(a, b, c, q)
  <1>1. PICK p : p = a \o b
    OBVIOUS
  <1>2. PICK k \in Nat, l \in Nat, n \in Nat : k = Len(a) /\ l = Len(b) /\ n = Len(c)
    BY SMTT(30)
  <1>3. /\ p \in Seq(Reports) /\ Len(p) = k + l
        /\ \A i \in 1 .. k + l : p[i] = IF i <= k THEN a[i] ELSE b[i - k]
    BY <1>1, <1>2, ConcatFacts
  <1>4. /\ q \in Seq(Reports) /\ Len(q) = k + l + n
        /\ \A i \in 1 .. k + l + n : q[i] = IF i <= k + l THEN p[i] ELSE c[i - (k + l)]
    <2>1. /\ p \o c \in Seq(Reports) /\ Len(p \o c) = Len(p) + Len(c)
          /\ \A i \in 1 .. Len(p) + Len(c) :
               (p \o c)[i] = IF i <= Len(p) THEN p[i] ELSE c[i - Len(p)]
      BY <1>3, ConcatFacts
    <2>2. q = p \o c
      BY <1>1
    <2> QED
      BY <1>2, <1>3, <2>1, <2>2
  <1>5. ASSUME NEW i \in 1 .. k
        PROVE  q[i] = a[i]
    <2>1. i \in 1 .. k + l /\ i \in 1 .. k + l + n /\ i <= k /\ i <= k + l
      BY SMTT(30)
    <2> QED
      BY <1>3, <1>4, <2>1
  <1>6. ASSUME NEW i \in 1 .. l
        PROVE  q[k + i] = b[i]
    <2>1. /\ k + i \in 1 .. k + l /\ k + i \in 1 .. k + l + n
          /\ ~(k + i <= k) /\ k + i <= k + l /\ (k + i) - k = i
      BY SMTT(30)
    <2>2. q[k + i] = p[k + i] /\ p[k + i] = b[(k + i) - k]
      BY <1>3, <1>4, <2>1
    <2> QED
      BY <2>1, <2>2
  <1>7. ASSUME NEW i \in 1 .. n
        PROVE  q[k + l + i] = c[i]
    <2>1. /\ k + l + i \in 1 .. k + l + n /\ ~(k + l + i <= k + l)
          /\ (k + l + i) - (k + l) = i
      BY SMTT(30)
    <2>2. q[k + l + i] = c[(k + l + i) - (k + l)]
      BY <1>4, <2>1
    <2> QED
      BY <2>1, <2>2
  <1> QED
    BY <1>2, <1>4, <1>5, <1>6, <1>7 DEF Joined

LEMMA ReportRange ==
  ASSUME NEW q \in Seq(Reports)
  PROVE  Range(q) = {q[i] : i \in 1 .. Len(q)}
BY RangeFacts

LEMMA LeastIndex ==
  ASSUME NEW T \in SUBSET Nat, T # {}
  PROVE  \E x \in T : \A y \in T : x <= y
  <1>1. PICK x \in T : \A y \in T : ~(<<y, x>> \in OpToRel(<, Nat))
    BY NatLessThanWellFounded, WFMin
  <1>2. \A y \in T : ~(y < x)
    BY <1>1 DEF OpToRel
  <1>3. \A y \in T : x <= y
    BY <1>2, SMTT(30)
  <1> QED
    BY <1>3

\* waitForMessage finds the first answer in the queue, if there is one.
LEMMA FirstDidFacts ==
  ASSUME incoming \in Seq(Reports)
  PROVE  /\ FirstDid = 0 => \A i \in 1 .. Len(incoming) : ~IsDid(incoming[i])
         /\ FirstDid # 0 =>
              /\ FirstDid \in 1 .. Len(incoming) /\ IsDid(incoming[FirstDid])
              /\ \A i \in 1 .. Len(incoming) : i < FirstDid => ~IsDid(incoming[i])
  <1>1. Dids = {i \in 1 .. Len(incoming) : IsDid(incoming[i])}
    BY SMTT(30) DEF Dids
  <1>2. CASE Dids = {}
    BY <1>1, <1>2 DEF FirstDid
  <1>3. CASE Dids # {}
    <2>1. \E x \in Dids : \A y \in Dids : x <= y
      <3>1. Dids \in SUBSET Nat
        BY <1>1, SMTT(30)
      <3> QED
        BY <1>3, <3>1, LeastIndex
    <2>2. FirstDid \in Dids /\ \A y \in Dids : FirstDid <= y
      BY <1>3, <2>1 DEF FirstDid
    <2>3. FirstDid \in Nat /\ FirstDid # 0
      BY <1>1, <2>2, SMTT(30)
    <2>4. \A i \in 1 .. Len(incoming) : i < FirstDid => ~(FirstDid <= i)
      BY <2>3, SMTT(30)
    <2> QED
      BY <1>1, <2>2, <2>3, <2>4
  <1> QED
    BY <1>2, <1>3

\* What holds of a wait that no message can slip past: while it waits there is
\* no answer in the queue, and only an answer is ever in the slot.
InWait ==
  /\ wait \in {"no", "look"} => slot = << >>
  /\ wait = "found nothing" => slot = << >>
  /\ wait \in {"found nothing", "waiting"} =>
       \A i \in 1 .. Len(incoming) : ~IsDid(incoming[i])
  /\ slot = << >> \/ \E m \in Reports : slot = <<m>> /\ IsDid(m)

LEMMA NoSlot ==
  ASSUME InWait, wait \in {"no", "look"} \/ wait = "found nothing"
  PROVE  slot = << >>
BY DEF InWait

-----------------------------------------------------------------------------
(* The steps of the UI process, and a message's arrival there.             *)

Webs ==
  [stateID : Nat, size : Nat, shouldSend : BOOLEAN, inUpdate : BOOLEAN,
   waiting : BOOLEAN, compositing : BOOLEAN, frozen : BOOLEAN,
   wantsToExit : BOOLEAN, exitTimer : BOOLEAN, suspended : BOOLEAN,
   dirty : Areas, displayTimer : BOOLEAN, root : BOOLEAN,
   host : BOOLEAN, notify : BOOLEAN, flush : BOOLEAN, flushEnabled : BOOLEAN,
   out : Seq(Reports)]

\* What holds of the timers even between the calls a handler makes.
Timed(w) ==
  /\ w \in Webs
  /\ w.displayTimer => ~w.host /\ ~w.waiting
  /\ w.exitTimer => w.host /\ ~w.frozen
  /\ w.wantsToExit => w.host
  /\ w.host => w.dirty = "none" /\ ~w.waiting

\* c is the current state of the UI process, s that of the web process, d
\* tells whether the web process owes an answer for it, and q holds the
\* messages on their way.  The answers are for ever newer states, and every
\* other message comes after the answer for its state.
Ordered(c, s, d, q) ==
  /\ c <= s /\ (d => c < s)
  /\ \A i \in 1 .. Len(q) :
       IsDid(q[i]) => c < q[i].id /\ q[i].id <= s /\ (d => q[i].id < s)
  /\ \A i, j \in 1 .. Len(q) :
       i < j /\ IsDid(q[i]) /\ IsDid(q[j]) => q[i].id < q[j].id
  /\ \A j \in 1 .. Len(q) :
       ~IsDid(q[j]) =>
         \/ q[j].id <= c
         \/ \E i \in 1 .. Len(q) : i < j /\ IsDid(q[i]) /\ q[j].id <= q[i].id
  /\ d \/ s <= c \/ \E i \in 1 .. Len(q) : IsDid(q[i]) /\ s <= q[i].id

\* r is q without its kth message.
Without(q, k, r) ==
  /\ r \in Seq(Reports) /\ Len(r) = Len(q) - 1
  /\ \A i \in 1 .. Len(r) : r[i] = q[IF i < k THEN i ELSE i + 1]

\* An answer is received by a UI process that waits for it: it overtakes the
\* b messages that were received before and takes the place of an earlier
\* answer, if there is one (a = 1).
Jumped(q, a, b, k, r) ==
  /\ k = a + b + 1 /\ IsDid(q[k])
  /\ \A i \in 1 .. b : ~IsDid(q[a + i])
  /\ Len(r) = Len(q) - a /\ r[1] = q[k]
  /\ \A i \in 2 .. b + 1 : r[i] = q[i - 1 + a]
  /\ \A i \in b + 2 .. Len(r) : r[i] = q[i + a]

\* s is the state of the web process, n the newest state of the UI process:
\* the web process is asked for ever newer states.
Asked(s, n, tw) ==
  /\ s <= n
  /\ \A i \in 1 .. Len(tw) : IsAsk(tw[i]) => s <= tw[i].id /\ tw[i].id <= n
  /\ \A i, j \in 1 .. Len(tw) :
       i < j /\ IsAsk(tw[i]) /\ IsAsk(tw[j]) => tw[i].id <= tw[j].id

\* A UI process that waits (u) is answered, or asks for a state that has yet
\* to be entered or answered.
Answered(u, s, d, q, tw) ==
  u => \/ \E m \in Range(q) : IsDid(m)
       \/ \E m \in Range(tw) : IsAsk(m) /\ m.respond /\ (s < m.id \/ d)

\* The update that a web process waits for (w) is on its way or acknowledged,
\* or a newer state ends the wait.
Acknowledged(w, s, q, tw) ==
  w => \/ \E m \in Range(q) : m.type = "Update" /\ m.id = s
       \/ \E m \in Range(tw) : IsAsk(m) => s < m.id

\* The type of the record of the UI process.  Nothing is said here of the
\* backing store and of the timer that discards it.
Viewed(u) ==
  u \in [current : Nat, next : Nat, waiting : BOOLEAN, size : Nat,
         received : BOOLEAN, store : {u.store}, context : BOOLEAN,
         discardable : BOOLEAN, discardTimer : {u.discardTimer},
         blocked : BOOLEAN, nested : BOOLEAN, out : Seq(Orders)]

\* The UI process, whose newest state was n and which waits or not (b), goes
\* on with record x: it asks for nothing, acknowledges an update, or asks for
\* its newest state, unless it still waits for an answer.
Speaks(n, b, x) ==
  /\ Viewed(x) /\ n <= x.next
  /\ \/ x.waiting = b /\ x.out = << >>
     \/ x.waiting = b /\ \E m \in Orders : ~IsAsk(m) /\ x.out = <<m>>
     \/ /\ ~b
        /\ \E m \in Asks : /\ x.out = <<m>> /\ m.id = x.next /\ m.respond = x.waiting
                           /\ m.respond => x.current < x.next \/ n < x.next

\* A change of the UI process that concerns none of this.
SameState(u, x) ==
  /\ x.current = u.current /\ x.next = u.next /\ x.waiting = u.waiting
  /\ x.out = u.out

Asking(u, r, x) ==
  /\ Viewed(x) /\ x.current = u.current /\ x.next = u.next
  /\ \/ x.waiting = u.waiting /\ x.out = << >>
     \/ /\ ~u.waiting
        /\ \E m \in Asks : /\ x.out = <<m>> /\ m.id = x.next
                           /\ m.respond = x.waiting /\ (m.respond => r)

InStep(u, w, q, tw) ==
  /\ Ordered(u.current, w.stateID, w.shouldSend, q)
  /\ Asked(w.stateID, u.next, tw)
  /\ Answered(u.waiting, w.stateID, w.shouldSend, q, tw)
  /\ Acknowledged(w.waiting, w.stateID, q, tw)

\* The message at the head of the queue, or found in it, leaves it.
Taken(b, k, q, r) ==
  /\ q \in Seq(Reports) /\ k \in 1 .. Len(q) /\ Without(q, k, r)
  /\ \A i \in 1 .. Len(b) : q[i] = b[i] /\ i \in 1 .. Len(q)
  /\ \A i \in 1 .. Len(q) : i < k => i \in 1 .. Len(b)

\* An answer is received by a UI process that waits for one.
\* An answer c[1] overtook q, which is now r; only those in a are lost.
Overtaken(a, c, q, r) ==
  /\ \A i, s \in Nat, d \in BOOLEAN : Ordered(i, s, d, q) => Ordered(i, s, d, r)
  /\ c[1] \in Range(r)
  /\ \A m \in Range(q) : m \in Range(r) \/ m \in Range(a)

\* A dirty page is drawn.
Drawing(w) ==
  w.dirty # "none" /\ ~w.suspended =>
    w.displayTimer \/ w.waiting \/ w.shouldSend

\* What holds whatever the connection does.
Base ==
  /\ Viewed(ui) /\ ui.out = << >>
  /\ slot \in Seq(Reports) /\ incoming \in Seq(Reports) /\ wire \in Seq(Reports)
  /\ toWeb \in Seq(Orders)
  /\ Timed(web) /\ Drawing(web) /\ web.inUpdate = FALSE /\ web.out = << >>

InTouch == InStep(ui, web, Unhandled, toWeb)

\* A step of the UI process.
UIBase ==
  /\ Viewed(ui') /\ ui'.out = << >> /\ toWeb' \in Seq(Orders)
  /\ wait' \in {"look", "no"}

Kept == Base' /\ (~WaitRaces /\ InWait /\ InTouch => InWait' /\ InTouch')

\* What the UI process does: the view's calls and the timer, the messages it
\* handles, and its waits for the web process.
LEMMA UIProcessKeeps ==
  Base /\ (\/ PaintView \/ SizeDidChange \/ DiscardableDidChange \/ DiscardTimerFired
            \/ DispatchMessage \/ LookForMessage \/ StartWaiting \/ WakeUp \/ TimeOut
            \/ ReceiveMessage)
    => Kept
  \* The first message is handled and is no answer.
  <1>OrderedTail.
    ASSUME NEW c \in Nat, NEW s \in Nat, NEW d \in BOOLEAN, NEW q \in Seq(Reports),
           Ordered(c, s, d, q), 1 \in 1 .. Len(q), ~IsDid(q[1]), NEW r, Without(q, 1, r)
    PROVE  Ordered(c, s, d, r)
    <2> USE <1>OrderedTail
    <2>1. /\ r \in Seq(Reports) /\ Len(q) \in Nat /\ Len(r) = Len(q) - 1
          /\ \A i \in 1 .. Len(r) : r[i] = q[i + 1] /\ i + 1 \in 1 .. Len(q)
      BY SMTT(30) DEF Without
    <2>2. ASSUME NEW i \in 1 .. Len(q), IsDid(q[i])
          PROVE  i - 1 \in 1 .. Len(r) /\ r[i - 1] = q[i]
      <3>1. i # 1
        BY <2>2
      <3> QED
        BY <2>1, <3>1, SMTT(30)
    <2>3. \A i \in 1 .. Len(r) : IsDid(r[i]) => c < r[i].id /\ r[i].id <= s /\ (d => r[i].id < s)
      BY <2>1 DEF Ordered
    <2>4. ASSUME NEW i \in 1 .. Len(r), NEW j \in 1 .. Len(r), i < j,
                 IsDid(r[i]), IsDid(r[j])
          PROVE  r[i].id < r[j].id
      <3>1. i + 1 < j + 1
        BY <2>4, SMTT(30)
      <3> QED
        BY <2>1, <2>4, <3>1 DEF Ordered
    <2>5. ASSUME NEW j \in 1 .. Len(r), ~IsDid(r[j])
          PROVE  \/ r[j].id <= c
                 \/ \E i \in 1 .. Len(r) : i < j /\ IsDid(r[i]) /\ r[j].id <= r[i].id
      <3>1. CASE q[j + 1].id <= c
        BY <2>1, <3>1
      <3>2. CASE \E i \in 1 .. Len(q) : i < j + 1 /\ IsDid(q[i]) /\ q[j + 1].id <= q[i].id
        <4>1. PICK i \in 1 .. Len(q) : i < j + 1 /\ IsDid(q[i]) /\ q[j + 1].id <= q[i].id
          BY <3>2
        <4>2. i - 1 < j
          BY <4>1, SMTT(30)
        <4> QED
          BY <2>1, <2>2, <4>1, <4>2
      <3> QED
        BY <2>1, <2>5, <3>1, <3>2 DEF Ordered
    <2>6. d \/ s <= c \/ \E i \in 1 .. Len(r) : IsDid(r[i]) /\ s <= r[i].id
      BY <2>2 DEF Ordered
    <2>7. c <= s /\ (d => c < s)
      BY DEF Ordered
    <2> QED
      BY <2>3, <2>4, <2>5, <2>6, <2>7 DEF Ordered
  <1>RemoveAtFacts.
    ASSUME NEW q \in Seq(Reports), NEW k \in 1 .. Len(q), NEW r, r = RemoveAt(q, k)
    PROVE  /\ r \in Seq(Reports) /\ Len(r) = Len(q) - 1 /\ Len(q) \in Nat
           /\ \A i \in 1 .. Len(r) : r[i] = q[IF i < k THEN i ELSE i + 1]
    <2> USE <1>RemoveAtFacts
    <2>1. PICK a : a = SubSeq(q, 1, k - 1)
      OBVIOUS
    <2>2. PICK b : b = SubSeq(q, k + 1, Len(q))
      OBVIOUS
    <2>3. /\ a \in Seq(Reports) /\ Len(a) = k - 1
          /\ \A i \in 1 .. k - 1 : a[i] = q[i]
      BY <2>1, SMTT(30)
    <2>4. /\ b \in Seq(Reports) /\ Len(b) = Len(q) - k
          /\ \A i \in 1 .. Len(q) - k : b[i] = q[k + i]
      BY <2>2, SMTT(30)
    <2>5. r = a \o b
      BY <2>1, <2>2 DEF RemoveAt
    <2>6. /\ r \in Seq(Reports) /\ Len(r) = Len(a) + Len(b)
          /\ \A i \in 1 .. Len(r) : r[i] = IF i <= Len(a) THEN a[i] ELSE b[i - Len(a)]
      <3>1. a \in Seq(Reports) /\ b \in Seq(Reports)
        BY <2>3, <2>4
      <3>2. /\ a \o b \in Seq(Reports) /\ Len(a \o b) = Len(a) + Len(b)
            /\ \A i \in 1 .. Len(a) + Len(b) :
                 (a \o b)[i] = IF i <= Len(a) THEN a[i] ELSE b[i - Len(a)]
        BY <3>1, ConcatFacts
      <3> QED
        BY <2>5, <3>2
    <2>7. ASSUME NEW i \in 1 .. Len(r)
          PROVE  r[i] = q[IF i < k THEN i ELSE i + 1]
      <3>1. CASE i < k
        BY <2>3, <2>6, <3>1, SMTT(30)
      <3>2. CASE ~(i < k)
        <4>1. /\ i - (k - 1) \in 1 .. Len(q) - k /\ k + (i - (k - 1)) = i + 1
              /\ ~(i <= k - 1)
          BY <2>3, <2>4, <2>6, <3>2, SMTT(30)
        <4> QED
          BY <2>3, <2>4, <2>6, <3>2, <4>1
      <3> QED
        BY <3>1, <3>2
    <2> QED
      BY <2>3, <2>4, <2>6, <2>7, SMTT(30)
  \* An answer is handled, the first one there is.
  <1>OrderedTake.
    ASSUME NEW c \in Nat, NEW s \in Nat, NEW d \in BOOLEAN, NEW q \in Seq(Reports),
           Ordered(c, s, d, q), NEW k \in 1 .. Len(q), IsDid(q[k]),
           \A i \in 1 .. Len(q) : i < k => ~IsDid(q[i]), NEW r, Without(q, k, r)
    PROVE  Ordered(q[k].id, s, d, r) /\ c < q[k].id
    <2> USE <1>OrderedTake
    <2> USE DEF Without
    <2>1. PICK e \in Nat : e = q[k].id
      BY ReportIDs
    <2>2. PICK n \in Nat : n = Len(r) /\ Len(q) = n + 1
      BY SMTT(30)
    <2>3. \A i \in 1 .. n + 1 : q[i].id \in Nat
      BY <2>2, ReportIDs
    <2>4. \A i \in 1 .. n : (i < k => r[i] = q[i]) /\ (~(i < k) => r[i] = q[i + 1])
      BY <2>2
    <2>5. ASSUME NEW i \in 1 .. n + 1, IsDid(q[i]), i # k
          PROVE  i - 1 \in 1 .. n /\ r[i - 1] = q[i] /\ k < i
      <3>1. ~(i < k)
        BY <2>2, <2>5
      <3>2. k < i /\ ~(i - 1 < k) /\ i - 1 \in 1 .. n /\ (i - 1) + 1 = i
        BY <2>2, <2>5, <3>1, SMTT(30)
      <3> QED
        BY <2>4, <3>2
    <2>6. ASSUME NEW i \in 1 .. n, IsDid(r[i])
          PROVE  i + 1 \in 1 .. n + 1 /\ r[i] = q[i + 1] /\ k < i + 1
      <3>1. CASE i < k
        <4>1. r[i] = q[i] /\ i \in 1 .. Len(q)
          BY <2>2, <2>4, <3>1, SMTT(30)
        <4> QED
          BY <2>6, <3>1, <4>1
      <3>2. CASE ~(i < k)
        BY <2>2, <2>4, <3>2, SMTT(30)
      <3> QED
        BY <3>1, <3>2
    <2>7. /\ c <= s /\ (d => c < s)
          /\ \A i \in 1 .. n + 1 :
               IsDid(q[i]) => c < q[i].id /\ q[i].id <= s /\ (d => q[i].id < s)
          /\ \A i, j \in 1 .. n + 1 :
               i < j /\ IsDid(q[i]) /\ IsDid(q[j]) => q[i].id < q[j].id
          /\ \A j \in 1 .. n + 1 :
               ~IsDid(q[j]) =>
                 \/ q[j].id <= c
                 \/ \E i \in 1 .. n + 1 : i < j /\ IsDid(q[i]) /\ q[j].id <= q[i].id
          /\ d \/ s <= c \/ \E i \in 1 .. n + 1 : IsDid(q[i]) /\ s <= q[i].id
      BY <2>2 DEF Ordered
    <2>8. c < e /\ e <= s /\ (d => e < s) /\ k \in 1 .. n + 1
      BY <2>1, <2>2, <2>7
    <2>9. \A i \in 1 .. n : IsDid(r[i]) => e < r[i].id /\ r[i].id <= s /\ (d => r[i].id < s)
      BY <2>1, <2>6, <2>7, <2>8
    <2>10. ASSUME NEW i \in 1 .. n, NEW j \in 1 .. n, i < j, IsDid(r[i]), IsDid(r[j])
           PROVE  r[i].id < r[j].id
      <3>1. i + 1 < j + 1
        BY <2>10, SMTT(30)
      <3> QED
        BY <2>6, <2>7, <2>10, <3>1
    <2>11. ASSUME NEW j \in 1 .. n, ~IsDid(r[j])
           PROVE  \/ r[j].id <= e
                  \/ \E i \in 1 .. n : i < j /\ IsDid(r[i]) /\ r[j].id <= r[i].id
      <3>1. PICK h \in 1 .. n + 1 : /\ r[j] = q[h] /\ h # k
                                    /\ (h < k => h = j) /\ (k < h => h = j + 1)
        <4>1. CASE j < k
          <5>1. j \in 1 .. n + 1 /\ j # k /\ ~(k < j) /\ r[j] = q[j]
            BY <2>2, <2>4, <4>1, SMTT(30)
          <5> QED
            BY <5>1
        <4>2. CASE ~(j < k)
          <5>1. j + 1 \in 1 .. n + 1 /\ j + 1 # k /\ ~(j + 1 < k) /\ r[j] = q[j + 1]
            BY <2>2, <2>4, <4>2, SMTT(30)
          <5> QED
            BY <5>1
        <4> QED
          BY <4>1, <4>2
      <3>2. CASE q[h].id <= c
        BY <2>3, <2>8, <3>1, <3>2, SMTT(30)
      <3>3. CASE \E i \in 1 .. n + 1 : i < h /\ IsDid(q[i]) /\ q[h].id <= q[i].id
        <4>1. PICK i \in 1 .. n + 1 : i < h /\ IsDid(q[i]) /\ q[h].id <= q[i].id
          BY <3>3
        <4>2. CASE i = k
          BY <2>1, <3>1, <4>1, <4>2
        <4>3. CASE i # k
          <5>1. i - 1 \in 1 .. n /\ r[i - 1] = q[i] /\ k < i
            BY <2>5, <4>1, <4>3
          <5>2. i - 1 < j
            BY <3>1, <4>1, <5>1, SMTT(30)
          <5> QED
            BY <3>1, <4>1, <5>1, <5>2
        <4> QED
          BY <4>2, <4>3
      <3> QED
        BY <2>7, <2>11, <3>1, <3>2, <3>3
    <2>12. d \/ s <= e \/ \E i \in 1 .. n : IsDid(r[i]) /\ s <= r[i].id
      <3>1. CASE s <= c
        BY <2>8, <3>1, SMTT(30)
      <3>2. CASE \E i \in 1 .. n + 1 : IsDid(q[i]) /\ s <= q[i].id
        BY <2>1, <2>5, <3>2
      <3> QED
        BY <2>7, <3>1, <3>2
    <2> QED
      BY <2>1, <2>2, <2>8, <2>9, <2>10, <2>11, <2>12 DEF Ordered
  <1>OrderedJump.
    ASSUME NEW c \in Nat, NEW s \in Nat, NEW d \in BOOLEAN, NEW q \in Seq(Reports),
           Ordered(c, s, d, q), NEW a \in 0 .. 1, NEW b \in Nat,
           NEW k \in 1 .. Len(q), NEW r \in Seq(Reports), Jumped(q, a, b, k, r)
    PROVE  Ordered(c, s, d, r)
    <2> USE <1>OrderedJump
    <2> USE DEF Jumped
    <2>1. PICK n \in Nat : n = Len(q)
      BY SMTT(30)
    <2>2. PICK m \in Nat : m = Len(r) /\ m = n - a
      <3>1. Len(r) \in Nat /\ Len(r) = n - a
        BY <2>1, SMTT(30)
      <3> QED
        BY <3>1
    <2>3. \A i \in 1 .. n : q[i].id \in Nat
      BY <2>1, ReportIDs
    <2>4. /\ c <= s /\ (d => c < s)
          /\ \A i \in 1 .. n :
               IsDid(q[i]) => c < q[i].id /\ q[i].id <= s /\ (d => q[i].id < s)
          /\ \A i, j \in 1 .. n :
               i < j /\ IsDid(q[i]) /\ IsDid(q[j]) => q[i].id < q[j].id
          /\ \A j \in 1 .. n :
               ~IsDid(q[j]) =>
                 \/ q[j].id <= c
                 \/ \E i \in 1 .. n : i < j /\ IsDid(q[i]) /\ q[j].id <= q[i].id
          /\ d \/ s <= c \/ \E i \in 1 .. n : IsDid(q[i]) /\ s <= q[i].id
      BY <2>1 DEF Ordered
    <2>5. k \in 1 .. n /\ 1 \in 1 .. m /\ k \in Nat
      BY <2>1, <2>2, SMTT(30)
    <2>6. ASSUME NEW i \in 1 .. n, IsDid(q[i]), i <= k
          PROVE  q[i].id <= r[1].id
      <3>1. CASE i = k
        BY <2>3, <2>5, <3>1, SMTT(30)
      <3>2. CASE i # k
        <4>1. i < k
          BY <2>5, <2>6, <3>2, SMTT(30)
        <4> QED
          BY <2>3, <2>4, <2>5, <2>6, <4>1, SMTT(30)
      <3> QED
        BY <3>1, <3>2
    <2>7. ASSUME NEW i \in 1 .. n, ~(i <= k)
          PROVE  i - a \in 1 .. m /\ r[i - a] = q[i]
      <3>1. i - a \in b + 2 .. m /\ (i - a) + a = i
        BY <2>2, <2>7, SMTT(30)
      <3> QED
        BY <2>2, <3>1, SMTT(30)
    <2>8. ASSUME NEW i \in 1 .. m
          PROVE  \/ i = 1
                 \/ i \in 2 .. b + 1 /\ i - 1 \in 1 .. b /\ r[i] = q[a + (i - 1)]
                 \/ i + a \in 1 .. n /\ k < i + a /\ r[i] = q[i + a]
      <3>1. CASE i \in 2 .. b + 1
        <4>1. i - 1 \in 1 .. b /\ a + (i - 1) = i - 1 + a
          BY <3>1, SMTT(30)
        <4> QED
          BY <3>1, <4>1
      <3>2. CASE i \in b + 2 .. m
        <4>1. i + a \in 1 .. n /\ k < i + a
          BY <2>2, <3>2, SMTT(30)
        <4> QED
          BY <2>2, <3>2, <4>1
      <3> QED
        BY <2>2, <3>1, <3>2, SMTT(30)
    <2>9. ASSUME NEW i \in 1 .. m, IsDid(r[i])
          PROVE  i = 1 \/ (i + a \in 1 .. n /\ k < i + a /\ r[i] = q[i + a])
      BY <2>8, <2>9
    <2>10. \A i \in 1 .. m : IsDid(r[i]) => c < r[i].id /\ r[i].id <= s /\ (d => r[i].id < s)
      BY <2>4, <2>5, <2>9
    <2>11. ASSUME NEW i \in 1 .. m, NEW j \in 1 .. m, i < j, IsDid(r[i]), IsDid(r[j])
           PROVE  r[i].id < r[j].id
      <3>1. j # 1
        BY <2>11, SMTT(30)
      <3>2. j + a \in 1 .. n /\ k < j + a /\ r[j] = q[j + a]
        BY <2>9, <2>11, <3>1
      <3>3. CASE i = 1
        BY <2>4, <2>5, <2>11, <3>2, <3>3
      <3>4. CASE i # 1
        <4>1. i + a \in 1 .. n /\ r[i] = q[i + a]
          BY <2>9, <2>11, <3>4
        <4>2. i + a < j + a
          BY <2>11, SMTT(30)
        <4> QED
          BY <2>4, <2>11, <3>2, <4>1, <4>2
      <3> QED
        BY <3>3, <3>4
    <2>12. ASSUME NEW j \in 1 .. m, ~IsDid(r[j])
           PROVE  \/ r[j].id <= c
                  \/ \E i \in 1 .. m : i < j /\ IsDid(r[i]) /\ r[j].id <= r[i].id
      <3>1. j # 1 /\ 1 < j
        <4>1. j # 1
          BY <2>12
        <4> QED
          BY <4>1, SMTT(30)
      <3>2. PICK h \in 1 .. n : r[j] = q[h] /\ (h < k \/ h = j + a)
        <4>1. CASE j \in 2 .. b + 1 /\ j - 1 \in 1 .. b /\ r[j] = q[a + (j - 1)]
          <5>1. a + (j - 1) \in 1 .. n /\ a + (j - 1) < k
            BY <2>5, <4>1, SMTT(30)
          <5> QED
            BY <4>1, <5>1
        <4> QED
          BY <2>8, <3>1, <4>1
      <3>3. CASE q[h].id <= c
        BY <3>2, <3>3
      <3>4. CASE \E i \in 1 .. n : i < h /\ IsDid(q[i]) /\ q[h].id <= q[i].id
        <4>1. PICK i \in 1 .. n : i < h /\ IsDid(q[i]) /\ q[h].id <= q[i].id
          BY <3>4
        <4>2. CASE i <= k
          <5>1. q[i].id <= r[1].id /\ r[1].id \in Nat /\ q[i].id \in Nat /\ q[h].id \in Nat
            BY <2>3, <2>5, <2>6, <4>1, <4>2
          <5>2. r[j].id <= r[1].id
            BY <3>2, <4>1, <5>1, SMTT(30)
          <5> QED
            BY <2>5, <3>1, <5>2
        <4>3. CASE ~(i <= k)
          <5>1. i - a \in 1 .. m /\ r[i - a] = q[i]
            BY <2>7, <4>3
          <5>2. i - a < j
            BY <2>5, <3>2, <4>1, <4>3, SMTT(30)
          <5> QED
            BY <3>2, <4>1, <5>1, <5>2
        <4> QED
          BY <4>2, <4>3
      <3> QED
        BY <2>4, <2>12, <3>2, <3>3, <3>4
    <2>13. d \/ s <= c \/ \E i \in 1 .. m : IsDid(r[i]) /\ s <= r[i].id
      <3>1. CASE \E i \in 1 .. n : IsDid(q[i]) /\ s <= q[i].id
        <4>1. PICK i \in 1 .. n : IsDid(q[i]) /\ s <= q[i].id
          BY <3>1
        <4>2. CASE i <= k
          <5>1. q[i].id <= r[1].id /\ r[1].id \in Nat /\ q[i].id \in Nat
            BY <2>3, <2>5, <2>6, <4>1, <4>2
          <5>2. s <= r[1].id
            BY <4>1, <5>1, SMTT(30)
          <5> QED
            BY <2>5, <5>2
        <4>3. CASE ~(i <= k)
          BY <2>7, <4>1, <4>3
        <4> QED
          BY <4>2, <4>3
      <3> QED
        BY <2>4, <3>1
    <2> QED
      BY <2>2, <2>4, <2>10, <2>11, <2>12, <2>13 DEF Ordered
  <1>AskIDs.
    ASSUME NEW tw \in Seq(Orders)
    PROVE  /\ Len(tw) \in Nat
           /\ \A i \in 1 .. Len(tw) : tw[i] \in Orders /\ (IsAsk(tw[i]) => tw[i].id \in Nat)
    <2>1. Len(tw) \in Nat /\ \A i \in 1 .. Len(tw) : tw[i] \in Orders
      BY SMTT(30)
    <2> QED
      BY <2>1, OrderFacts
  <1>AskedAppend.
    ASSUME NEW s \in Nat, NEW n \in Nat, NEW tw \in Seq(Orders), Asked(s, n, tw),
           NEW k \in Nat, n <= k, NEW m \in Orders, IsAsk(m) => m.id = k,
           NEW t, t = Append(tw, m)
    PROVE  Asked(s, k, t)
    <2> USE <1>AskedAppend
    <2>1. PICK l \in Nat : l = Len(tw)
      BY <1>AskIDs
    <2>2. /\ t \in Seq(Orders) /\ Len(t) = l + 1 /\ t[l + 1] = m
          /\ \A i \in 1 .. l : t[i] = tw[i]
      BY <2>1, SMTT(30)
    <2>3. \A i \in 1 .. l : IsAsk(tw[i]) => tw[i].id \in Nat
      BY <2>1, <1>AskIDs
    <2>4. \A i \in 1 .. l + 1 : i \in 1 .. l \/ i = l + 1
      BY SMTT(30)
    <2>5. s <= n /\ s <= k
      BY SMTT(30) DEF Asked
    <2>6. \A i \in 1 .. l : IsAsk(tw[i]) => s <= tw[i].id /\ tw[i].id <= k
      BY <2>1, <2>3, SMTT(30) DEF Asked
    <2>7. ASSUME NEW i \in 1 .. l + 1, IsAsk(t[i])
          PROVE  s <= t[i].id /\ t[i].id <= k
      <3>1. CASE i \in 1 .. l
        BY <2>2, <2>6, <2>7, <3>1
      <3>2. CASE i = l + 1
        BY <2>2, <2>5, <2>7, <3>2, SMTT(30)
      <3> QED
        BY <2>4, <3>1, <3>2
    <2>8. ASSUME NEW i \in 1 .. l + 1, NEW j \in 1 .. l + 1, i < j,
                 IsAsk(t[i]), IsAsk(t[j])
          PROVE  t[i].id <= t[j].id
      <3>1. i \in 1 .. l
        BY <2>8, SMTT(30)
      <3>2. CASE j \in 1 .. l
        BY <2>1, <2>2, <2>8, <3>1, <3>2 DEF Asked
      <3>3. CASE j = l + 1
        <4>1. t[j].id = k
          BY <2>2, <2>8, <3>3
        <4> QED
          BY <2>7, <2>8, <4>1
      <3> QED
        BY <2>4, <3>2, <3>3
    <2> QED
      BY <2>2, <2>5, <2>7, <2>8 DEF Asked
  <1>AskedLater.
    ASSUME NEW s \in Nat, NEW n \in Nat, NEW tw \in Seq(Orders), Asked(s, n, tw),
           NEW k \in Nat, n <= k
    PROVE  Asked(s, k, tw)
    <2> USE <1>AskedLater
    <2>1. \A i \in 1 .. Len(tw) : IsAsk(tw[i]) => tw[i].id \in Nat
      BY <1>AskIDs
    <2>2. s <= k /\ \A i \in 1 .. Len(tw) : IsAsk(tw[i]) => s <= tw[i].id /\ tw[i].id <= k
      BY <2>1, SMTT(30) DEF Asked
    <2> QED
      BY <2>2 DEF Asked
  <1>SilenceSpeaks.
    ASSUME NEW u, Viewed(u), u.out = << >>, NEW x, Viewed(x), SameState(u, x)
    PROVE  Speaks(u.next, u.waiting, x) /\ x.current = u.current
    <2> USE <1>SilenceSpeaks
    <2>1. u.next \in Nat /\ u.next <= u.next
      <3>1. u.next \in Nat
        BY DEF Viewed
      <3> QED
        BY <3>1, SMTT(30)
    <2> QED
      BY <2>1 DEF Speaks, SameState
  <1>SendUpdateFacts.
    ASSUME NEW u, Viewed(u), u.out = << >>, NEW r \in BOOLEAN,
           NEW x, x = SendUpdateBackingStoreState(u, r)
    PROVE  Asking(u, r, x)
    <2> USE <1>SendUpdateFacts
    <2>1. CASE u.waiting \/ u.size = 0
      <3>1. x = u
        BY <2>1 DEF SendUpdateBackingStoreState
      <3> QED
        BY <3>1 DEF Asking
    <2>2. CASE ~(u.waiting \/ u.size = 0)
      <3>1. PICK m : m = [type |-> "UpdateBackingStoreState", id |-> u.next,
                          respond |-> r, size |-> u.size]
        OBVIOUS
      <3>2. u.next \in Nat /\ u.size \in Nat /\ u.context \in BOOLEAN
        BY DEF Viewed
      <3>3. m \in Asks /\ m.id = u.next /\ m.respond = r
        BY <3>1, <3>2 DEF Asks
      <3>4. PICK o : o \in Seq(Orders) /\ o = Append(u.out, m) /\ o = <<m>>
        <4>1. m \in Orders
          BY <3>3 DEF Orders
        <4>2. Append(u.out, m) = <<m>> /\ <<m>> \in Seq(Orders)
          BY <4>1, SMTT(30)
        <4> QED
          BY <4>2
      <3>5. PICK b : b \in BOOLEAN /\ b = (r /\ u.context)
        BY <3>2
      <3>6. x = [u EXCEPT !.waiting = r, !.blocked = b, !.out = o]
        BY <2>2, <3>1, <3>4, <3>5 DEF SendUpdateBackingStoreState
      <3>7. Viewed(x)
        BY <3>4, <3>5, <3>6 DEF Viewed
      <3>8. /\ x.current = u.current /\ x.next = u.next /\ x.waiting = r /\ x.out = o
        BY <3>6 DEF Viewed
      <3> QED
        BY <2>2, <3>3, <3>4, <3>7, <3>8 DEF Asking
    <2> QED
      BY <2>1, <2>2
  \* The UI process asks, or not, for its newest state.
  <1>AskSpeaks.
    ASSUME NEW n \in Nat, NEW u, Viewed(u), u.out = << >>, n <= u.next,
           NEW r \in BOOLEAN, r => u.current < u.next \/ n < u.next,
           NEW x, x = SendUpdateBackingStoreState(u, r)
    PROVE  Speaks(n, u.waiting, x) /\ x.current = u.current
    <2> USE <1>AskSpeaks
    <2>1. Asking(u, r, x)
      BY <1>SendUpdateFacts
    <2> QED
      BY <2>1 DEF Speaks, Asking
  <1>StateDidChangeSpeaks.
    ASSUME NEW u, Viewed(u), u.out = << >>, NEW r \in BOOLEAN,
           NEW x, x = BackingStoreStateDidChange(u, r)
    PROVE  Speaks(u.next, u.waiting, x) /\ x.current = u.current
    <2> USE <1>StateDidChangeSpeaks
    <2>1. PICK n \in Nat : n = u.next
      BY DEF Viewed
    <2>2. PICK k \in Nat : k = n + 1
      BY SMTT(30)
    <2>3. PICK y : y = [u EXCEPT !.next = k]
      OBVIOUS
    <2>4. Viewed(y)
      BY <2>3 DEF Viewed
    <2>5. y.next = k /\ y.current = u.current /\ y.waiting = u.waiting /\ y.out = u.out
      BY <2>3 DEF Viewed
    <2>6. x = SendUpdateBackingStoreState(y, r)
      BY <2>1, <2>2, <2>3 DEF BackingStoreStateDidChange
    <2>7. n <= k /\ n < k
      BY <2>2, SMTT(30)
    <2>8. n <= y.next /\ n < y.next /\ y.out = << >>
      BY <2>5, <2>7
    <2>9. Speaks(n, y.waiting, x) /\ x.current = y.current
      BY <2>4, <2>6, <2>8, <1>AskSpeaks, SMTT(30)
    <2> QED
      BY <2>1, <2>5, <2>9
  <1>SetSizeSpeaks.
    ASSUME NEW u, Viewed(u), u.out = << >>, NEW z \in Nat, NEW x, x = SetSize(u, z)
    PROVE  Speaks(u.next, u.waiting, x) /\ x.current = u.current
    <2> USE <1>SetSizeSpeaks
    <2>1. PICK y : y = [u EXCEPT !.size = z]
      OBVIOUS
    <2>2. Viewed(y)
      BY <2>1 DEF Viewed
    <2>3. y.next = u.next /\ y.current = u.current /\ y.waiting = u.waiting /\ y.out = u.out
      BY <2>1 DEF Viewed
    <2>4. x = BackingStoreStateDidChange(y, TRUE) /\ y.out = << >>
      BY <2>1, <2>3 DEF SetSize
    <2>5. Speaks(y.next, y.waiting, x) /\ x.current = y.current
      BY <2>2, <2>4, <1>StateDidChangeSpeaks
    <2> QED
      BY <2>3, <2>5
  <1>DiscardSpeaks.
    ASSUME NEW u, Viewed(u), u.out = << >>, NEW x, x = DiscardBackingStore(u)
    PROVE  Speaks(u.next, u.waiting, x) /\ x.current = u.current
    <2> USE <1>DiscardSpeaks
    <2>1. PICK y : y = [u EXCEPT !.store = NoStore, !.discardTimer = FALSE]
      OBVIOUS
    <2>2. Viewed(y)
      BY <2>1 DEF Viewed
    <2>3. y.next = u.next /\ y.current = u.current /\ y.waiting = u.waiting /\ y.out = u.out
      BY <2>1 DEF Viewed
    <2>4. x = BackingStoreStateDidChange(y, FALSE) /\ y.out = << >>
      BY <2>1, <2>3 DEF DiscardBackingStore
    <2>5. Speaks(y.next, y.waiting, x) /\ x.current = y.current
      BY <2>2, <2>4, <1>StateDidChangeSpeaks
    <2> QED
      BY <2>3, <2>5
  <1>PaintSpeaks.
    ASSUME NEW u, Viewed(u), u.out = << >>, NEW x, x = Paint(u)
    PROVE  Speaks(u.next, u.waiting, x) /\ x.current = u.current
    <2> USE <1>PaintSpeaks
    <2>1. u.next \in Nat /\ u.next <= u.next
      <3>1. u.next \in Nat
        BY DEF Viewed
      <3> QED
        BY <3>1, SMTT(30)
    <2>2. CASE u.current < u.next
      <3>1. PICK y : y = SendUpdateBackingStoreState(u, TRUE)
        OBVIOUS
      <3>2. Speaks(u.next, u.waiting, y) /\ y.current = u.current
        BY <2>1, <2>2, <3>1, <1>AskSpeaks
      <3>3. Viewed(y)
        BY <3>2 DEF Speaks
      <3>4. PICK b : b \in BOOLEAN /\ b = (y.received /\ y.waiting)
        BY <3>3 DEF Viewed
      <3>5. x = [y EXCEPT !.blocked = b]
        BY <2>2, <3>1, <3>4 DEF Paint
      <3>6. Viewed(x)
        BY <3>3, <3>4, <3>5 DEF Viewed
      <3>7. x.next = y.next /\ x.current = y.current /\ x.waiting = y.waiting /\ x.out = y.out
        BY <3>3, <3>5 DEF Viewed
      <3> QED
        BY <3>2, <3>6, <3>7 DEF Speaks
    <2>3. CASE ~(u.current < u.next)
      <3>1. x = u
        BY <2>3 DEF Paint
      <3> QED
        BY <3>1, <1>SilenceSpeaks DEF SameState
    <2> QED
      BY <2>2, <2>3
  <1>DiscardableSpeaks.
    ASSUME NEW u, Viewed(u), u.out = << >>, NEW d \in BOOLEAN,
           NEW x, x = SetBackingStoreIsDiscardable(u, d)
    PROVE  Speaks(u.next, u.waiting, x) /\ x.current = u.current
    <2> USE <1>DiscardableSpeaks
    <2>1. \E t : x = [u EXCEPT !.discardable = d, !.discardTimer = t]
      <3>1. CASE d
        <4>1. PICK y : y = [u EXCEPT !.discardable = TRUE]
          OBVIOUS
        <4>2. PICK t : t = (y.discardTimer \/ y.discardable)
          OBVIOUS
        <4>3. x = [y EXCEPT !.discardTimer = t]
          BY <3>1, <4>1, <4>2 DEF SetBackingStoreIsDiscardable, DiscardBackingStoreSoon
        <4>4. x = [u EXCEPT !.discardable = d, !.discardTimer = t]
          BY <3>1, <4>1, <4>3
        <4> QED
          BY <4>4
      <3>2. CASE ~d
        BY <3>2 DEF SetBackingStoreIsDiscardable
      <3> QED
        BY <3>1, <3>2
    <2>2. PICK t : x = [u EXCEPT !.discardable = d, !.discardTimer = t]
      BY <2>1
    <2>3. Viewed(x)
      BY <2>2 DEF Viewed
    <2>4. SameState(u, x)
      BY <2>2 DEF Viewed, SameState
    <2> QED
      BY <2>3, <2>4, <1>SilenceSpeaks
  <1>IncorporateFacts.
    ASSUME NEW u, Viewed(u), NEW i, NEW x, x = IncorporateUpdate(u, i)
    PROVE  Viewed(x) /\ SameState(u, x)
    <2> USE <1>IncorporateFacts
    <2>1. x = u \/ \E e : x = [u EXCEPT !.store = e]
      BY DEF IncorporateUpdate
    <2>2. CASE x = u
      BY <2>2 DEF SameState
    <2>3. CASE \E e : x = [u EXCEPT !.store = e]
      <3>1. PICK e : x = [u EXCEPT !.store = e]
        BY <2>3
      <3>2. Viewed(x)
        BY <3>1 DEF Viewed
      <3>3. SameState(u, x)
        BY <3>1 DEF Viewed, SameState
      <3> QED
        BY <3>2, <3>3
    <2> QED
      BY <2>1, <2>2, <2>3
  \* update: the update is acknowledged unless it is for an older state.
  <1>UpdateSpeaks.
    ASSUME NEW u, Viewed(u), u.out = << >>, NEW m, NEW x, x = Update(u, m)
    PROVE  /\ Speaks(u.next, u.waiting, x) /\ x.current = u.current
           /\ m.id < u.current \/ \E a \in Orders : ~IsAsk(a) /\ x.out = <<a>>
    <2> USE <1>UpdateSpeaks
    <2>1. CASE m.id < u.current
      <3>1. x = u
        BY <2>1 DEF Update
      <3> QED
        BY <2>1, <3>1, <1>SilenceSpeaks DEF SameState
    <2>2. CASE ~(m.id < u.current)
      <3>1. PICK y : y = IncorporateUpdate(u, m.info)
        OBVIOUS
      <3>2. Viewed(y) /\ SameState(u, y)
        BY <3>1, <1>IncorporateFacts
      <3>3. PICK a : a = [type |-> "DidUpdate"]
        OBVIOUS
      <3>4. a \in Orders /\ ~IsAsk(a)
        BY <3>3 DEF Orders, IsAsk
      <3>5. y.out = << >>
        BY <3>2 DEF SameState
      <3>6. PICK o \in Seq(Orders) : o = <<a>> /\ o = Append(y.out, a)
        <4>1. <<a>> \in Seq(Orders)
          BY <3>4, SMTT(30)
        <4>2. Append(<< >>, a) = <<a>>
          BY <3>4, SMTT(30)
        <4> QED
          BY <3>5, <4>1, <4>2
      <3>7. x = [y EXCEPT !.out = o]
        BY <2>2, <3>1, <3>3, <3>6 DEF Update
      <3>8. Viewed(x)
        BY <3>2, <3>6, <3>7 DEF Viewed
      <3>9. x.next = y.next /\ x.current = y.current /\ x.waiting = y.waiting /\ x.out = o
        BY <3>2, <3>7 DEF Viewed
      <3>10. u.next <= x.next
        <4>1. u.next \in Nat /\ x.next = u.next
          BY <3>2, <3>9 DEF SameState, Viewed
        <4> QED
          BY <4>1, SMTT(30)
      <3>11. Speaks(u.next, u.waiting, x)
        BY <3>2, <3>4, <3>6, <3>8, <3>9, <3>10 DEF Speaks, SameState
      <3> QED
        BY <3>2, <3>4, <3>6, <3>9, <3>11 DEF SameState
    <2> QED
      BY <2>1, <2>2
  <1>ModeSpeaks.
    ASSUME NEW u, Viewed(u), u.out = << >>, NEW m,
           NEW x, x = EnterMode(u, m) \/ x = ExitMode(u, m)
    PROVE  Speaks(u.next, u.waiting, x) /\ x.current = u.current
    <2> USE <1>ModeSpeaks
    <2>1. CASE x = u
      BY <2>1, <1>SilenceSpeaks DEF SameState
    <2>2. CASE x = [u EXCEPT !.store = NoStore, !.context = TRUE]
      <3>1. Viewed(x)
        BY <2>2 DEF Viewed
      <3>2. SameState(u, x)
        BY <2>2 DEF Viewed, SameState
      <3> QED
        BY <3>1, <3>2, <1>SilenceSpeaks
    <2>3. CASE x = IncorporateUpdate([u EXCEPT !.context = FALSE], m.info)
      <3>1. PICK y : y = [u EXCEPT !.context = FALSE]
        OBVIOUS
      <3>2. Viewed(y)
        BY <3>1 DEF Viewed
      <3>3. SameState(u, y)
        BY <3>1 DEF Viewed, SameState
      <3>4. PICK z : z = IncorporateUpdate(y, m.info)
        OBVIOUS
      <3>5. Viewed(z) /\ SameState(y, z)
        BY <3>2, <3>4, <1>IncorporateFacts
      <3>6. x = z
        BY <2>3, <3>1, <3>4
      <3>7. Viewed(x) /\ SameState(u, x)
        BY <3>3, <3>5, <3>6 DEF SameState
      <3> QED
        BY <3>7, <1>SilenceSpeaks
    <2> QED
      BY <2>1, <2>2, <2>3 DEF EnterMode, ExitMode
  <1>NestedSpeaks.
    ASSUME NEW z, Viewed(z), NEW b \in BOOLEAN, NEW x, x = [z EXCEPT !.nested = b]
    PROVE  /\ Viewed(x) /\ x.current = z.current
           /\ \A n, c : Speaks(n, c, z) => Speaks(n, c, x)
    <2> USE <1>NestedSpeaks
    <2>1. Viewed(x)
      BY DEF Viewed
    <2>2. x.next = z.next /\ x.current = z.current /\ x.waiting = z.waiting /\ x.out = z.out
      BY DEF Viewed
    <2> QED
      BY <2>1, <2>2 DEF Speaks
  \* didUpdateBackingStoreState up to the return of its call of
  \* sendUpdateBackingStoreState: the wait is over, and a new one begins if
  \* there is a newer state.
  <1>DidSpeaks.
    ASSUME NEW u, Viewed(u), u.out = << >>, NEW m \in Reports, NEW b \in BOOLEAN,
           NEW x, x = [DidUpdateBackingStoreState(u, m) EXCEPT !.nested = b]
    PROVE  /\ Viewed(x)
           /\ m.id <= u.next => Speaks(u.next, FALSE, x) /\ x.current = m.id
    <2> USE <1>DidSpeaks
    <2>1. PICK e : e = IF m.context /\ ~u.context THEN NoStore ELSE u.store
      OBVIOUS
    <2>2. PICK y : y = [u EXCEPT !.current = m.id, !.waiting = FALSE,
                                 !.context = m.context, !.store = e]
      OBVIOUS
    <2>3. m.id \in Nat /\ m.context \in BOOLEAN /\ u.next \in Nat /\ u.next <= u.next
      <3>1. m.id \in Nat /\ m.context \in BOOLEAN /\ u.next \in Nat
        BY DEF Reports, Viewed
      <3> QED
        BY <3>1, SMTT(30)
    <2>4. Viewed(y)
      BY <2>2, <2>3 DEF Viewed
    <2>5. y.next = u.next /\ y.current = m.id /\ y.waiting = FALSE /\ y.out = << >>
      BY <2>2 DEF Viewed
    <2>6. PICK z : z = IF y.next # y.current THEN SendUpdateBackingStoreState(y, TRUE)
                       ELSE [y EXCEPT !.received = TRUE]
      OBVIOUS
    <2>7. x = [z EXCEPT !.nested = b]
      BY <2>1, <2>2, <2>6 DEF DidUpdateBackingStoreState
    <2>8. CASE y.next # y.current
      <3>1. z = SendUpdateBackingStoreState(y, TRUE)
        BY <2>6, <2>8
      <3>2. Asking(y, TRUE, z)
        BY <2>4, <2>5, <3>1, <1>SendUpdateFacts
      <3>3. Viewed(z)
        BY <3>2 DEF Asking
      <3>4. ASSUME m.id <= u.next
            PROVE  Speaks(u.next, FALSE, z) /\ z.current = m.id
        <4>1. y.current < y.next
          BY <2>3, <2>5, <2>8, <3>4, SMTT(30)
        <4>2. u.next <= y.next
          BY <2>3, <2>5
        <4>3. Speaks(u.next, y.waiting, z) /\ z.current = y.current
          BY <2>3, <2>4, <2>5, <3>1, <4>1, <4>2, <1>AskSpeaks
        <4> QED
          BY <2>5, <4>3
      <3> QED
        BY <2>7, <3>3, <3>4, <1>NestedSpeaks
    <2>9. CASE y.next = y.current
      <3>1. z = [y EXCEPT !.received = TRUE]
        BY <2>6, <2>9
      <3>2. Viewed(z)
        BY <2>4, <3>1 DEF Viewed
      <3>3. z.next = y.next /\ z.current = y.current /\ z.waiting = y.waiting /\ z.out = y.out
        BY <2>4, <3>1 DEF Viewed
      <3>4. Speaks(u.next, FALSE, z) /\ z.current = m.id
        BY <2>3, <2>5, <3>2, <3>3 DEF Speaks
      <3> QED
        BY <2>7, <3>2, <3>4, <1>NestedSpeaks
    <2> QED
      BY <2>8, <2>9
  <1>OrdersSent.
    ASSUME NEW tw \in Seq(Orders)
    PROVE  /\ tw \o << >> = tw
           /\ \A m \in Orders : tw \o <<m>> = Append(tw, m) /\ Append(tw, m) \in Seq(Orders)
    BY SMTT(30)
  \* The UI process has handled what it had to, q is what is left, and it has
  \* become x, of which y is what remains once its messages are sent.
  <1>SpeaksKeeps.
    ASSUME NEW n \in Nat, NEW b \in BOOLEAN, NEW w, Timed(w), NEW q \in Seq(Reports),
           NEW tw \in Seq(Orders), NEW x, Speaks(n, b, x),
           Ordered(x.current, w.stateID, w.shouldSend, q), Asked(w.stateID, n, tw),
           Answered(b, w.stateID, w.shouldSend, q, tw),
           \/ Acknowledged(w.waiting, w.stateID, q, tw)
           \/ \E m \in Orders : ~IsAsk(m) /\ x.out = <<m>>,
           NEW y, y.current = x.current, y.next = x.next, y.waiting = x.waiting,
           NEW t, t = tw \o x.out
    PROVE  t \in Seq(Orders) /\ InStep(y, w, q, t)
    <2> USE <1>SpeaksKeeps
    <2>1. PICK s \in Nat, d \in BOOLEAN : s = w.stateID /\ d = w.shouldSend
      BY DEF Timed, Webs
    <2>2. PICK c \in Nat, k \in Nat : c = x.current /\ k = x.next /\ n <= k
      BY DEF Speaks, Viewed
    <2>3. Ordered(y.current, s, d, q)
      BY <2>1
    <2>4. CASE x.waiting = b /\ x.out = << >>
      <3>1. t = tw
        BY <2>4, <1>OrdersSent
      <3>2. Acknowledged(w.waiting, s, q, t)
        <4>1. \A m : << >> # <<m>>
          OBVIOUS
        <4> QED
          BY <2>1, <2>4, <3>1, <4>1
      <3>3. Asked(s, y.next, t)
        BY <2>1, <2>2, <3>1, <1>AskedLater
      <3> QED
        BY <2>1, <2>3, <2>4, <3>1, <3>2, <3>3 DEF InStep
    <2>5. ASSUME NEW m \in Orders, ~IsAsk(m), x.out = <<m>>, x.waiting = b
          PROVE  t \in Seq(Orders) /\ InStep(y, w, q, t)
      <3>1. t = Append(tw, m) /\ t \in Seq(Orders)
        BY <2>5, <1>OrdersSent
      <3>2. Range(t) = Range(tw) \cup {m}
        BY <3>1, RangeFacts
      <3>3. Acknowledged(w.waiting, s, q, t)
        BY <2>5, <3>2 DEF Acknowledged
      <3>4. Asked(s, y.next, t)
        BY <2>1, <2>2, <2>5, <3>1, <1>AskedAppend
      <3>5. Answered(y.waiting, s, d, q, t)
        BY <2>1, <2>5, <3>2 DEF Answered
      <3> QED
        BY <2>1, <2>3, <3>1, <3>3, <3>4, <3>5 DEF InStep
    <2>6. ASSUME NEW m \in Asks, ~b, x.out = <<m>>, m.id = x.next,
                 m.respond = x.waiting, m.respond => x.current < x.next \/ n < x.next
          PROVE  t \in Seq(Orders) /\ InStep(y, w, q, t)
      <3>1. m \in Orders /\ IsAsk(m)
        BY DEF Orders, Asks, IsAsk
      <3>2. t = Append(tw, m) /\ t \in Seq(Orders)
        BY <2>6, <3>1, <1>OrdersSent
      <3>3. Range(t) = Range(tw) \cup {m}
        BY <3>2, RangeFacts
      <3>4. \A o \in Orders : x.out = <<o>> => o = m
        BY <2>6, SMTT(30)
      <3>5. Acknowledged(w.waiting, s, q, t)
        BY <2>1, <3>1, <3>3, <3>4 DEF Acknowledged
      <3>6. Asked(s, y.next, t)
        BY <2>1, <2>2, <2>6, <3>1, <3>2, <1>AskedAppend
      <3>7. s <= n
        BY <2>1 DEF Asked
      <3>8. ASSUME m.respond
            PROVE  (\E r \in Range(q) : IsDid(r)) \/ s < m.id \/ d
        <4>1. c < k \/ n < k
          BY <2>2, <2>6, <3>8
        <4>2. s < k \/ ~(s <= c)
          BY <2>2, <3>7, <4>1, SMTT(30)
        <4>3. ASSUME NEW i \in 1 .. Len(q), IsDid(q[i])
              PROVE  \E r \in Range(q) : IsDid(r)
          <5>1. Range(q) = {q[j] : j \in 1 .. Len(q)}
            BY RangeFacts
          <5> QED
            BY <4>3, <5>1
        <4>4. d \/ s <= c \/ \E i \in 1 .. Len(q) : IsDid(q[i]) /\ s <= q[i].id
          BY <2>1, <2>2 DEF Ordered
        <4> QED
          BY <2>2, <2>6, <4>2, <4>3, <4>4
      <3>9. Answered(y.waiting, s, d, q, t)
        BY <2>6, <3>1, <3>3, <3>8 DEF Answered
      <3> QED
        BY <2>1, <2>3, <3>2, <3>5, <3>6, <3>9 DEF InStep
    <2> QED
      BY <2>4, <2>5, <2>6 DEF Speaks
  \* Every call returns or blocks.
  <1>ContinueFacts.
    ASSUME NEW x, Viewed(x), NEW fs, Continue(x, fs)
    PROVE  /\ Viewed(ui') /\ ui'.out = << >>
           /\ ui'.current = x.current /\ ui'.next = x.next /\ ui'.waiting = x.waiting
           /\ toWeb' = toWeb \o x.out
           /\ wait' \in {"look", "no"}
    <2> USE <1>ContinueFacts
    <2>1. PICK o \in Seq(Orders) : o = << >>
      <3>1. << >> \in Seq(Orders)
        BY SMTT(30)
      <3> QED
        BY <3>1
    <2>2. PICK y : y = [x EXCEPT !.out = o, !.blocked = FALSE]
      OBVIOUS
    <2>3. Viewed(y)
      BY <2>2 DEF Viewed
    <2>4. y.current = x.current /\ y.next = x.next /\ y.waiting = x.waiting /\ y.out = << >>
      BY <2>1, <2>2 DEF Viewed
    <2>5. /\ toWeb' = toWeb \o x.out
          /\ \/ ui' = y /\ wait' = "look"
             \/ ui' = Return(y, fs) /\ wait' = "no"
      BY <2>1, <2>2 DEF Continue
    <2>6. ASSUME NEW z, z = Return(y, fs)
          PROVE  Viewed(z) /\ SameState(y, z)
      <3>1. PICK e, f : z = [y EXCEPT !.store = e, !.discardTimer = f]
        BY <2>6 DEF Return
      <3>2. Viewed(z)
        BY <2>3, <3>1 DEF Viewed
      <3>3. SameState(y, z)
        BY <2>3, <3>1 DEF Viewed, SameState
      <3> QED
        BY <3>2, <3>3
    <2> QED
      BY <2>3, <2>4, <2>5, <2>6 DEF SameState
  \* A message that is received joins the queue.
  <1>Received.
    ASSUME NEW a \in Seq(Reports), NEW b \in Seq(Reports), NEW c \in Seq(Reports),
           c # << >>
    PROVE  a \o Append(b, Head(c)) \o Tail(c) = a \o b \o c
    <2> USE <1>Received
    <2>1. PICK h \in Reports, e \in Seq(Reports) : h = Head(c) /\ e = Tail(c) /\ c = <<h>> \o e
      <3>1. Head(c) \in Reports /\ Tail(c) \in Seq(Reports) /\ c = <<Head(c)>> \o Tail(c)
        BY SMTT(30)
      <3> QED
        BY <3>1
    <2>2. PICK o \in Seq(Reports) : o = <<h>> /\ Append(b, h) = b \o o
      <3>1. <<h>> \in Seq(Reports) /\ Append(b, h) = b \o <<h>>
        BY SMTT(30)
      <3> QED
        BY <3>1
    <2>3. PICK f : f = b \o o
      OBVIOUS
    <2>4. f \in Seq(Reports)
      BY <2>3, ConcatFacts
    <2>5. a \o f \o e = a \o (f \o e)
      BY <2>4, ConcatAssociative, SMTT(30)
    <2>6. b \o o \o e = b \o (o \o e)
      BY ConcatAssociative, SMTT(30)
    <2>7. a \o b \o c = a \o (b \o c)
      BY ConcatAssociative, SMTT(30)
    <2> QED
      BY <2>1, <2>2, <2>3, <2>4, <2>5, <2>6, <2>7
  <1>QueueTake.
    ASSUME NEW b \in Seq(Reports), NEW c \in Seq(Reports), NEW k \in 1 .. Len(b),
           NEW e \in Seq(Reports), Without(b, k, e),
           NEW q, q = << >> \o b \o c, NEW r, r = << >> \o e \o c
    PROVE  Taken(b, k, q, r)
    <2> USE <1>QueueTake
    <2>1. PICK l \in Nat, n \in Nat : l = Len(b) /\ n = Len(c)
      BY SMTT(30)
    <2>2. PICK a \in Seq(Reports) : a = << >> /\ Len(a) = 0
      <3>1. << >> \in Seq(Reports) /\ Len(<< >>) = 0
        BY SMTT(30)
      <3> QED
        BY <3>1
    <2>3. k \in 1 .. l /\ Len(e) = l - 1 /\ l - 1 \in Nat
      BY <2>1, SMTT(30) DEF Without
    <2>4. /\ q \in Seq(Reports) /\ Len(q) = 0 + l + n
          /\ \A i \in 1 .. l : q[0 + i] = b[i]
          /\ \A i \in 1 .. n : q[0 + l + i] = c[i]
      <3>1. q = a \o b \o c
        BY <2>2
      <3>2. Joined(a, b, c, q)
        BY <3>1, Queued
      <3> QED
        BY <2>1, <2>2, <3>2 DEF Joined
    <2>5. /\ r \in Seq(Reports) /\ Len(r) = 0 + (l - 1) + n
          /\ \A i \in 1 .. l - 1 : r[0 + i] = e[i]
          /\ \A i \in 1 .. n : r[0 + (l - 1) + i] = c[i]
      <3>1. r = a \o e \o c
        BY <2>2
      <3>2. Joined(a, e, c, r)
        BY <3>1, Queued
      <3> QED
        BY <2>1, <2>2, <2>3, <3>2 DEF Joined
    <2>6. Len(q) = l + n /\ \A i \in 1 .. l : q[i] = b[i]
      <3>1. \A i \in 1 .. l : 0 + i = i
        BY SMTT(30)
      <3> QED
        BY <2>4, <3>1, SMTT(30)
    <2>7. Len(r) = l + n - 1 /\ \A i \in 1 .. l - 1 : r[i] = e[i]
      <3>1. \A i \in 1 .. l - 1 : 0 + i = i
        BY SMTT(30)
      <3> QED
        BY <2>3, <2>5, <3>1, SMTT(30)
    <2>8. ASSUME NEW i \in 1 .. l + n - 1
          PROVE  r[i] = q[IF i < k THEN i ELSE i + 1]
      <3>1. CASE i <= l - 1
        <4>1. r[i] = b[IF i < k THEN i ELSE i + 1] /\ i \in 1 .. l /\ i + 1 \in 1 .. l
          BY <2>3, <2>7, <3>1, SMTT(30) DEF Without
        <4> QED
          BY <2>6, <4>1
      <3>2. CASE ~(i <= l - 1)
        <4>1. PICK j \in 1 .. n : i = 0 + (l - 1) + j /\ i + 1 = 0 + l + j
          <5>1. i - l + 1 \in 1 .. n /\ i = 0 + (l - 1) + (i - l + 1)
                /\ i + 1 = 0 + l + (i - l + 1)
            BY <2>3, <3>2, SMTT(30)
          <5> QED
            BY <5>1
        <4>2. r[i] = c[j] /\ q[i + 1] = c[j]
          BY <2>4, <2>5, <4>1
        <4>3. ~(i < k)
          BY <2>3, <3>2, SMTT(30)
        <4> QED
          BY <4>2, <4>3
      <3> QED
        BY <3>1, <3>2
    <2>9. k \in 1 .. Len(q) /\ Len(r) = Len(q) - 1
      BY <2>3, <2>6, <2>7, SMTT(30)
    <2>10. /\ \A i \in 1 .. l : i \in 1 .. Len(q)
           /\ \A i \in 1 .. Len(q) : i < k => i \in 1 .. l
      BY <2>3, <2>6, SMTT(30)
    <2> QED
      BY <2>1, <2>4, <2>5, <2>6, <2>7, <2>8, <2>9, <2>10 DEF Without, Taken
  <1>TailIsWithout.
    ASSUME NEW q \in Seq(Reports), q # << >>
    PROVE  /\ Without(q, 1, Tail(q)) /\ 1 \in 1 .. Len(q)
           /\ Head(q) = q[1] /\ q[1] \in Reports
    <2> USE <1>TailIsWithout
    <2>1. /\ Tail(q) \in Seq(Reports) /\ Len(Tail(q)) = Len(q) - 1 /\ 1 \in 1 .. Len(q)
          /\ Head(q) = q[1] /\ q[1] \in Reports
          /\ \A i \in 1 .. Len(q) - 1 : Tail(q)[i] = q[i + 1] /\ ~(i < 1)
      BY SMTT(30)
    <2> QED
      BY <2>1 DEF Without
  \* The message in the slot leaves it.
  <1>SlotTake.
    ASSUME NEW m \in Reports, NEW b \in Seq(Reports), NEW c \in Seq(Reports),
           NEW q, q = <<m>> \o b \o c, NEW r, r = << >> \o b \o c
    PROVE  /\ q \in Seq(Reports) /\ 1 \in 1 .. Len(q) /\ q[1] = m /\ Without(q, 1, r)
    <2> USE <1>SlotTake
    <2>1. PICK p \in Seq(Reports) : p = b \o c
      BY ConcatFacts
    <2>2. PICK a \in Seq(Reports) : a = <<m>> /\ Len(a) = 1 /\ a[1] = m
      <3>1. <<m>> \in Seq(Reports) /\ Len(<<m>>) = 1 /\ <<m>>[1] = m
        BY SMTT(30)
      <3> QED
        BY <3>1
    <2>3. a \o b \o c = a \o (b \o c)
      BY ConcatAssociative, SMTT(30)
    <2>4. q = a \o p
      BY <2>1, <2>2, <2>3
    <2>5. r = p
      <3>1. << >> \o b = b
        BY SMTT(30)
      <3> QED
        BY <2>1, <3>1
    <2>6. /\ q \in Seq(Reports) /\ Len(q) = Len(a) + Len(p) /\ Len(p) \in Nat
          /\ \A i \in 1 .. Len(a) + Len(p) : q[i] = IF i <= Len(a) THEN a[i] ELSE p[i - Len(a)]
      <3>1. /\ a \o p \in Seq(Reports) /\ Len(a \o p) = Len(a) + Len(p) /\ Len(p) \in Nat
            /\ \A i \in 1 .. Len(a) + Len(p) :
                 (a \o p)[i] = IF i <= Len(a) THEN a[i] ELSE p[i - Len(a)]
        BY ConcatFacts
      <3> QED
        BY <2>4, <3>1
    <2>7. ASSUME NEW i \in 1 .. Len(p)
          PROVE  p[i] = q[IF i < 1 THEN i ELSE i + 1]
      <3>1. ~(i < 1) /\ i + 1 \in 1 .. 1 + Len(p) /\ ~(i + 1 <= 1) /\ (i + 1) - 1 = i
        BY <2>6, SMTT(30)
      <3>2. q[i + 1] = p[(i + 1) - 1]
        BY <2>2, <2>6, <3>1
      <3> QED
        BY <3>1, <3>2
    <2>8. 1 \in 1 .. Len(q) /\ q[1] = m /\ Len(p) = Len(q) - 1
      BY <2>2, <2>6, SMTT(30)
    <2> QED
      BY <2>5, <2>6, <2>7, <2>8 DEF Without
  <1>WithoutRange.
    ASSUME NEW q \in Seq(Reports), NEW k \in 1 .. Len(q), NEW r, Without(q, k, r)
    PROVE  Range(q) = {q[k]} \cup Range(r)
    <2> USE <1>WithoutRange
    <2>1. /\ Range(q) = {q[i] : i \in 1 .. Len(q)} /\ Range(r) = {r[i] : i \in 1 .. Len(r)}
      BY RangeFacts DEF Without
    <2>2. \A i \in 1 .. Len(r) : r[i] = q[IF i < k THEN i ELSE i + 1]
                                 /\ i \in 1 .. Len(q) /\ i + 1 \in 1 .. Len(q)
      BY SMTT(30) DEF Without
    <2>3. Range(r) \subseteq Range(q)
      BY <2>1, <2>2
    <2>4. ASSUME NEW i \in 1 .. Len(q), i # k
          PROVE  q[i] \in Range(r)
      <3>1. CASE i < k
        <4>1. i \in 1 .. Len(r)
          BY <3>1, SMTT(30) DEF Without
        <4> QED
          BY <2>1, <2>2, <3>1, <4>1
      <3>2. CASE ~(i < k)
        <4>1. i - 1 \in 1 .. Len(r) /\ ~(i - 1 < k) /\ (i - 1) + 1 = i
          BY <2>4, <3>2, SMTT(30) DEF Without
        <4>2. r[i - 1] = q[i]
          BY <2>2, <4>1
        <4> QED
          BY <2>1, <4>1, <4>2
      <3> QED
        BY <3>1, <3>2
    <2> QED
      BY <2>1, <2>3, <2>4
  <1>SlotJump.
    ASSUME NEW a \in Seq(Reports), NEW b \in Seq(Reports), NEW c \in Seq(Reports),
           Len(a) \in 0 .. 1, c # << >>, IsDid(c[1]),
           \A i \in 1 .. Len(b) : ~IsDid(b[i]),
           NEW q, q = a \o b \o c, NEW h, h = <<Head(c)>>,
           NEW r, r = h \o b \o Tail(c)
    PROVE  Overtaken(a, c, q, r)
    <2> USE <1>SlotJump
    <2>1. PICK k \in 0 .. 1, l \in Nat, n \in Nat : k = Len(a) /\ l = Len(b) /\ n + 1 = Len(c)
      <3>1. Len(b) \in Nat /\ Len(c) - 1 \in Nat /\ (Len(c) - 1) + 1 = Len(c)
        BY SMTT(30)
      <3> QED
        BY <3>1
    <2>2. PICK e \in Seq(Reports) : e = Tail(c)
      <3>1. Tail(c) \in Seq(Reports)
        BY SMTT(30)
      <3> QED
        BY <3>1
    <2>3. /\ Len(e) = n /\ Head(c) = c[1] /\ c[1] \in Reports
          /\ \A i \in 1 .. n : e[i] = c[i + 1]
      BY <2>1, <2>2, SMTT(30)
    <2>4. h \in Seq(Reports) /\ Len(h) = 1 /\ h[1] = c[1] /\ h = <<c[1]>>
      BY <2>3, SMTT(30)
    <2>5. Joined(a, b, c, q)
      BY Queued
    <2>6. Joined(h, b, e, r)
      BY <2>2, <2>4, Queued
    <2>7. /\ \A i \in 1 .. k : q[i] = a[i]
          /\ \A i \in 1 .. l : q[k + i] = b[i]
          /\ \A i \in 1 .. n + 1 : q[k + l + i] = c[i]
      BY <2>1, <2>5 DEF Joined
    <2>8. /\ \A i \in 1 .. 1 : r[i] = h[i]
          /\ \A i \in 1 .. l : r[1 + i] = b[i]
          /\ \A i \in 1 .. n : r[1 + l + i] = e[i]
      BY <2>1, <2>3, <2>4, <2>6 DEF Joined
    <2>9. q \in Seq(Reports) /\ Len(q) = k + l + (n + 1)
      BY <2>1, <2>5 DEF Joined
    <2>10. r \in Seq(Reports) /\ Len(r) = 1 + l + n
      BY <2>1, <2>3, <2>4, <2>6 DEF Joined
    <2>11. PICK j \in 1 .. k + l + (n + 1) : j = k + l + 1
      BY SMTT(30)
    <2>12. Len(r) = Len(q) - k
      <3>1. 1 + l + n = (k + l + (n + 1)) - k
        BY SMTT(30)
      <3> QED
        BY <2>9, <2>10, <3>1
    <2>13. q[j] = c[1] /\ r[1] = q[j]
      <3>1. 1 \in 1 .. n + 1 /\ 1 \in 1 .. 1
        BY SMTT(30)
      <3>2. q[k + l + 1] = c[1] /\ r[1] = h[1]
        BY <2>7, <2>8, <3>1
      <3> QED
        BY <2>4, <2>11, <3>2
    <2>14. ASSUME NEW i \in 2 .. l + 1
           PROVE  r[i] = q[i - 1 + k]
      <3>1. PICK o \in 1 .. l : i = 1 + o /\ i - 1 + k = k + o
        <4>1. i - 1 \in 1 .. l /\ i = 1 + (i - 1) /\ i - 1 + k = k + (i - 1)
          BY SMTT(30)
        <4> QED
          BY <4>1
      <3>2. r[1 + o] = b[o] /\ q[k + o] = b[o]
        BY <2>7, <2>8
      <3>3. r[i] = r[1 + o] /\ q[i - 1 + k] = q[k + o]
        BY <3>1
      <3> QED
        BY <3>2, <3>3
    <2>15. ASSUME NEW i \in l + 2 .. 1 + l + n
           PROVE  r[i] = q[i + k]
      <3>1. PICK o \in 1 .. n : /\ i = 1 + l + o /\ i + k = k + l + (o + 1)
                                /\ o + 1 \in 1 .. n + 1
        <4>1. /\ i - l - 1 \in 1 .. n /\ i = 1 + l + (i - l - 1)
              /\ i + k = k + l + ((i - l - 1) + 1) /\ (i - l - 1) + 1 \in 1 .. n + 1
          BY SMTT(30)
        <4> QED
          BY <4>1
      <3>2. r[1 + l + o] = c[o + 1] /\ q[k + l + (o + 1)] = c[o + 1]
        BY <2>3, <2>7, <2>8, <3>1
      <3>3. r[i] = r[1 + l + o] /\ q[i + k] = q[k + l + (o + 1)]
        BY <3>1
      <3> QED
        BY <3>2, <3>3
    <2>16. \A i \in 1 .. l : ~IsDid(q[k + i])
      BY <2>1, <2>7
    <2>17. Jumped(q, k, l, j, r)
      BY <2>10, <2>11, <2>12, <2>13, <2>14, <2>15, <2>16 DEF Jumped
    <2>18. ASSUME NEW i \in Nat, NEW s \in Nat, NEW d \in BOOLEAN, Ordered(i, s, d, q)
           PROVE  Ordered(i, s, d, r)
      <3>1. j \in 1 .. Len(q)
        BY <2>9, <2>11
      <3> QED
        BY <2>9, <2>10, <2>17, <2>18, <3>1, <1>OrderedJump
    <2>19. Range(q) = {q[i] : i \in 1 .. Len(q)}
      BY <2>9, ReportRange
    <2>20. Range(r) = {r[i] : i \in 1 .. Len(r)}
      BY <2>10, ReportRange
    <2>21. Range(a) = {a[i] : i \in 1 .. Len(a)}
      BY ReportRange
    <2>22. c[1] \in Range(r)
      <3>1. 1 \in 1 .. Len(r)
        BY <2>10, SMTT(30)
      <3> QED
        BY <2>13, <2>20, <3>1
    <2>23. ASSUME NEW i \in 1 .. k + l + (n + 1)
           PROVE  q[i] \in Range(r) \/ q[i] \in Range(a)
      <3>1. CASE i <= k
        <4>1. i \in 1 .. k
          BY <3>1, SMTT(30)
        <4>2. q[i] = a[i] /\ i \in 1 .. Len(a)
          BY <2>1, <2>7, <4>1
        <4> QED
          BY <2>21, <4>2
      <3>2. CASE k < i /\ i <= k + l
        <4>1. PICK o : o = i - k + 1
          OBVIOUS
        <4>2. o \in 2 .. l + 1 /\ o \in 1 .. 1 + l + n /\ o - 1 + k = i
          BY <3>2, <4>1, SMTT(30)
        <4>3. r[o] = q[o - 1 + k]
          BY <2>14, <4>2
        <4> QED
          BY <2>10, <2>20, <4>2, <4>3
      <3>3. CASE i = j
        BY <2>13, <2>22, <3>3
      <3>4. CASE k + l + 1 < i
        <4>1. PICK o : o = i - k
          OBVIOUS
        <4>2. o \in l + 2 .. 1 + l + n /\ o \in 1 .. 1 + l + n /\ o + k = i
          BY <3>4, <4>1, SMTT(30)
        <4>3. r[o] = q[o + k]
          BY <2>15, <4>2
        <4> QED
          BY <2>10, <2>20, <4>2, <4>3
      <3>5. i <= k \/ (k < i /\ i <= k + l) \/ i = j \/ k + l + 1 < i
        BY <2>11, SMTT(30)
      <3> QED
        BY <3>1, <3>2, <3>3, <3>4, <3>5
    <2>24. \A m \in Range(q) : m \in Range(r) \/ m \in Range(a)
      BY <2>9, <2>19, <2>23
    <2> QED
      BY <2>2, <2>4, <2>18, <2>22, <2>24 DEF Overtaken
  <1>Continues.
    ASSUME NEW x, Viewed(x), NEW fs, Continue(x, fs), toWeb \in Seq(Orders)
    PROVE  UIBase
    <2> USE <1>Continues
    <2>1. /\ Viewed(ui') /\ ui'.out = << >> /\ toWeb' = toWeb \o x.out
          /\ wait' \in {"look", "no"}
      BY <1>ContinueFacts
    <2>2. x.out \in Seq(Orders)
      BY DEF Viewed
    <2>3. \A o \in Seq(Orders) : toWeb \o o \in Seq(Orders)
      BY SMTT(30)
    <2> QED
      BY <2>1, <2>2, <2>3 DEF UIBase
  \* A step of the UI process that handles no answer.
  <1>ContinueKeeps.
    ASSUME Base, NEW x, Speaks(ui.next, ui.waiting, x), x.current = ui.current,
           NEW fs, Continue(x, fs), NEW q \in Seq(Reports),
           Ordered(ui.current, web.stateID, web.shouldSend, q),
           Asked(web.stateID, ui.next, toWeb),
           Answered(ui.waiting, web.stateID, web.shouldSend, q, toWeb),
           \/ Acknowledged(web.waiting, web.stateID, q, toWeb)
           \/ \E m \in Orders : ~IsAsk(m) /\ x.out = <<m>>
    PROVE  InStep(ui', web, q, toWeb')
    <2> USE <1>ContinueKeeps
    <2>1. /\ Timed(web) /\ toWeb \in Seq(Orders) /\ Viewed(x)
          /\ ui.next \in Nat /\ ui.waiting \in BOOLEAN
      BY DEF Base, Viewed, Speaks
    <2>2. /\ ui'.current = x.current /\ ui'.next = x.next /\ ui'.waiting = x.waiting
          /\ toWeb' = toWeb \o x.out
      BY <2>1, <1>ContinueFacts
    <2>3. Ordered(x.current, web.stateID, web.shouldSend, q)
      OBVIOUS
    <2> QED
      BY <2>1, <2>2, <2>3, <1>SpeaksKeeps
  \* The first answer is handled: it is for a newer state, one that was asked
  \* for.
  <1>HandleDidKeeps.
    ASSUME Base, NEW q \in Seq(Reports), InStep(ui, web, q, toWeb),
           NEW k \in 1 .. Len(q), IsDid(q[k]),
           \A i \in 1 .. Len(q) : i < k => ~IsDid(q[i]),
           NEW r, Without(q, k, r), NEW fs, HandleDid(q[k], fs)
    PROVE  InStep(ui', web, r, toWeb')
    <2> USE <1>HandleDidKeeps
    <2>1. PICK m \in Reports : m = q[k]
      <3>1. q[k] \in Reports
        BY SMTT(30)
      <3> QED
        BY <3>1
    <2>2. /\ Timed(web) /\ toWeb \in Seq(Orders) /\ Viewed(ui) /\ ui.out = << >>
          /\ ui.next \in Nat /\ ui.current \in Nat
          /\ web.stateID \in Nat /\ web.shouldSend \in BOOLEAN
      BY DEF Base, Viewed, Timed, Webs
    <2>3. Ordered(ui.current, web.stateID, web.shouldSend, q)
      BY DEF InStep
    <2>4. r \in Seq(Reports)
      BY DEF Without
    <2>5. Ordered(m.id, web.stateID, web.shouldSend, r)
      BY <2>1, <2>2, <2>3, <2>4, <1>OrderedTake
    <2>6. m.id <= ui.next
      <3>1. m.id <= web.stateID
        BY <2>1, <2>3 DEF Ordered
      <3>2. web.stateID <= ui.next
        BY DEF InStep, Asked
      <3>3. m.id \in Nat
        BY DEF Reports
      <3> QED
        BY <2>2, <3>1, <3>2, <3>3, SMTT(30)
    <2>7. PICK b \in BOOLEAN : b = (\E i \in DOMAIN fs : fs[i].of = "did")
      OBVIOUS
    <2>8. PICK x : x = [DidUpdateBackingStoreState(ui, m) EXCEPT !.nested = b]
      OBVIOUS
    <2>9. Viewed(x) /\ Speaks(ui.next, FALSE, x) /\ x.current = m.id
      BY <2>2, <2>6, <2>8, <1>DidSpeaks
    <2>10. Continue(x, Append(fs, DidFrame(m.info)))
      BY <2>1, <2>7, <2>8 DEF HandleDid
    <2>11. /\ ui'.current = x.current /\ ui'.next = x.next /\ ui'.waiting = x.waiting
           /\ toWeb' = toWeb \o x.out
      BY <2>9, <2>10, <1>ContinueFacts
    <2>12. Range(q) = {m} \cup Range(r)
      BY <2>1, <1>WithoutRange
    <2>13. Acknowledged(web.waiting, web.stateID, r, toWeb)
      <3>1. m.type # "Update"
        BY <2>1 DEF IsDid
      <3> QED
        BY <2>12, <3>1 DEF InStep, Acknowledged
    <2>14. Answered(FALSE, web.stateID, web.shouldSend, r, toWeb)
      BY DEF Answered
    <2>15. Asked(web.stateID, ui.next, toWeb)
      BY DEF InStep
    <2>16. Ordered(x.current, web.stateID, web.shouldSend, r)
      BY <2>5, <2>9
    <2> QED
      BY <2>2, <2>4, <2>9, <2>11, <2>13, <2>14, <2>15, <2>16, <1>SpeaksKeeps
  \* Whatever answer is handled, types are kept.
  <1>HandleDidBase.
    ASSUME Base, NEW m \in Reports, NEW fs, HandleDid(m, fs)
    PROVE  UIBase
    <2> USE <1>HandleDidBase
    <2>1. PICK b \in BOOLEAN : b = (\E i \in DOMAIN fs : fs[i].of = "did")
      OBVIOUS
    <2>2. PICK x : x = [DidUpdateBackingStoreState(ui, m) EXCEPT !.nested = b]
      OBVIOUS
    <2>3. Viewed(ui) /\ ui.out = << >> /\ toWeb \in Seq(Orders)
      BY DEF Base
    <2>4. Viewed(x)
      BY <2>2, <2>3, <1>DidSpeaks
    <2>5. Continue(x, Append(fs, DidFrame(m.info)))
      BY <2>1, <2>2 DEF HandleDid
    <2> QED
      BY <2>3, <2>4, <2>5, <1>Continues
  <1>UIKeepsBase.
    ASSUME Base, UIBase, slot' \in Seq(Reports), incoming' \in Seq(Reports),
           wire' \in Seq(Reports), web' = web
    PROVE  Base'
    BY <1>UIKeepsBase DEF Base, UIBase
  <1>AfterStep.
    ASSUME wait' \in {"look", "no"}, slot' = << >>
    PROVE  InWait'
    <2> USE <1>AfterStep
    <2>1. wait' # "found nothing" /\ wait' \notin {"found nothing", "waiting"}
      OBVIOUS
    <2> QED
      BY <2>1 DEF InWait
  \* The view is painted or changes, or a wait times out: no message is handled.
  <1>SpeaksStep.
    ASSUME Base, NEW x, Speaks(ui.next, ui.waiting, x), x.current = ui.current,
           NEW fs, Continue(x, fs), slot' = slot,
           UNCHANGED <<incoming, wire, web>>,
           ~WaitRaces /\ InWait => slot = << >>
    PROVE  Kept
    <2> USE <1>SpeaksStep
    <2>1. Viewed(x) /\ toWeb \in Seq(Orders)
      BY DEF Base, Speaks
    <2>2. UIBase
      BY <2>1, <1>Continues
    <2>3. incoming' = incoming /\ wire' = wire /\ web' = web
      OBVIOUS
    <2>4. slot \in Seq(Reports) /\ incoming \in Seq(Reports) /\ wire \in Seq(Reports)
      BY DEF Base
    <2>5. Base'
      BY <2>2, <2>3, <2>4, <1>UIKeepsBase
    <2>6. ASSUME ~WaitRaces, InWait, InTouch
          PROVE  InWait' /\ InTouch'
      <3>1. InWait'
        BY <2>2, <2>6, <1>AfterStep DEF UIBase
      <3>2. PICK q : q = Unhandled
        OBVIOUS
      <3>3. q \in Seq(Reports)
        BY <2>4, <3>2, Queued DEF Unhandled, Joined
      <3>4. /\ Ordered(ui.current, web.stateID, web.shouldSend, q)
            /\ Asked(web.stateID, ui.next, toWeb)
            /\ Answered(ui.waiting, web.stateID, web.shouldSend, q, toWeb)
            /\ Acknowledged(web.waiting, web.stateID, q, toWeb)
        BY <2>6, <3>2 DEF InTouch, InStep
      <3>5. InStep(ui', web, q, toWeb')
        BY <3>3, <3>4, <1>ContinueKeeps
      <3>6. Unhandled' = q
        BY <2>3, <3>2 DEF Unhandled
      <3> QED
        BY <2>3, <3>1, <3>5, <3>6 DEF InTouch
    <2> QED
      BY <2>5, <2>6 DEF Kept
  <1>PaintViewKeeps.
    ASSUME Base, PaintView
    PROVE  Kept
    <2> USE <1>PaintViewKeeps
    <2>1. Viewed(ui) /\ ui.out = << >>
      BY DEF Base
    <2>2. PICK x, fs : x = Paint(ui) /\ Continue(x, fs)
      BY DEF PaintView
    <2>3. Speaks(ui.next, ui.waiting, x) /\ x.current = ui.current
      BY <2>1, <2>2, <1>PaintSpeaks
    <2>4. /\ wait = "no" /\ slot' = slot /\ UNCHANGED <<incoming, wire, web>>
      BY DEF PaintView, Idle, webVars
    <2>5. InWait => slot = << >>
      BY <2>4, NoSlot
    <2> QED
      BY <2>2, <2>3, <2>4, <2>5, <1>SpeaksStep
  <1>SizeDidChangeKeeps.
    ASSUME Base, SizeDidChange
    PROVE  Kept
    <2> USE <1>SizeDidChangeKeeps
    <2>1. Viewed(ui) /\ ui.out = << >>
      BY DEF Base
    <2>2. PICK z \in Sizes : Continue(SetSize(ui, z), << >>)
      BY DEF SizeDidChange
    <2>3. z \in Nat
      BY DrawingAreaAssumption
    <2>4. PICK x : x = SetSize(ui, z) /\ Continue(x, << >>)
      BY <2>2
    <2>5. Speaks(ui.next, ui.waiting, x) /\ x.current = ui.current
      BY <2>1, <2>3, <2>4, <1>SetSizeSpeaks
    <2>6. /\ wait = "no" /\ slot' = slot /\ UNCHANGED <<incoming, wire, web>>
      BY DEF SizeDidChange, Idle, webVars
    <2>7. InWait => slot = << >>
      BY <2>6, NoSlot
    <2> QED
      BY <2>4, <2>5, <2>6, <2>7, <1>SpeaksStep
  <1>DiscardableDidChangeKeeps.
    ASSUME Base, DiscardableDidChange
    PROVE  Kept
    <2> USE <1>DiscardableDidChangeKeeps
    <2>1. Viewed(ui) /\ ui.out = << >>
      BY DEF Base
    <2>2. PICK b \in BOOLEAN : b = ~ui.discardable
      BY <2>1 DEF Viewed
    <2>3. PICK x : x = SetBackingStoreIsDiscardable(ui, b) /\ Continue(x, << >>)
      BY <2>2 DEF DiscardableDidChange
    <2>4. Speaks(ui.next, ui.waiting, x) /\ x.current = ui.current
      BY <2>1, <2>3, <1>DiscardableSpeaks
    <2>5. /\ wait = "no" /\ slot' = slot /\ UNCHANGED <<incoming, wire, web>>
      BY DEF DiscardableDidChange, Idle, webVars
    <2>6. InWait => slot = << >>
      BY <2>5, NoSlot
    <2> QED
      BY <2>3, <2>4, <2>5, <2>6, <1>SpeaksStep
  <1>DiscardTimerFiredKeeps.
    ASSUME Base, DiscardTimerFired
    PROVE  Kept
    <2> USE <1>DiscardTimerFiredKeeps
    <2>1. Viewed(ui) /\ ui.out = << >>
      BY DEF Base
    <2>2. PICK x : x = DiscardBackingStore(ui) /\ Continue(x, << >>)
      BY DEF DiscardTimerFired
    <2>3. Speaks(ui.next, ui.waiting, x) /\ x.current = ui.current
      BY <2>1, <2>2, <1>DiscardSpeaks
    <2>4. /\ wait = "no" /\ slot' = slot /\ UNCHANGED <<incoming, wire, web>>
      BY DEF DiscardTimerFired, Idle, webVars
    <2>5. InWait => slot = << >>
      BY <2>4, NoSlot
    <2> QED
      BY <2>2, <2>3, <2>4, <2>5, <1>SpeaksStep
  \* With the race the slot may hold a message that a timeout throws away; then
  \* only the types are kept.
  <1>TimeOutKeeps.
    ASSUME Base, TimeOut
    PROVE  Kept
    <2> USE <1>TimeOutKeeps
    <2>1. Viewed(ui) /\ ui.out = << >> /\ toWeb \in Seq(Orders)
      BY DEF Base
    <2>2. Continue(ui, frames)
      BY DEF TimeOut
    <2>3. slot' = << >> /\ UNCHANGED <<incoming, wire, web>>
      BY DEF TimeOut, webVars
    <2>4. CASE slot = << >>
      <3>1. Speaks(ui.next, ui.waiting, ui) /\ ui.current = ui.current
        BY <2>1, <1>SilenceSpeaks DEF SameState
      <3>2. slot' = slot
        BY <2>3, <2>4
      <3> QED
        BY <2>2, <2>3, <2>4, <3>1, <3>2, <1>SpeaksStep
    <2>5. CASE slot # << >>
      <3>1. WaitRaces
        BY <2>5 DEF TimeOut
      <3>2. UIBase
        BY <2>1, <2>2, <1>Continues
      <3>3. << >> \in Seq(Reports)
        BY SMTT(30)
      <3>4. /\ slot' \in Seq(Reports) /\ incoming' \in Seq(Reports)
            /\ wire' \in Seq(Reports) /\ web' = web
        BY <2>3, <3>3 DEF Base
      <3>5. Base'
        BY <3>2, <3>4, <1>UIKeepsBase
      <3> QED
        BY <3>1, <3>5 DEF Kept
    <2> QED
      BY <2>4, <2>5
  \* A message that is no answer is handled.
  <1>DispatchOther.
    ASSUME Base, NEW m \in Reports, ~IsDid(m), NEW x, Speaks(ui.next, ui.waiting, x),
           x.current = ui.current, Continue(x, << >>),
           \/ m.type # "Update" \/ m.id < ui.current
           \/ \E a \in Orders : ~IsAsk(a) /\ x.out = <<a>>,
           NEW q \in Seq(Reports), InStep(ui, web, q, toWeb),
           1 \in 1 .. Len(q), q[1] = m, NEW r, Without(q, 1, r)
    PROVE  InStep(ui', web, r, toWeb')
    <2> USE <1>DispatchOther
    <2>1. /\ ui.current \in Nat /\ web.stateID \in Nat /\ web.shouldSend \in BOOLEAN
          /\ r \in Seq(Reports) /\ m.id \in Nat
      BY DEF Base, Viewed, Timed, Webs, Without, Reports
    <2>2. /\ Ordered(ui.current, web.stateID, web.shouldSend, q)
          /\ Asked(web.stateID, ui.next, toWeb)
          /\ Answered(ui.waiting, web.stateID, web.shouldSend, q, toWeb)
          /\ Acknowledged(web.waiting, web.stateID, q, toWeb)
      BY DEF InStep
    <2>3. Ordered(ui.current, web.stateID, web.shouldSend, r)
      BY <2>1, <2>2, <1>OrderedTail
    <2>4. Range(q) = {m} \cup Range(r)
      BY <1>WithoutRange
    <2>5. Answered(ui.waiting, web.stateID, web.shouldSend, r, toWeb)
      BY <2>2, <2>4 DEF Answered
    <2>6. ASSUME m.type # "Update" \/ m.id < ui.current
          PROVE  Acknowledged(web.waiting, web.stateID, r, toWeb)
      <3>1. ui.current <= web.stateID
        BY <2>2 DEF Ordered
      <3>2. m.type # "Update" \/ m.id # web.stateID
        BY <2>1, <2>6, <3>1, SMTT(30)
      <3> QED
        BY <2>2, <2>4, <3>2 DEF Acknowledged
    <2> QED
      BY <2>1, <2>2, <2>3, <2>5, <2>6, <1>ContinueKeeps
  \* The queue of an idle UI process.
  <1>IdleQueue.
    ASSUME Base, incoming # << >>, slot = << >>, slot' = slot,
           incoming' = Tail(incoming), wire' = wire,
           NEW q, q = Unhandled, NEW r, r = Unhandled'
    PROVE  /\ q \in Seq(Reports) /\ 1 \in 1 .. Len(q) /\ q[1] = Head(incoming)
           /\ Without(q, 1, r)
    <2> USE <1>IdleQueue
    <2>1. incoming \in Seq(Reports) /\ wire \in Seq(Reports)
      BY DEF Base
    <2>2. PICK b \in Seq(Reports), c \in Seq(Reports) : b = incoming /\ c = wire
      BY <2>1
    <2>3. PICK e : e = Tail(b)
      OBVIOUS
    <2>4. /\ Without(b, 1, e) /\ 1 \in 1 .. Len(b) /\ Head(b) = b[1]
      BY <2>2, <2>3, <1>TailIsWithout
    <2>5. e \in Seq(Reports)
      BY <2>4 DEF Without
    <2>6. q = << >> \o b \o c /\ r = << >> \o e \o c
      BY <2>2, <2>3 DEF Unhandled
    <2>7. Taken(b, 1, q, r)
      BY <2>4, <2>5, <2>6, <1>QueueTake
    <2> QED
      BY <2>2, <2>4, <2>7 DEF Taken
  <1>DispatchMessageKeeps.
    ASSUME Base, DispatchMessage
    PROVE  Kept
    <2> USE <1>DispatchMessageKeeps
    <2>1. /\ Viewed(ui) /\ ui.out = << >> /\ toWeb \in Seq(Orders)
          /\ incoming \in Seq(Reports) /\ wire \in Seq(Reports) /\ slot \in Seq(Reports)
      BY DEF Base
    <2>2. /\ incoming # << >> /\ wait = "no" /\ incoming' = Tail(incoming)
          /\ slot' = slot /\ wire' = wire /\ web' = web
      BY DEF DispatchMessage, Idle, webVars
    <2>3. PICK m \in Reports : m = Head(incoming)
      <3>1. Head(incoming) \in Reports
        BY <2>1, <2>2, SMTT(30)
      <3> QED
        BY <3>1
    <2>4. Tail(incoming) \in Seq(Reports)
      BY <2>1, <2>2, SMTT(30)
    <2>5. CASE IsDid(m)
      <3>1. HandleDid(m, << >>)
        <4>1. /\ m.type # "Update" /\ m.type # "EnterAcceleratedCompositingMode"
              /\ m.type # "ExitAcceleratedCompositingMode"
          BY <2>5 DEF IsDid
        <4> QED
          BY <2>3, <2>5, <4>1 DEF DispatchMessage
      <3>2. UIBase
        BY <3>1, <1>HandleDidBase
      <3>3. Base'
        BY <2>1, <2>2, <2>4, <3>2, <1>UIKeepsBase
      <3>4. ASSUME InWait, InTouch
            PROVE  InWait' /\ InTouch'
        <4>1. slot = << >>
          BY <2>2, <3>4, NoSlot
        <4>2. InWait'
          BY <2>2, <3>2, <4>1, <1>AfterStep DEF UIBase
        <4>3. PICK q, r : q = Unhandled /\ r = Unhandled'
          OBVIOUS
        <4>4. /\ q \in Seq(Reports) /\ 1 \in 1 .. Len(q) /\ q[1] = m
              /\ Without(q, 1, r)
          BY <2>2, <2>3, <4>1, <4>3, <1>IdleQueue
        <4>5. \A i \in 1 .. Len(q) : i < 1 => ~IsDid(q[i])
          BY SMTT(30)
        <4>6. InStep(ui, web, q, toWeb) /\ HandleDid(q[1], << >>) /\ IsDid(q[1])
          BY <2>5, <3>1, <3>4, <4>3, <4>4 DEF InTouch
        <4>7. InStep(ui', web, r, toWeb')
          BY <4>4, <4>5, <4>6, <1>HandleDidKeeps
        <4> QED
          BY <2>2, <4>2, <4>3, <4>7 DEF InTouch
      <3> QED
        BY <3>3, <3>4 DEF Kept
    <2>6. CASE ~IsDid(m)
      <3>1. PICK x : /\ Continue(x, << >>)
                     /\ \/ m.type = "Update" /\ x = Update(ui, m)
                        \/ m.type # "Update" /\ (x = EnterMode(ui, m) \/ x = ExitMode(ui, m))
        <4>1. \/ m.type = "Update" \/ m.type = "EnterAcceleratedCompositingMode"
              \/ m.type = "ExitAcceleratedCompositingMode"
          BY <2>6 DEF IsDid, Reports
        <4>2. CASE m.type = "Update"
          <5>1. Continue(Update(ui, m), << >>)
            <6>1. ~IsDid(m) /\ m.type # "EnterAcceleratedCompositingMode"
                  /\ m.type # "ExitAcceleratedCompositingMode"
              BY <2>6, <4>2
            <6> QED
              BY <2>3, <4>2, <6>1 DEF DispatchMessage
          <5> QED
            BY <4>2, <5>1
        <4>3. CASE m.type = "EnterAcceleratedCompositingMode"
          <5>1. m.type # "Update" /\ m.type # "ExitAcceleratedCompositingMode"
            BY <4>3
          <5>2. Continue(EnterMode(ui, m), << >>)
            BY <2>3, <2>6, <4>3, <5>1 DEF DispatchMessage
          <5> QED
            BY <5>1, <5>2
        <4>4. CASE m.type = "ExitAcceleratedCompositingMode"
          <5>1. m.type # "Update" /\ m.type # "EnterAcceleratedCompositingMode"
            BY <4>4
          <5>2. Continue(ExitMode(ui, m), << >>)
            BY <2>3, <2>6, <4>4, <5>1 DEF DispatchMessage
          <5> QED
            BY <5>1, <5>2
        <4> QED
          BY <4>1, <4>2, <4>3, <4>4
      <3>2. /\ Speaks(ui.next, ui.waiting, x) /\ x.current = ui.current
            /\ \/ m.type # "Update" \/ m.id < ui.current
               \/ \E a \in Orders : ~IsAsk(a) /\ x.out = <<a>>
        <4>1. CASE m.type = "Update" /\ x = Update(ui, m)
          BY <2>1, <4>1, <1>UpdateSpeaks
        <4>2. CASE m.type # "Update" /\ (x = EnterMode(ui, m) \/ x = ExitMode(ui, m))
          BY <2>1, <4>2, <1>ModeSpeaks
        <4> QED
          BY <3>1, <4>1, <4>2
      <3>3. Viewed(x)
        BY <3>2 DEF Speaks
      <3>4. UIBase
        BY <2>1, <3>1, <3>3, <1>Continues
      <3>5. Base'
        BY <2>1, <2>2, <2>4, <3>4, <1>UIKeepsBase
      <3>6. ASSUME InWait, InTouch
            PROVE  InWait' /\ InTouch'
        <4>1. slot = << >>
          BY <2>2, <3>6, NoSlot
        <4>2. InWait'
          BY <2>2, <3>4, <4>1, <1>AfterStep DEF UIBase
        <4>3. PICK q, r : q = Unhandled /\ r = Unhandled'
          OBVIOUS
        <4>4. /\ q \in Seq(Reports) /\ 1 \in 1 .. Len(q) /\ q[1] = m
              /\ Without(q, 1, r)
          BY <2>2, <2>3, <4>1, <4>3, <1>IdleQueue
        <4>5. InStep(ui, web, q, toWeb)
          BY <3>6, <4>3 DEF InTouch
        <4>6. InStep(ui', web, r, toWeb')
          BY <2>6, <3>1, <3>2, <4>4, <4>5, <1>DispatchOther
        <4> QED
          BY <2>2, <4>2, <4>3, <4>6 DEF InTouch
      <3> QED
        BY <3>5, <3>6 DEF Kept
    <2> QED
      BY <2>5, <2>6
  <1>LookForMessageKeeps.
    ASSUME Base, LookForMessage
    PROVE  Kept
    <2> USE <1>LookForMessageKeeps
    <2>1. /\ incoming \in Seq(Reports) /\ wire \in Seq(Reports) /\ slot \in Seq(Reports)
      BY DEF Base
    <2>2. wait = "look" /\ slot' = slot /\ wire' = wire /\ web' = web
      BY DEF LookForMessage, webVars
    <2>3. CASE FirstDid # 0
      <3>1. PICK k : k = FirstDid
        OBVIOUS
      <3>2. /\ k \in 1 .. Len(incoming) /\ IsDid(incoming[k])
            /\ \A i \in 1 .. Len(incoming) : i < k => ~IsDid(incoming[i])
        BY <2>1, <2>3, <3>1, FirstDidFacts
      <3>3. HandleDid(incoming[k], frames) /\ incoming' = RemoveAt(incoming, k)
        BY <2>3, <3>1 DEF LookForMessage
      <3>4. incoming[k] \in Reports
        BY <2>1, <3>2, SMTT(30)
      <3>5. UIBase
        BY <3>3, <3>4, <1>HandleDidBase
      <3>6. PICK b \in Seq(Reports), c \in Seq(Reports) : b = incoming /\ c = wire
        BY <2>1
      <3>7. PICK e : e = RemoveAt(b, k)
        OBVIOUS
      <3>8. k \in 1 .. Len(b)
        BY <3>2, <3>6
      <3>9. Without(b, k, e) /\ e \in Seq(Reports)
        BY <3>7, <3>8, <1>RemoveAtFacts DEF Without
      <3>10. incoming' = e
        BY <3>3, <3>6, <3>7
      <3>11. Base'
        BY <2>1, <2>2, <3>5, <3>9, <3>10, <1>UIKeepsBase
      <3>12. ASSUME InWait, InTouch
             PROVE  InWait' /\ InTouch'
        <4>1. slot = << >>
          BY <2>2, <3>12, NoSlot
        <4>2. InWait'
          BY <2>2, <3>5, <4>1, <1>AfterStep DEF UIBase
        <4>3. PICK q, r : q = Unhandled /\ r = Unhandled'
          OBVIOUS
        <4>4. q = << >> \o b \o c /\ r = << >> \o e \o c
          BY <2>2, <3>6, <3>10, <4>1, <4>3 DEF Unhandled
        <4>5. Taken(b, k, q, r)
          BY <3>8, <3>9, <4>4, <1>QueueTake
        <4>6. /\ q \in Seq(Reports) /\ k \in 1 .. Len(q) /\ Without(q, k, r)
              /\ q[k] = incoming[k]
          BY <3>6, <3>8, <4>5 DEF Taken
        <4>7. \A i \in 1 .. Len(q) : i < k => ~IsDid(q[i])
          BY <3>2, <3>6, <4>5 DEF Taken
        <4>8. InStep(ui, web, q, toWeb) /\ HandleDid(q[k], frames) /\ IsDid(q[k])
          BY <3>2, <3>3, <3>12, <4>3, <4>6 DEF InTouch
        <4>9. InStep(ui', web, r, toWeb')
          BY <4>6, <4>7, <4>8, <1>HandleDidKeeps
        <4> QED
          BY <2>2, <4>2, <4>3, <4>9 DEF InTouch
      <3> QED
        BY <3>11, <3>12 DEF Kept
    <2>4. CASE FirstDid = 0
      <3>1. wait' = "found nothing" /\ UNCHANGED <<ui, incoming, toWeb>>
        BY <2>4 DEF LookForMessage
      <3>2. Base' /\ (InTouch => InTouch')
        BY <2>2, <3>1 DEF Base, InTouch, Unhandled
      <3>3. \A i \in 1 .. Len(incoming) : ~IsDid(incoming[i])
        BY <2>1, <2>4, FirstDidFacts
      <3>4. InWait => slot = << >>
        BY <2>2, NoSlot
      <3>5. InWait => InWait'
        BY <2>2, <3>1, <3>3, <3>4 DEF InWait
      <3> QED
        BY <3>2, <3>5 DEF Kept
    <2> QED
      BY <2>3, <2>4
  <1>StartWaitingKeeps.
    ASSUME Base, StartWaiting
    PROVE  Kept
    <2> USE <1>StartWaitingKeeps
    <2>1. /\ wait = "found nothing" /\ wait' = "waiting"
          /\ UNCHANGED <<ui, slot, incoming, wire, toWeb, web>>
      BY DEF StartWaiting, webVars
    <2>2. Base' /\ (InTouch => InTouch')
      BY <2>1 DEF Base, InTouch, Unhandled
    <2>3. wait' \notin {"no", "look"} /\ wait' # "found nothing"
      BY <2>1
    <2>4. InWait => InWait'
      BY <2>1, <2>3 DEF InWait
    <2> QED
      BY <2>2, <2>4 DEF Kept
  <1>WakeUpKeeps.
    ASSUME Base, WakeUp
    PROVE  Kept
    <2> USE <1>WakeUpKeeps
    <2>1. /\ incoming \in Seq(Reports) /\ wire \in Seq(Reports) /\ slot \in Seq(Reports)
      BY DEF Base
    <2>2. /\ slot # << >> /\ HandleDid(slot[1], frames) /\ slot' = << >>
          /\ incoming' = incoming /\ wire' = wire /\ web' = web
      BY DEF WakeUp, webVars
    <2>3. slot[1] \in Reports /\ << >> \in Seq(Reports)
      BY <2>1, <2>2, SMTT(30)
    <2>4. UIBase
      BY <2>2, <2>3, <1>HandleDidBase
    <2>5. Base'
      BY <2>1, <2>2, <2>3, <2>4, <1>UIKeepsBase
    <2>6. ASSUME InWait, InTouch
          PROVE  InWait' /\ InTouch'
      <3>1. PICK m \in Reports : slot = <<m>> /\ IsDid(m)
        BY <2>2, <2>6 DEF InWait
      <3>2. slot[1] = m
        BY <3>1
      <3>3. InWait'
        BY <2>2, <2>4, <1>AfterStep DEF UIBase
      <3>4. PICK q, r : q = Unhandled /\ r = Unhandled'
        OBVIOUS
      <3>5. q = <<m>> \o incoming \o wire /\ r = << >> \o incoming \o wire
        BY <2>2, <3>1, <3>4 DEF Unhandled
      <3>6. q \in Seq(Reports) /\ 1 \in 1 .. Len(q) /\ q[1] = m /\ Without(q, 1, r)
        BY <2>1, <3>5, <1>SlotTake
      <3>7. \A i \in 1 .. Len(q) : i < 1 => ~IsDid(q[i])
        <4>1. \A i \in 1 .. Len(q) : ~(i < 1)
          BY <3>6, SMTT(30)
        <4> QED
          BY <4>1
      <3>8. InStep(ui, web, q, toWeb) /\ HandleDid(q[1], frames) /\ IsDid(q[1])
        BY <2>2, <2>6, <3>1, <3>2, <3>4, <3>6 DEF InTouch
      <3>9. InStep(ui', web, r, toWeb')
        BY <3>6, <3>7, <3>8, <1>HandleDidKeeps
      <3> QED
        BY <2>2, <3>3, <3>4, <3>9 DEF InTouch
    <2> QED
      BY <2>5, <2>6 DEF Kept
  <1>HeadTyped.
    ASSUME NEW c \in Seq(Reports), c # << >>
    PROVE  /\ Head(c) = c[1] /\ c[1] \in Reports /\ Tail(c) \in Seq(Reports)
           /\ <<c[1]>> \in Seq(Reports)
           /\ \A b \in Seq(Reports) : Append(b, c[1]) \in Seq(Reports)
    BY <1>HeadTyped, SMTT(30)
  <1>ReceiveMessageKeeps.
    ASSUME Base, ReceiveMessage
    PROVE  Kept
    <2> USE <1>ReceiveMessageKeeps
    <2>1. PICK a \in Seq(Reports), b \in Seq(Reports), c \in Seq(Reports) :
               a = slot /\ b = incoming /\ c = wire
      BY DEF Base
    <2>2. /\ c # << >> /\ wire' = Tail(c) /\ ui' = ui /\ wait' = wait
          /\ toWeb' = toWeb /\ web' = web
      BY <2>1 DEF ReceiveMessage, uiVars, webVars
    <2>3. Head(c) = c[1] /\ c[1] \in Reports /\ Tail(c) \in Seq(Reports)
          /\ <<c[1]>> \in Seq(Reports) /\ Append(b, c[1]) \in Seq(Reports)
      BY <2>2, <1>HeadTyped
    <2>4. CASE wait = "waiting" /\ IsDid(Head(c))
      <3>1. slot' = <<Head(c)>> /\ incoming' = b
        BY <2>1, <2>4 DEF ReceiveMessage
      <3>2. Base'
        BY <2>1, <2>2, <2>3, <3>1 DEF Base
      <3>3. ASSUME InWait, InTouch
            PROVE  InWait' /\ InTouch'
        <4>1. wait \in {"found nothing", "waiting"} /\ wait \notin {"no", "look"}
              /\ wait # "found nothing"
          BY <2>4
        <4>2. \A i \in 1 .. Len(b) : ~IsDid(b[i])
          BY <2>1, <3>3, <4>1 DEF InWait
        <4>3. a = << >> \/ \E m \in Reports : a = <<m>> /\ IsDid(m)
          BY <2>1, <3>3 DEF InWait
        <4>4. Len(a) \in 0 .. 1 /\ \A m \in Range(a) : m.type # "Update"
          <5>1. CASE a = << >>
            <6>1. Len(a) = 0 /\ Range(a) = {}
              BY <5>1, SMTT(30) DEF Range
            <6> QED
              BY <6>1, SMTT(30)
          <5>2. ASSUME NEW m \in Reports, a = <<m>>, IsDid(m)
                PROVE  Len(a) \in 0 .. 1 /\ \A o \in Range(a) : o.type # "Update"
            <6>1. Len(a) = 1 /\ Range(a) = {m} /\ m.type # "Update"
              BY <5>2, SMTT(30) DEF Range, IsDid
            <6> QED
              BY <6>1, SMTT(30)
          <5> QED
            BY <4>3, <5>1, <5>2
        <4>5. PICK q, h, r : q = a \o b \o c /\ h = <<Head(c)>> /\ r = h \o b \o Tail(c)
          OBVIOUS
        <4>6. IsDid(c[1])
          BY <2>3, <2>4
        <4>7. Overtaken(a, c, q, r)
          BY <2>2, <4>2, <4>4, <4>5, <4>6, <1>SlotJump
        <4>8. /\ ui.current \in Nat /\ web.stateID \in Nat /\ web.shouldSend \in BOOLEAN
          BY DEF Base, Viewed, Timed, Webs
        <4>9. q = Unhandled /\ r = Unhandled'
          BY <2>1, <2>2, <3>1, <4>5 DEF Unhandled
        <4>10. InStep(ui, web, q, toWeb)
          BY <3>3, <4>9 DEF InTouch
        <4>11. Ordered(ui.current, web.stateID, web.shouldSend, r)
          BY <4>7, <4>8, <4>10 DEF InStep, Overtaken
        <4>12. Answered(ui.waiting, web.stateID, web.shouldSend, r, toWeb)
          BY <4>6, <4>7 DEF Answered, Overtaken
        <4>13. Acknowledged(web.waiting, web.stateID, r, toWeb)
          BY <4>4, <4>7, <4>10 DEF InStep, Acknowledged, Overtaken
        <4>14. InStep(ui, web, r, toWeb)
          BY <4>10, <4>11, <4>12, <4>13 DEF InStep
        <4>15. InWait'
          BY <2>1, <2>2, <2>3, <3>1, <4>1, <4>2, <4>6 DEF InWait
        <4> QED
          BY <2>2, <4>9, <4>14, <4>15 DEF InTouch
      <3> QED
        BY <3>2, <3>3 DEF Kept
    <2>5. CASE ~(wait = "waiting" /\ IsDid(Head(c)))
      <3>1. slot' = a /\ incoming' = Append(b, c[1])
        BY <2>1, <2>3, <2>5 DEF ReceiveMessage
      <3>2. Base'
        BY <2>1, <2>2, <2>3, <3>1 DEF Base
      <3>3. Unhandled' = Unhandled
        <4>1. a \o Append(b, Head(c)) \o Tail(c) = a \o b \o c
          BY <2>2, <1>Received
        <4> QED
          BY <2>1, <2>2, <2>3, <3>1, <4>1 DEF Unhandled
      <3>4. InTouch => InTouch'
        BY <2>2, <3>3 DEF InTouch
      <3>5. ASSUME ~WaitRaces, InWait
            PROVE  InWait'
        <4>1. wait # "found nothing"
          BY <3>5 DEF ReceiveMessage
        <4>2. CASE wait = "waiting"
          <5>1. ~IsDid(c[1]) /\ \A i \in 1 .. Len(b) : ~IsDid(b[i])
            <6>1. wait \in {"found nothing", "waiting"}
              BY <4>2
            <6> QED
              BY <2>1, <2>3, <2>5, <3>5, <4>2, <6>1 DEF InWait
          <5>2. PICK e : e = Append(b, c[1])
            OBVIOUS
          <5>3. /\ Len(b) \in Nat /\ Len(e) = Len(b) + 1 /\ e[Len(b) + 1] = c[1]
                /\ \A i \in 1 .. Len(b) : e[i] = b[i]
            BY <2>3, <5>2, AppendReport, SMTT(30)
          <5>4. \A i \in 1 .. Len(e) : i \in 1 .. Len(b) \/ i = Len(b) + 1
            BY <5>3, SMTT(30)
          <5>5. \A i \in 1 .. Len(e) : ~IsDid(e[i])
            BY <5>1, <5>3, <5>4
          <5>6. wait \notin {"no", "look"}
            BY <4>2
          <5>7. incoming' = e
            BY <3>1, <5>2
          <5> QED
            BY <2>1, <2>2, <3>1, <3>5, <4>1, <5>5, <5>6, <5>7 DEF InWait
        <4>3. CASE wait # "waiting"
          <5>1. wait \notin {"found nothing", "waiting"}
            BY <4>1, <4>3
          <5> QED
            BY <2>1, <2>2, <3>1, <3>5, <4>1, <5>1 DEF InWait
        <4> QED
          BY <4>2, <4>3
      <3> QED
        BY <3>2, <3>4, <3>5 DEF Kept
    <2> QED
      BY <2>4, <2>5
  <1> QED
    BY <1>PaintViewKeeps, <1>SizeDidChangeKeeps, <1>DiscardableDidChangeKeeps,
       <1>DiscardTimerFiredKeeps, <1>DispatchMessageKeeps, <1>LookForMessageKeeps,
       <1>StartWaitingKeeps, <1>WakeUpKeeps, <1>TimeOutKeeps, <1>ReceiveMessageKeeps

-----------------------------------------------------------------------------
(* The steps of the web process.                                           *)

\* A call sends at most one message, one of the current state, and answers
\* the UI process exactly if it owes an answer.
Sends(w, x) ==
  /\ x.stateID = w.stateID
  /\ \/ x.out = w.out /\ x.shouldSend = w.shouldSend
     \/ \E m \in Reports :
          /\ x.out = Append(w.out, m) /\ m.id = w.stateID
          /\ ~x.shouldSend /\ (IsDid(m) <=> w.shouldSend)

\* The wait for an acknowledgement begins with an update.
Waits(w, x) ==
  x.waiting => \/ w.waiting
               \/ \E m \in Reports : /\ x.out = Append(w.out, m)
                                     /\ m.type = "Update" /\ m.id = w.stateID

Quietly(w, x) ==
  /\ x.out = w.out /\ x.shouldSend = w.shouldSend
  /\ x.stateID = w.stateID /\ x.inUpdate = w.inUpdate

\* What a call makes of the web process.
Acts(w, x) ==
  /\ Timed(x) /\ Drawing(x) /\ x.inUpdate = w.inUpdate
  /\ Sends(w, x) /\ Waits(w, x)

\* The layer tree host is gone and everything is to be drawn.
Left(w) ==
  [w EXCEPT !.exitTimer = FALSE, !.wantsToExit = FALSE,
            !.host = FALSE, !.notify = FALSE, !.flush = FALSE,
            !.dirty = Bounds(w)]

\* A call that sends nothing.
Calmly(w, x) ==
  /\ Timed(x) /\ Drawing(x) /\ Quietly(w, x)
  /\ x.suspended = w.suspended /\ (x.waiting => w.waiting)

\* What updateBackingStoreState does for message m: nothing if the state is
\* entered and answered already; otherwise the wait for an acknowledgement is
\* over, and the answer is sent now or owed.
Enters(w, m, x) ==
  /\ Timed(x) /\ Drawing(x) /\ x.inUpdate = FALSE /\ x.waiting = FALSE
  /\ x.stateID = m.id
  /\ \/ ~m.respond /\ x.out = w.out /\ x.shouldSend = TRUE
     \/ /\ m.respond /\ ~x.shouldSend
        /\ \E r \in Reports : x.out = Append(w.out, r) /\ IsDid(r) /\ r.id = m.id

\* The messages of a web process that had nothing left to send.
OnItsWay(w, x, q, r) ==
  \/ r = q /\ x.out = w.out /\ x.shouldSend = w.shouldSend
  \/ \E m \in Reports : /\ r = Append(q, m) /\ m.id = w.stateID
                        /\ x.out = Append(w.out, m)
                        /\ ~x.shouldSend /\ (IsDid(m) <=> w.shouldSend)

\* What the web process sends goes to the end of the queue.
Grown(q, o, r) == r = q \o o

\* What the web process does: its timers, what the page does to the layers,
\* and the messages it handles.
LEMMA WebProcessKeeps ==
  Base /\ (HandleMessage \/ WebTimerFired \/ PageChanges) => Kept
  <1>ScheduleLayerFlushFacts.
    ASSUME NEW w, Timed(w), NEW x, x = ScheduleLayerFlush(w)
    PROVE  /\ Timed(x) /\ Quietly(w, x) /\ x.dirty = w.dirty
           /\ x.suspended = w.suspended /\ x.displayTimer = w.displayTimer
           /\ x.waiting = w.waiting /\ x.host = w.host /\ x.size = w.size
           /\ x.exitTimer = w.exitTimer
    BY <1>ScheduleLayerFlushFacts DEF ScheduleLayerFlush, Timed, Webs, Quietly
  <1>EnterTyped.
    ASSUME NEW y \in Webs, NEW a \in Areas
    PROVE  [y EXCEPT !.flushEnabled = TRUE, !.dirty = a, !.displayTimer = FALSE,
                     !.waiting = FALSE, !.root = TRUE] \in Webs
    BY DEF Webs
  <1>EnterFacts.
    ASSUME NEW w, Timed(w), NEW x, x = EnterAcceleratedCompositingMode(w)
    PROVE  /\ Timed(x) /\ Quietly(w, x) /\ x.dirty = "none" /\ x.host = TRUE
           /\ x.waiting = FALSE /\ x.size = w.size /\ x.suspended = w.suspended
    <2> USE <1>EnterFacts
    <2>1. PICK b : b \in BOOLEAN /\ b = ~w.inUpdate
      BY DEF Timed, Webs
    <2>2. PICK a \in Areas : a = "none"
      BY DEF Areas
    <2>3. x = [w EXCEPT !.exitTimer = FALSE, !.wantsToExit = FALSE, !.host = TRUE,
                        !.notify = b, !.flush = TRUE, !.flushEnabled = TRUE,
                        !.dirty = a, !.displayTimer = FALSE, !.waiting = FALSE,
                        !.root = TRUE]
      BY <2>1, <2>2 DEF EnterAcceleratedCompositingMode
    <2>4. x \in Webs
      <3>1. PICK y \in Webs : y = [w EXCEPT !.exitTimer = FALSE, !.wantsToExit = FALSE,
                                    !.host = TRUE, !.notify = b, !.flush = TRUE]
        BY <2>1 DEF Timed, Webs
      <3>2. PICK z \in Webs : z = [y EXCEPT !.flushEnabled = TRUE, !.dirty = a,
                                    !.displayTimer = FALSE, !.waiting = FALSE,
                                    !.root = TRUE]
        BY <2>2, <3>1, <1>EnterTyped
      <3>3. x = z
        BY <2>3, <3>1, <3>2 DEF Timed, Webs
      <3> QED
        BY <3>2, <3>3
    <2>5. /\ x.dirty = a /\ x.host = TRUE /\ x.waiting = FALSE /\ x.size = w.size
          /\ x.suspended = w.suspended /\ x.displayTimer = FALSE /\ x.exitTimer = FALSE
          /\ x.wantsToExit = FALSE /\ Quietly(w, x)
      BY <2>3 DEF Timed, Webs, Quietly
    <2> QED
      BY <2>2, <2>4, <2>5 DEF Timed
  <1>ScheduleDisplayFacts.
    ASSUME NEW w, Timed(w), ~w.host, NEW x, x = ScheduleDisplay(w)
    PROVE  /\ Timed(x) /\ Quietly(w, x) /\ x.dirty = w.dirty
           /\ x.suspended = w.suspended /\ x.waiting = w.waiting
           /\ x.host = w.host /\ x.size = w.size /\ Drawing(x)
    BY <1>ScheduleDisplayFacts DEF ScheduleDisplay, Timed, Webs, Quietly, Drawing
  <1>SetNeedsDisplayFacts.
    ASSUME NEW w, Timed(w), NEW a \in Areas, NEW x, x = SetNeedsDisplay(w, a)
    PROVE  /\ Timed(x) /\ Quietly(w, x) /\ x.suspended = w.suspended
           /\ x.waiting = w.waiting /\ x.host = w.host /\ x.size = w.size
           /\ Drawing(w) => Drawing(x)
    <2> USE <1>SetNeedsDisplayFacts
    <2>1. CASE w.host
      BY <2>1, <1>ScheduleLayerFlushFacts DEF SetNeedsDisplay, Drawing, Quietly
    <2>2. CASE ~w.host /\ w.size = 0
      BY <2>2 DEF SetNeedsDisplay, Quietly
    <2>3. CASE ~w.host /\ w.size # 0
      <3>1. PICK d \in Areas : d = IF a = "all" THEN a
                                   ELSE IF w.dirty = "all" THEN w.dirty ELSE a
        BY DEF Areas
      <3>2. PICK y : y = [w EXCEPT !.dirty = d]
        OBVIOUS
      <3>3. /\ Timed(y) /\ Quietly(w, y) /\ y.suspended = w.suspended
            /\ y.waiting = w.waiting /\ y.host = w.host /\ y.size = w.size
        BY <2>3, <3>1, <3>2 DEF Timed, Webs, Quietly
      <3>4. x = ScheduleDisplay(y)
        BY <2>3, <3>1, <3>2 DEF SetNeedsDisplay
      <3> QED
        BY <2>3, <3>3, <3>4, <1>ScheduleDisplayFacts, SMTT(30) DEF Quietly
    <2>4. w.host \in BOOLEAN
      BY DEF Timed, Webs
    <2> QED
      BY <2>1, <2>2, <2>3, <2>4
  \* What display(updateInfo) makes of the page.
  <1>DisplayInfoFacts.
    ASSUME NEW w, Timed(w), ~w.host, NEW t \in BOOLEAN,
           NEW d, d = DisplayInfo(w, t)
    PROVE  /\ Timed(d.w) /\ Quietly(w, d.w) /\ d.w.dirty = "none"
           /\ d.w.suspended = w.suspended /\ d.w.size = w.size
           /\ d.w.displayTimer = FALSE /\ d.info \in Drawn
           /\ d.w.host = t /\ (d.w.waiting => w.waiting)
    <2> USE <1>DisplayInfoFacts
    <2>1. CASE t
      <3>1. PICK x : x = EnterAcceleratedCompositingMode(w)
        OBVIOUS
      <3>2. d.w = x /\ d.info = NoInfo
        BY <2>1, <3>1 DEF DisplayInfo
      <3>3. /\ Timed(x) /\ Quietly(w, x) /\ x.dirty = "none" /\ x.host = TRUE
            /\ x.waiting = FALSE /\ x.size = w.size /\ x.suspended = w.suspended
        BY <3>1, <1>EnterFacts
      <3>4. x.displayTimer = FALSE
        BY <3>3 DEF Timed, Webs
      <3>5. NoInfo \in Drawn
        BY DEF NoInfo, Drawn, Areas
      <3> QED
        BY <2>1, <3>2, <3>3, <3>4, <3>5
    <2>2. CASE ~t
      <3>1. PICK a \in Areas : a = "none"
        BY DEF Areas
      <3>2. PICK x : x = [w EXCEPT !.dirty = a, !.displayTimer = FALSE]
        OBVIOUS
      <3>3. PICK i : i = [size |-> w.size, area |-> w.dirty]
        OBVIOUS
      <3>4. d.w = x /\ d.info = i
        BY <2>2, <3>1, <3>2, <3>3 DEF DisplayInfo
      <3>5. i \in Drawn
        BY <3>3 DEF Timed, Webs, Drawn
      <3>6. x \in Webs
        BY <3>1, <3>2 DEF Timed, Webs
      <3>7. /\ x.dirty = a /\ x.host = w.host /\ x.waiting = w.waiting
            /\ x.size = w.size /\ x.suspended = w.suspended /\ x.displayTimer = FALSE
            /\ x.exitTimer = w.exitTimer /\ x.wantsToExit = w.wantsToExit
            /\ x.frozen = w.frozen /\ Quietly(w, x)
        BY <3>2 DEF Timed, Webs, Quietly
      <3>8. Timed(x)
        BY <3>1, <3>6, <3>7 DEF Timed
      <3>9. x.host = FALSE
        BY <3>6, <3>7 DEF Webs
      <3> QED
        BY <2>2, <3>1, <3>4, <3>5, <3>7, <3>8, <3>9
    <2> QED
      BY <2>1, <2>2
  \* A message is sent: the record differs in `out' only.
  <1>SendFacts.
    ASSUME NEW w, Timed(w), NEW m \in Reports, NEW x, x = Send(w, m)
    PROVE  /\ Timed(x) /\ x.out = Append(w.out, m)
           /\ x.stateID = w.stateID /\ x.shouldSend = w.shouldSend
           /\ x.dirty = w.dirty /\ x.suspended = w.suspended /\ x.host = w.host
           /\ x.displayTimer = w.displayTimer /\ x.waiting = w.waiting
           /\ x.inUpdate = w.inUpdate /\ x.size = w.size
    <2> USE <1>SendFacts
    <2>1. PICK o \in Seq(Reports) : o = Append(w.out, m)
      <3>1. w.out \in Seq(Reports)
        BY DEF Timed, Webs
      <3>2. Append(w.out, m) \in Seq(Reports)
        BY <3>1, SMTT(30)
      <3> QED
        BY <3>2
    <2>2. x = [w EXCEPT !.out = o]
      BY <2>1 DEF Send
    <2>3. x \in Webs
      BY <2>1, <2>2 DEF Timed, Webs
    <2>4. /\ x.dirty = w.dirty /\ x.host = w.host /\ x.waiting = w.waiting
          /\ x.suspended = w.suspended /\ x.displayTimer = w.displayTimer
          /\ x.exitTimer = w.exitTimer /\ x.wantsToExit = w.wantsToExit
          /\ x.frozen = w.frozen /\ x.stateID = w.stateID
          /\ x.shouldSend = w.shouldSend /\ x.out = o
          /\ x.inUpdate = w.inUpdate /\ x.size = w.size
      BY <2>2 DEF Timed, Webs
    <2> QED
      BY <2>1, <2>3, <2>4 DEF Timed
  <1>ReportTyped.
    ASSUME NEW n \in Nat, NEW i \in Drawn, NEW c \in BOOLEAN
    PROVE  /\ [type |-> "Update", id |-> n, info |-> i, context |-> c] \in Reports
           /\ [type |-> "DidUpdateBackingStoreState", id |-> n, info |-> i,
               context |-> c] \in Reports
           /\ [type |-> "EnterAcceleratedCompositingMode", id |-> n, info |-> i,
               context |-> c] \in Reports
           /\ [type |-> "ExitAcceleratedCompositingMode", id |-> n, info |-> i,
               context |-> c] \in Reports
    BY DEF Reports
  <1>NoInfoTyped.
    ASSUME NEW n \in Nat
    PROVE  NoInfo \in Drawn /\ [NoInfo EXCEPT !.size = n] \in Drawn
    BY DEF NoInfo, Drawn, Areas
  <1>SendDidFacts.
    ASSUME NEW w, Timed(w), w.shouldSend, NEW t \in BOOLEAN,
           NEW x, x = SendDidUpdateBackingStoreState(w, t)
    PROVE  /\ Timed(x) /\ Drawing(x) /\ Sends(w, x) /\ ~x.shouldSend
           /\ x.inUpdate = w.inUpdate /\ (x.waiting => w.waiting)
    <2> USE <1>SendDidFacts
    <2>1. PICK d : d = IF w.suspended \/ w.host THEN [w |-> w, info |-> NoInfo]
                       ELSE DisplayInfo(w, t)
      OBVIOUS
    <2>2. PICK y : y = d.w
      OBVIOUS
    <2>3. PICK z : z = IF y.host THEN ScheduleLayerFlush([y EXCEPT !.notify = FALSE])
                       ELSE y
      OBVIOUS
    <2>4. PICK i : i = IF y.suspended \/ y.host THEN [NoInfo EXCEPT !.size = y.size]
                       ELSE d.info
      OBVIOUS
    <2>5. PICK m : m = [type |-> "DidUpdateBackingStoreState", id |-> y.stateID,
                        info |-> i, context |-> y.host]
      OBVIOUS
    <2>6. PICK v : v = [z EXCEPT !.shouldSend = FALSE, !.compositing = y.host]
      OBVIOUS
    <2>7. x = Send(v, m)
      BY <2>1, <2>2, <2>3, <2>4, <2>5, <2>6 DEF SendDidUpdateBackingStoreState
    <2>8. /\ Timed(y) /\ Quietly(w, y) /\ (y.dirty = "none" \/ y.suspended)
          /\ (y.waiting => w.waiting) /\ d.info \in Drawn
      <3>1. CASE w.suspended \/ w.host
        <4>1. y = w /\ d.info = NoInfo
          BY <2>1, <2>2, <3>1
        <4> QED
          BY <3>1, <4>1, <1>NoInfoTyped DEF Quietly, Timed
      <3>2. CASE ~(w.suspended \/ w.host)
        <4>1. d = DisplayInfo(w, t)
          BY <2>1, <3>2
        <4>2. /\ Timed(d.w) /\ Quietly(w, d.w) /\ d.w.dirty = "none"
              /\ (d.w.waiting => w.waiting) /\ d.info \in Drawn
          BY <3>2, <4>1, <1>DisplayInfoFacts
        <4> QED
          BY <2>2, <4>2
      <3> QED
        BY <3>1, <3>2
    <2>9. y.size \in Nat /\ y.stateID \in Nat /\ y.host \in BOOLEAN
      BY <2>8 DEF Timed, Webs
    <2>10. i \in Drawn
      BY <2>4, <2>8, <2>9, <1>NoInfoTyped
    <2>11. m \in Reports /\ m.id = y.stateID /\ IsDid(m)
      <3>1. m \in Reports
        BY <2>5, <2>9, <2>10, <1>ReportTyped
      <3> QED
        BY <2>5, <3>1 DEF IsDid
    <2>12. /\ Timed(z) /\ Quietly(w, z) /\ (z.dirty = "none" \/ z.suspended)
           /\ (z.waiting => w.waiting)
      <3>1. CASE y.host
        <4>1. PICK r : r = [y EXCEPT !.notify = FALSE]
          OBVIOUS
        <4>2. r \in Webs
          BY <2>8, <4>1 DEF Timed, Webs
        <4>3. /\ r.dirty = y.dirty /\ r.host = y.host /\ r.waiting = y.waiting
              /\ r.suspended = y.suspended /\ r.displayTimer = y.displayTimer
              /\ r.exitTimer = y.exitTimer /\ r.wantsToExit = y.wantsToExit
              /\ r.frozen = y.frozen /\ Quietly(y, r)
          BY <2>8, <4>1 DEF Timed, Webs, Quietly
        <4>4. Timed(r)
          BY <2>8, <4>2, <4>3 DEF Timed
        <4>5. z = ScheduleLayerFlush(r)
          BY <2>3, <3>1, <4>1
        <4>6. /\ Timed(z) /\ Quietly(r, z) /\ z.dirty = r.dirty
              /\ z.suspended = r.suspended /\ z.waiting = r.waiting
          BY <4>4, <4>5, <1>ScheduleLayerFlushFacts
        <4> QED
          BY <2>8, <4>3, <4>6 DEF Quietly
      <3>2. CASE ~y.host
        BY <2>3, <2>8, <3>2
      <3> QED
        BY <3>1, <3>2
    <2>13. v \in Webs
      BY <2>6, <2>9, <2>12 DEF Timed, Webs
    <2>14. /\ v.dirty = z.dirty /\ v.host = z.host /\ v.waiting = z.waiting
           /\ v.suspended = z.suspended /\ v.displayTimer = z.displayTimer
           /\ v.exitTimer = z.exitTimer /\ v.wantsToExit = z.wantsToExit
           /\ v.frozen = z.frozen /\ v.out = z.out /\ v.shouldSend = FALSE
           /\ v.stateID = z.stateID /\ v.inUpdate = z.inUpdate
      BY <2>6, <2>12 DEF Timed, Webs
    <2>15. Timed(v)
      BY <2>12, <2>13, <2>14 DEF Timed
    <2>16. /\ Timed(x) /\ x.out = Append(v.out, m) /\ x.shouldSend = v.shouldSend
           /\ x.stateID = v.stateID /\ x.dirty = v.dirty /\ x.suspended = v.suspended
           /\ x.waiting = v.waiting /\ x.inUpdate = v.inUpdate
      BY <2>7, <2>11, <2>15, <1>SendFacts, SMTT(30)
    <2>17. Drawing(x) /\ x.inUpdate = w.inUpdate /\ (x.waiting => w.waiting)
      BY <2>12, <2>14, <2>16 DEF Drawing, Quietly
    <2>18. x.out = Append(w.out, m) /\ x.stateID = w.stateID /\ ~x.shouldSend
           /\ m.id = w.stateID
      BY <2>8, <2>11, <2>12, <2>14, <2>16 DEF Quietly
    <2>19. Sends(w, x)
      BY <2>11, <2>18 DEF Sends
    <2> QED
      BY <2>16, <2>17, <2>18, <2>19
  <1>QuietlyActs.
    ASSUME NEW w, NEW x, Timed(x), Drawing(x), Quietly(w, x), x.waiting => w.waiting
    PROVE  Acts(w, x)
    BY <1>QuietlyActs DEF Acts, Quietly, Sends, Waits
  <1>ActsAfter.
    ASSUME NEW w, NEW y, NEW x, Quietly(w, y), y.waiting => w.waiting, Acts(y, x)
    PROVE  Acts(w, x)
    <2> USE <1>ActsAfter
    <2>1. /\ y.out = w.out /\ y.shouldSend = w.shouldSend /\ y.stateID = w.stateID
          /\ y.inUpdate = w.inUpdate
      BY DEF Quietly
    <2>2. Sends(w, x) /\ Waits(w, x)
      BY <2>1 DEF Acts, Sends, Waits
    <2> QED
      BY <2>1, <2>2 DEF Acts
  <1>ActsBefore.
    ASSUME NEW w, NEW y, NEW x, Acts(w, y), Timed(x), Drawing(x), Quietly(y, x),
           x.waiting => y.waiting
    PROVE  Acts(w, x)
    <2> USE <1>ActsBefore
    <2>1. /\ x.out = y.out /\ x.shouldSend = y.shouldSend /\ x.stateID = y.stateID
          /\ x.inUpdate = y.inUpdate
      BY DEF Quietly
    <2>2. Sends(w, x) /\ Waits(w, x)
      BY <2>1 DEF Acts, Sends, Waits
    <2> QED
      BY <2>1, <2>2 DEF Acts
  <1>SendDidActs.
    ASSUME NEW w, Timed(w), w.shouldSend, NEW t \in BOOLEAN,
           NEW x, x = SendDidUpdateBackingStoreState(w, t)
    PROVE  Acts(w, x)
    <2> USE <1>SendDidActs
    <2>1. /\ Timed(x) /\ Drawing(x) /\ Sends(w, x)
          /\ x.inUpdate = w.inUpdate /\ (x.waiting => w.waiting)
      BY <1>SendDidFacts
    <2> QED
      BY <2>1 DEF Acts, Waits
  <1>DisplayActs.
    ASSUME NEW w, Timed(w), ~w.host, NEW t \in BOOLEAN, NEW x, x = Display(w, t)
    PROVE  Acts(w, x)
    <2> USE <1>DisplayActs
    <2>1. CASE w.suspended \/ w.dirty = "none"
      <3>1. x = w
        BY <2>1 DEF Display
      <3>2. Drawing(w) /\ Quietly(w, w)
        BY <2>1 DEF Drawing, Quietly
      <3> QED
        BY <3>1, <3>2, <1>QuietlyActs
    <2>2. CASE ~(w.suspended \/ w.dirty = "none") /\ w.shouldSend
      BY <2>2, <1>SendDidActs DEF Display
    <2>3. CASE ~(w.suspended \/ w.dirty = "none") /\ ~w.shouldSend
      <3>1. PICK d : d = DisplayInfo(w, t)
        OBVIOUS
      <3>2. PICK y : y = d.w
        OBVIOUS
      <3>3. PICK v : v = [y EXCEPT !.waiting = TRUE]
        OBVIOUS
      <3>4. PICK m : m = [type |-> "Update", id |-> w.stateID,
                          info |-> d.info, context |-> FALSE]
        OBVIOUS
      <3>5. x = IF y.host THEN y ELSE Send(v, m)
        BY <2>3, <3>1, <3>2, <3>3, <3>4 DEF Display
      <3>6. /\ Timed(d.w) /\ Quietly(w, d.w) /\ d.w.dirty = "none"
            /\ d.w.displayTimer = FALSE /\ d.info \in Drawn
            /\ (d.w.waiting => w.waiting)
        BY <3>1, <1>DisplayInfoFacts
      <3>7. /\ Timed(y) /\ Quietly(w, y) /\ y.dirty = "none"
            /\ y.displayTimer = FALSE /\ (y.waiting => w.waiting)
        BY <3>2, <3>6
      <3>8. CASE y.host
        <4>1. x = y
          BY <3>5, <3>8
        <4>2. Drawing(y)
          BY <3>7 DEF Drawing
        <4> QED
          BY <3>7, <4>1, <4>2, <1>QuietlyActs
      <3>9. CASE ~y.host
        <4>1. w.stateID \in Nat /\ FALSE \in BOOLEAN
          BY DEF Timed, Webs
        <4>2. m \in Reports
          BY <3>4, <3>6, <4>1, <1>ReportTyped
        <4>3. m.id = w.stateID /\ m.type = "Update" /\ ~IsDid(m)
          BY <3>4 DEF IsDid
        <4>4. v \in Webs
          BY <3>3, <3>7 DEF Timed, Webs
        <4>5. /\ v.dirty = y.dirty /\ v.host = y.host
              /\ v.suspended = y.suspended /\ v.displayTimer = y.displayTimer
              /\ v.exitTimer = y.exitTimer /\ v.wantsToExit = y.wantsToExit
              /\ v.frozen = y.frozen /\ v.out = y.out /\ v.shouldSend = y.shouldSend
              /\ v.stateID = y.stateID /\ v.inUpdate = y.inUpdate
          BY <3>3, <3>7 DEF Timed, Webs
        <4>6. Timed(v)
          BY <3>7, <3>9, <4>4, <4>5 DEF Timed
        <4>7. x = Send(v, m)
          BY <3>5, <3>9
        <4>8. /\ Timed(x) /\ x.out = Append(v.out, m) /\ x.shouldSend = v.shouldSend
              /\ x.stateID = v.stateID /\ x.dirty = v.dirty /\ x.inUpdate = v.inUpdate
          BY <4>2, <4>6, <4>7, <1>SendFacts, SMTT(30)
        <4>9. /\ x.out = Append(w.out, m) /\ x.shouldSend = w.shouldSend
              /\ x.stateID = w.stateID /\ x.dirty = "none" /\ x.inUpdate = w.inUpdate
          BY <3>7, <4>5, <4>8 DEF Quietly
        <4>10. Drawing(x) /\ Sends(w, x) /\ Waits(w, x)
          BY <2>3, <4>2, <4>3, <4>9 DEF Drawing, Sends, Waits
        <4> QED
          BY <4>8, <4>9, <4>10 DEF Acts
      <3> QED
        BY <3>8, <3>9
    <2> QED
      BY <2>1, <2>2, <2>3
  <1>DisplayTimerFiredActs.
    ASSUME NEW w, Timed(w), w.displayTimer, NEW t \in BOOLEAN,
           NEW x, x = DisplayTimerFired(w, t)
    PROVE  Acts(w, x)
    <2> USE <1>DisplayTimerFiredActs
    <2>1. PICK y : y = [w EXCEPT !.displayTimer = FALSE]
      OBVIOUS
    <2>2. y \in Webs
      BY <2>1 DEF Timed, Webs
    <2>3. /\ y.displayTimer = FALSE /\ y.host = w.host /\ y.waiting = w.waiting
          /\ y.exitTimer = w.exitTimer /\ y.frozen = w.frozen /\ y.dirty = w.dirty
          /\ y.wantsToExit = w.wantsToExit /\ Quietly(w, y)
      BY <2>1 DEF Timed, Webs, Quietly
    <2>4. Timed(y) /\ ~y.host
      BY <2>2, <2>3 DEF Timed
    <2>5. x = Display(y, t)
      BY <2>1 DEF DisplayTimerFired
    <2>6. Acts(y, x)
      BY <2>4, <2>5, <1>DisplayActs
    <2> QED
      BY <2>3, <2>6, <1>ActsAfter
  \* The page stops waiting, because an update was acknowledged or because it
  \* is told to.
  <1>WaitingEnds.
    ASSUME NEW w, Timed(w), NEW y, y = [w EXCEPT !.waiting = FALSE]
    PROVE  /\ Timed(y) /\ Quietly(w, y) /\ y.waiting = FALSE /\ y.host = w.host
           /\ y.dirty = w.dirty /\ y.suspended = w.suspended
           /\ y.displayTimer = w.displayTimer
    <2> USE <1>WaitingEnds
    <2>1. y \in Webs
      BY DEF Timed, Webs
    <2>2. /\ y.displayTimer = w.displayTimer /\ y.host = w.host /\ y.waiting = FALSE
          /\ y.exitTimer = w.exitTimer /\ y.frozen = w.frozen /\ y.dirty = w.dirty
          /\ y.wantsToExit = w.wantsToExit /\ Quietly(w, y) /\ y.suspended = w.suspended
      BY DEF Timed, Webs, Quietly
    <2> QED
      BY <2>1, <2>2 DEF Timed
  <1>DisplayAfterWait.
    ASSUME NEW w, Timed(w), ~w.host, NEW t \in BOOLEAN,
           NEW x, x = Display([w EXCEPT !.waiting = FALSE], t)
    PROVE  /\ Acts(w, x)
           /\ x.waiting => \E m \in Reports : /\ x.out = Append(w.out, m)
                                              /\ m.type = "Update" /\ m.id = w.stateID
    <2> USE <1>DisplayAfterWait
    <2>1. PICK y : y = [w EXCEPT !.waiting = FALSE]
      OBVIOUS
    <2>2. Timed(y) /\ Quietly(w, y) /\ y.waiting = FALSE /\ y.host = w.host
      BY <2>1, <1>WaitingEnds
    <2>3. x = Display(y, t)
      BY <2>1
    <2>4. Acts(y, x)
      BY <2>2, <2>3, <1>DisplayActs
    <2>5. Acts(w, x)
      BY <2>2, <2>4, <1>ActsAfter
    <2>6. y.out = w.out /\ y.stateID = w.stateID /\ Waits(y, x)
      BY <2>2, <2>4 DEF Acts, Quietly
    <2> QED
      BY <2>2, <2>5, <2>6 DEF Waits
  <1>DidUpdateActs.
    ASSUME NEW w, Timed(w), Drawing(w), NEW t \in BOOLEAN, NEW x, x = DidUpdate(w, t)
    PROVE  /\ Acts(w, x)
           /\ x.waiting => \E m \in Reports : /\ x.out = Append(w.out, m)
                                              /\ m.type = "Update" /\ m.id = w.stateID
    <2> USE <1>DidUpdateActs
    <2>1. CASE w.host
      <3>1. x = w /\ ~w.waiting /\ Quietly(w, w)
        BY <2>1 DEF DidUpdate, Timed, Quietly
      <3> QED
        BY <3>1, <1>QuietlyActs
    <2>2. CASE ~w.host
      BY <2>2, <1>DisplayAfterWait DEF DidUpdate
    <2> QED
      BY <2>1, <2>2
  <1>BoundsTyped.
    ASSUME NEW w
    PROVE  Bounds(w) \in Areas
    BY DEF Bounds, Areas
  <1>LeftFacts.
    ASSUME NEW w, Timed(w), NEW x, x = Left(w)
    PROVE  /\ Timed(x) /\ Quietly(w, x) /\ x.host = FALSE /\ x.waiting = w.waiting
           /\ x.suspended = w.suspended /\ x.compositing = w.compositing
           /\ x.size = w.size
    <2> USE <1>LeftFacts
    <2>1. PICK a \in Areas : a = Bounds(w)
      BY <1>BoundsTyped
    <2>2. x = [w EXCEPT !.exitTimer = FALSE, !.wantsToExit = FALSE,
                        !.host = FALSE, !.notify = FALSE, !.flush = FALSE,
                        !.dirty = a]
      BY <2>1 DEF Left
    <2>3. x \in Webs
      BY <2>2 DEF Timed, Webs
    <2>4. /\ x.displayTimer = w.displayTimer /\ x.host = FALSE /\ x.waiting = w.waiting
          /\ x.exitTimer = FALSE /\ x.wantsToExit = FALSE /\ Quietly(w, x)
          /\ x.suspended = w.suspended /\ x.compositing = w.compositing
          /\ x.size = w.size
      BY <2>2 DEF Timed, Webs, Quietly
    <2> QED
      BY <2>3, <2>4 DEF Timed
  <1>ExitActs.
    ASSUME NEW w, Timed(w), ~w.inUpdate, NEW t \in BOOLEAN,
           NEW x, x = ExitAcceleratedCompositingMode(w, t)
    PROVE  Acts(w, x)
    <2> USE <1>ExitActs
    <2>1. PICK l : l = Left(w)
      OBVIOUS
    <2>2. /\ Timed(l) /\ Quietly(w, l) /\ l.host = FALSE /\ l.waiting = w.waiting
          /\ l.suspended = w.suspended
      BY <2>1, <1>LeftFacts
    <2>3. CASE w.shouldSend
      <3>1. x = SendDidUpdateBackingStoreState(l, t)
        BY <2>1, <2>3 DEF ExitAcceleratedCompositingMode, Left
      <3>2. l.shouldSend
        BY <2>2, <2>3 DEF Quietly
      <3>3. Acts(l, x)
        BY <2>2, <3>1, <3>2, <1>SendDidActs
      <3> QED
        BY <2>2, <3>3, <1>ActsAfter
    <2>4. CASE ~w.shouldSend
      <3>1. PICK d : d = IF w.suspended
                         THEN [w |-> l, info |-> [NoInfo EXCEPT !.size = w.size]]
                         ELSE DisplayInfo(l, t)
        OBVIOUS
      <3>2. PICK y : y = d.w
        OBVIOUS
      <3>3. PICK v : v = [y EXCEPT !.compositing = FALSE]
        OBVIOUS
      <3>4. PICK m : m = [type |-> IF w.compositing
                                   THEN "ExitAcceleratedCompositingMode"
                                   ELSE "Update",
                          id |-> w.stateID, info |-> d.info, context |-> FALSE]
        OBVIOUS
      <3>5. x = Send(v, m)
        BY <2>1, <2>4, <3>1, <3>2, <3>3, <3>4
           DEF ExitAcceleratedCompositingMode, Left
      <3>6. w.stateID \in Nat /\ w.size \in Nat /\ FALSE \in BOOLEAN
        BY DEF Timed, Webs
      <3>7. /\ Timed(y) /\ Quietly(w, y) /\ (y.dirty = "none" \/ y.suspended)
            /\ (y.waiting => w.waiting) /\ d.info \in Drawn
        <4>1. CASE w.suspended
          <5>1. y = l /\ d.info = [NoInfo EXCEPT !.size = w.size]
            BY <3>1, <3>2, <4>1
          <5>2. d.info \in Drawn
            BY <3>6, <5>1, <1>NoInfoTyped
          <5> QED
            BY <2>2, <4>1, <5>1, <5>2
        <4>2. CASE ~w.suspended
          <5>1. d = DisplayInfo(l, t)
            BY <3>1, <4>2
          <5>2. Timed(l) /\ ~l.host
            BY <2>2
          <5>3. /\ Timed(d.w) /\ Quietly(l, d.w) /\ d.w.dirty = "none"
                /\ (d.w.waiting => l.waiting) /\ d.info \in Drawn
            BY <5>1, <5>2, <1>DisplayInfoFacts
          <5> QED
            BY <2>2, <3>2, <5>3 DEF Quietly
        <4> QED
          BY <4>1, <4>2
      <3>8. m \in Reports
        BY <3>4, <3>6, <3>7, <1>ReportTyped
      <3>9. m.id = w.stateID /\ ~IsDid(m)
        BY <3>4 DEF IsDid
      <3>10. v \in Webs
        BY <3>3, <3>7 DEF Timed, Webs
      <3>11. /\ v.dirty = y.dirty /\ v.host = y.host /\ v.waiting = y.waiting
             /\ v.suspended = y.suspended /\ v.displayTimer = y.displayTimer
             /\ v.exitTimer = y.exitTimer /\ v.wantsToExit = y.wantsToExit
             /\ v.frozen = y.frozen /\ v.out = y.out /\ v.shouldSend = y.shouldSend
             /\ v.stateID = y.stateID /\ v.inUpdate = y.inUpdate
        BY <3>3, <3>7 DEF Timed, Webs
      <3>12. Timed(v)
        BY <3>7, <3>10, <3>11 DEF Timed
      <3>13. /\ Timed(x) /\ x.out = Append(v.out, m) /\ x.shouldSend = v.shouldSend
             /\ x.stateID = v.stateID /\ x.dirty = v.dirty /\ x.inUpdate = v.inUpdate
             /\ x.suspended = v.suspended /\ x.waiting = v.waiting
        BY <3>5, <3>8, <3>12, <1>SendFacts, SMTT(30)
      <3>14. /\ x.out = Append(w.out, m) /\ x.shouldSend = w.shouldSend
             /\ x.stateID = w.stateID /\ x.inUpdate = w.inUpdate
             /\ (x.dirty = "none" \/ x.suspended) /\ (x.waiting => w.waiting)
        BY <3>7, <3>11, <3>13 DEF Quietly
      <3>15. Drawing(x) /\ Sends(w, x) /\ Waits(w, x)
        BY <2>4, <3>8, <3>9, <3>14 DEF Drawing, Sends, Waits
      <3> QED
        BY <3>13, <3>14, <3>15 DEF Acts
    <2> QED
      BY <2>3, <2>4
  <1>ExitSoonCalm.
    ASSUME NEW w, Timed(w), Drawing(w), w.host,
           NEW x, x = ExitAcceleratedCompositingModeSoon(w)
    PROVE  Calmly(w, x)
    <2> USE <1>ExitSoonCalm
    <2>1. CASE w.frozen
      <3>1. x = [w EXCEPT !.wantsToExit = TRUE]
        BY <2>1 DEF ExitAcceleratedCompositingModeSoon
      <3>2. x \in Webs
        BY <3>1 DEF Timed, Webs
      <3>3. /\ x.displayTimer = w.displayTimer /\ x.host = w.host
            /\ x.waiting = w.waiting /\ x.frozen = w.frozen
            /\ x.exitTimer = w.exitTimer /\ x.dirty = w.dirty /\ Quietly(w, x)
            /\ x.suspended = w.suspended
        BY <3>1 DEF Timed, Webs, Quietly
      <3> QED
        BY <3>2, <3>3 DEF Timed, Calmly, Drawing
    <2>2. CASE ~w.frozen
      <3>1. x = [w EXCEPT !.exitTimer = TRUE]
        BY <2>2 DEF ExitAcceleratedCompositingModeSoon
      <3>2. x \in Webs
        BY <3>1 DEF Timed, Webs
      <3>3. /\ x.displayTimer = w.displayTimer /\ x.host = w.host
            /\ x.waiting = w.waiting /\ x.frozen = w.frozen
            /\ x.wantsToExit = w.wantsToExit /\ x.dirty = w.dirty /\ Quietly(w, x)
            /\ x.suspended = w.suspended
        BY <3>1 DEF Timed, Webs, Quietly
      <3> QED
        BY <2>2, <3>2, <3>3 DEF Timed, Calmly, Drawing
    <2> QED
      BY <2>1, <2>2
  \* setRootCompositingLayer sends nothing; during updateBackingStoreState it
  \* may leave a dirty page behind, which the answer that is owed will draw.
  <1>SetRootCalm.
    ASSUME NEW w, Timed(w), Drawing(w), w.inUpdate => w.shouldSend, NEW a \in BOOLEAN,
           NEW x, x = SetRootCompositingLayer(w, a)
    PROVE  Calmly(w, x)
    <2> USE <1>SetRootCalm
    <2>1. PICK r : r = [w EXCEPT !.root = a]
      OBVIOUS
    <2>2. r \in Webs
      BY <2>1 DEF Timed, Webs
    <2>3. /\ r.displayTimer = w.displayTimer /\ r.host = w.host
          /\ r.waiting = w.waiting /\ r.frozen = w.frozen
          /\ r.exitTimer = w.exitTimer /\ r.wantsToExit = w.wantsToExit
          /\ r.dirty = w.dirty /\ Quietly(w, r) /\ r.suspended = w.suspended
      BY <2>1 DEF Timed, Webs, Quietly
    <2>4. Timed(r)
      BY <2>2, <2>3 DEF Timed
    <2>5. PICK c : c = ScheduleLayerFlush(r)
      OBVIOUS
    <2>6. /\ Timed(c) /\ Quietly(r, c) /\ c.dirty = r.dirty
          /\ c.suspended = r.suspended /\ c.displayTimer = r.displayTimer
          /\ c.waiting = r.waiting /\ c.host = r.host
      BY <2>4, <2>5, <1>ScheduleLayerFlushFacts
    <2>7. /\ Timed(c) /\ Quietly(w, c) /\ c.dirty = w.dirty /\ Drawing(c)
          /\ c.suspended = w.suspended /\ c.displayTimer = w.displayTimer
          /\ c.waiting = w.waiting /\ c.host = w.host
      BY <2>3, <2>6 DEF Quietly, Drawing
    <2>8. CASE a /\ ~w.host
      <3>1. x = EnterAcceleratedCompositingMode(w)
        BY <2>8 DEF SetRootCompositingLayer
      <3>2. /\ Timed(x) /\ Quietly(w, x) /\ x.dirty = "none"
            /\ x.waiting = FALSE /\ x.suspended = w.suspended
        BY <3>1, <1>EnterFacts
      <3> QED
        BY <3>2 DEF Calmly, Drawing
    <2>9. CASE a /\ w.host
      <3>1. PICK b : b = (c.notify \/ ~w.compositing)
        OBVIOUS
      <3>2. b \in BOOLEAN
        BY <2>7, <3>1 DEF Timed, Webs
      <3>3. x = [c EXCEPT !.exitTimer = FALSE, !.wantsToExit = FALSE, !.notify = b]
        BY <2>1, <2>5, <2>9, <3>1 DEF SetRootCompositingLayer
      <3>4. x \in Webs
        BY <2>7, <3>2, <3>3 DEF Timed, Webs
      <3>5. /\ x.displayTimer = c.displayTimer /\ x.host = c.host
            /\ x.waiting = c.waiting /\ x.exitTimer = FALSE /\ x.wantsToExit = FALSE
            /\ x.dirty = c.dirty /\ Quietly(c, x) /\ x.suspended = c.suspended
        BY <2>7, <3>3 DEF Timed, Webs, Quietly
      <3>6. Timed(x) /\ Drawing(x)
        BY <2>7, <3>4, <3>5 DEF Timed, Drawing, Quietly
      <3> QED
        BY <2>7, <3>5, <3>6 DEF Calmly, Quietly
    <2>10. CASE ~a /\ ~w.host
      <3>1. x = r
        BY <2>1, <2>10 DEF SetRootCompositingLayer
      <3> QED
        BY <2>3, <2>4, <3>1 DEF Calmly, Drawing, Quietly
    <2>11. CASE ~a /\ w.host /\ w.inUpdate
      <3>1. x = Left(c)
        BY <2>1, <2>5, <2>7, <2>11
           DEF SetRootCompositingLayer, ExitAcceleratedCompositingMode, Left, Quietly
      <3>2. /\ Timed(x) /\ Quietly(c, x) /\ x.waiting = c.waiting
            /\ x.suspended = c.suspended
        BY <2>7, <3>1, <1>LeftFacts
      <3>3. x.shouldSend
        BY <2>7, <2>11, <3>2 DEF Quietly
      <3> QED
        BY <2>7, <3>2, <3>3 DEF Calmly, Drawing, Quietly
    <2>12. CASE ~a /\ w.host /\ ~w.inUpdate
      <3>1. x = ExitAcceleratedCompositingModeSoon(c)
        BY <2>1, <2>5, <2>12 DEF SetRootCompositingLayer
      <3>2. Calmly(c, x)
        BY <2>7, <2>12, <3>1, <1>ExitSoonCalm
      <3> QED
        BY <2>7, <3>2 DEF Calmly, Quietly
    <2> QED
      BY <2>8, <2>9, <2>10, <2>11, <2>12
  <1>LayoutCalm.
    ASSUME NEW w, Timed(w), Drawing(w), w.inUpdate => w.shouldSend, NEW l \in Layouts,
           NEW x, x = Layout(w, l)
    PROVE  Calmly(w, x)
    <2> USE <1>LayoutCalm
    <2>1. CASE l = "attach"
      <3>1. x = SetRootCompositingLayer(w, TRUE)
        BY <2>1 DEF Layout
      <3> QED
        BY <3>1, <1>SetRootCalm
    <2>2. CASE l = "detach" /\ w.root
      <3>1. x = SetRootCompositingLayer(w, FALSE)
        BY <2>2 DEF Layout
      <3> QED
        BY <3>1, <1>SetRootCalm
    <2>3. CASE l # "attach" /\ ~(l = "detach" /\ w.root)
      <3>1. x = w
        BY <2>3 DEF Layout
      <3> QED
        BY <3>1 DEF Calmly, Quietly
    <2> QED
      BY <2>1, <2>2, <2>3
  <1>LayerHostDidFlushActs.
    ASSUME NEW w, Timed(w), Drawing(w), NEW x, x = LayerHostDidFlushLayers(w)
    PROVE  Acts(w, x)
    <2> USE <1>LayerHostDidFlushActs
    <2>1. PICK y : y = ScheduleLayerFlush(w)
      OBVIOUS
    <2>2. /\ Timed(y) /\ Quietly(w, y) /\ y.dirty = w.dirty
          /\ y.suspended = w.suspended /\ y.displayTimer = w.displayTimer
          /\ y.waiting = w.waiting
      BY <2>1, <1>ScheduleLayerFlushFacts
    <2>3. Drawing(y)
      BY <2>2 DEF Drawing, Quietly
    <2>4. CASE w.exitTimer
      <3>1. x = y
        BY <2>1, <2>4 DEF LayerHostDidFlushLayers
      <3> QED
        BY <2>2, <2>3, <3>1, <1>QuietlyActs
    <2>5. CASE ~w.exitTimer /\ w.shouldSend
      <3>1. x = SendDidUpdateBackingStoreState(y, FALSE)
        BY <2>1, <2>5 DEF LayerHostDidFlushLayers
      <3>2. y.shouldSend
        BY <2>2, <2>5 DEF Quietly
      <3>3. Acts(y, x)
        BY <2>2, <3>1, <3>2, <1>SendDidActs
      <3> QED
        BY <2>2, <3>3, <1>ActsAfter
    <2>6. CASE ~w.exitTimer /\ ~w.shouldSend
      <3>1. PICK m : m = [type |-> "EnterAcceleratedCompositingMode",
                          id |-> w.stateID, info |-> NoInfo, context |-> TRUE]
        OBVIOUS
      <3>2. PICK v : v = [y EXCEPT !.compositing = TRUE]
        OBVIOUS
      <3>3. x = Send(v, m)
        BY <2>1, <2>6, <3>1, <3>2 DEF LayerHostDidFlushLayers
      <3>4. w.stateID \in Nat /\ NoInfo \in Drawn /\ TRUE \in BOOLEAN
        <4>1. w.stateID \in Nat
          BY DEF Timed, Webs
        <4> QED
          BY <4>1, <1>NoInfoTyped
      <3>5. m \in Reports
        BY <3>1, <3>4, <1>ReportTyped
      <3>6. m.id = w.stateID /\ ~IsDid(m)
        BY <3>1 DEF IsDid
      <3>7. v \in Webs
        BY <2>2, <3>2 DEF Timed, Webs
      <3>8. /\ v.dirty = y.dirty /\ v.host = y.host /\ v.waiting = y.waiting
            /\ v.suspended = y.suspended /\ v.displayTimer = y.displayTimer
            /\ v.exitTimer = y.exitTimer /\ v.wantsToExit = y.wantsToExit
            /\ v.frozen = y.frozen /\ v.out = y.out /\ v.shouldSend = y.shouldSend
            /\ v.stateID = y.stateID /\ v.inUpdate = y.inUpdate
        BY <2>2, <3>2 DEF Timed, Webs
      <3>9. Timed(v)
        BY <2>2, <3>7, <3>8 DEF Timed
      <3>10. /\ Timed(x) /\ x.out = Append(v.out, m) /\ x.shouldSend = v.shouldSend
             /\ x.stateID = v.stateID /\ x.dirty = v.dirty /\ x.inUpdate = v.inUpdate
             /\ x.suspended = v.suspended /\ x.waiting = v.waiting
             /\ x.displayTimer = v.displayTimer
        BY <3>3, <3>5, <3>9, <1>SendFacts, SMTT(30)
      <3>11. Drawing(x)
        BY <2>3, <3>8, <3>10 DEF Drawing
      <3>12. /\ x.out = Append(w.out, m) /\ x.shouldSend = w.shouldSend
             /\ x.stateID = w.stateID /\ x.inUpdate = w.inUpdate
             /\ (x.waiting => w.waiting)
        BY <2>2, <3>8, <3>10 DEF Quietly
      <3>13. Sends(w, x) /\ Waits(w, x)
        BY <2>6, <3>5, <3>6, <3>12 DEF Sends, Waits
      <3> QED
        BY <3>10, <3>11, <3>12, <3>13 DEF Acts
    <2> QED
      BY <2>4, <2>5, <2>6
  \* Setting a flag of the layer tree host changes nothing else.
  <1>FlagFacts.
    ASSUME NEW w, Timed(w), NEW b \in BOOLEAN,
           NEW x, x = [w EXCEPT !.flush = b] \/ x = [w EXCEPT !.notify = b]
    PROVE  /\ Timed(x) /\ Quietly(w, x) /\ x.waiting = w.waiting /\ x.host = w.host
           /\ Drawing(w) => Drawing(x)
    <2> USE <1>FlagFacts
    <2>1. x \in Webs
      BY DEF Timed, Webs
    <2>2. /\ x.displayTimer = w.displayTimer /\ x.host = w.host
          /\ x.waiting = w.waiting /\ x.frozen = w.frozen
          /\ x.exitTimer = w.exitTimer /\ x.wantsToExit = w.wantsToExit
          /\ x.dirty = w.dirty /\ Quietly(w, x) /\ x.suspended = w.suspended
      BY DEF Timed, Webs, Quietly
    <2> QED
      BY <2>1, <2>2 DEF Timed, Drawing, Quietly
  <1>LayerFlushTimerFiredActs.
    ASSUME NEW w, Timed(w), Drawing(w), NEW f \in BOOLEAN,
           NEW x, x = LayerFlushTimerFired(w, f)
    PROVE  Acts(w, x)
    <2> USE <1>LayerFlushTimerFiredActs
    <2>1. PICK y : y = [w EXCEPT !.flush = FALSE]
      OBVIOUS
    <2>2. Timed(y) /\ Quietly(w, y) /\ Drawing(y) /\ y.waiting = w.waiting
      BY <2>1, <1>FlagFacts
    <2>3. CASE f /\ w.notify
      <3>1. PICK z : z = LayerHostDidFlushLayers(y)
        OBVIOUS
      <3>2. Acts(y, z)
        BY <2>2, <3>1, <1>LayerHostDidFlushActs
      <3>3. x = [z EXCEPT !.notify = FALSE]
        BY <2>1, <2>3, <3>1 DEF LayerFlushTimerFired
      <3>4. Timed(z) /\ Drawing(z)
        BY <3>2 DEF Acts
      <3>5. Timed(x) /\ Quietly(z, x) /\ Drawing(x) /\ x.waiting = z.waiting
        BY <3>3, <3>4, <1>FlagFacts
      <3>6. Acts(y, x)
        BY <3>2, <3>5, <1>ActsBefore
      <3> QED
        BY <2>2, <3>6, <1>ActsAfter
    <2>4. CASE ~(f /\ w.notify)
      <3>1. x = y
        BY <2>1, <2>4 DEF LayerFlushTimerFired
      <3> QED
        BY <2>2, <3>1, <1>QuietlyActs
    <2> QED
      BY <2>3, <2>4
  <1>SetFrozenCalm.
    ASSUME NEW w, Timed(w), Drawing(w), NEW f \in BOOLEAN,
           NEW x, x = SetLayerTreeStateIsFrozen(w, f)
    PROVE  Acts(w, x)
    <2> USE <1>SetFrozenCalm
    <2>1. PICK g \in BOOLEAN : g = ~f
      OBVIOUS
    <2>2. PICK z : z = [w EXCEPT !.frozen = f]
      OBVIOUS
    <2>3. z \in Webs
      BY <2>2 DEF Timed, Webs
    <2>4. /\ z.displayTimer = w.displayTimer /\ z.host = w.host
          /\ z.waiting = w.waiting /\ z.frozen = f
          /\ z.exitTimer = w.exitTimer /\ z.wantsToExit = w.wantsToExit
          /\ z.dirty = w.dirty /\ Quietly(w, z) /\ z.suspended = w.suspended
      BY <2>2 DEF Timed, Webs, Quietly
    <2>5. PICK y : y = IF w.host THEN SetLayerFlushSchedulingEnabled(z, g) ELSE z
      OBVIOUS
    <2>6. x = IF f THEN [y EXCEPT !.exitTimer = FALSE]
              ELSE IF w.wantsToExit THEN ExitAcceleratedCompositingModeSoon(y)
              ELSE y
      BY <2>1, <2>2, <2>5 DEF SetLayerTreeStateIsFrozen
    <2>7. /\ y \in Webs /\ Quietly(w, y) /\ y.dirty = w.dirty
          /\ y.suspended = w.suspended /\ y.displayTimer = w.displayTimer
          /\ y.waiting = w.waiting /\ y.host = w.host
          /\ y.exitTimer = w.exitTimer /\ y.frozen = f /\ y.wantsToExit = w.wantsToExit
      <3>1. CASE w.host
        <4>1. y = z \/ y = [z EXCEPT !.flushEnabled = g, !.flush = g]
          BY <2>5, <3>1 DEF SetLayerFlushSchedulingEnabled
        <4>2. y \in Webs
          BY <2>3, <4>1 DEF Webs
        <4>3. /\ y.displayTimer = z.displayTimer /\ y.host = z.host
              /\ y.waiting = z.waiting /\ y.frozen = z.frozen
              /\ y.exitTimer = z.exitTimer /\ y.wantsToExit = z.wantsToExit
              /\ y.dirty = z.dirty /\ Quietly(z, y) /\ y.suspended = z.suspended
          BY <2>3, <4>1 DEF Webs, Quietly
        <4> QED
          BY <2>4, <4>2, <4>3 DEF Quietly
      <3>2. CASE ~w.host
        BY <2>3, <2>4, <2>5, <3>2
      <3> QED
        BY <3>1, <3>2
    <2>8. Drawing(y)
      BY <2>7 DEF Drawing, Quietly
    <2>9. CASE f
      <3>1. x = [y EXCEPT !.exitTimer = FALSE]
        BY <2>6, <2>9
      <3>2. x \in Webs
        BY <2>7, <3>1 DEF Webs
      <3>3. /\ x.displayTimer = y.displayTimer /\ x.host = y.host
            /\ x.waiting = y.waiting /\ x.exitTimer = FALSE
            /\ x.wantsToExit = y.wantsToExit
            /\ x.dirty = y.dirty /\ Quietly(y, x) /\ x.suspended = y.suspended
        BY <2>7, <3>1 DEF Webs, Quietly
      <3>4. Timed(x) /\ Drawing(x)
        BY <2>7, <2>8, <3>2, <3>3 DEF Timed, Drawing, Quietly
      <3>5. Quietly(w, x) /\ (x.waiting => w.waiting)
        BY <2>7, <3>3 DEF Quietly
      <3> QED
        BY <3>4, <3>5, <1>QuietlyActs
    <2>10. CASE ~f
      <3>1. Timed(y)
        BY <2>7, <2>10 DEF Timed
      <3>2. CASE w.wantsToExit
        <4>1. x = ExitAcceleratedCompositingModeSoon(y) /\ y.host
          BY <2>6, <2>7, <2>10, <3>2 DEF Timed
        <4>2. Calmly(y, x)
          BY <2>8, <3>1, <4>1, <1>ExitSoonCalm
        <4> QED
          BY <2>7, <4>2, <1>QuietlyActs DEF Calmly, Quietly
      <3>3. CASE ~w.wantsToExit
        <4>1. x = y
          BY <2>6, <2>10, <3>3
        <4> QED
          BY <2>7, <2>8, <3>1, <4>1, <1>QuietlyActs
      <3> QED
        BY <3>2, <3>3
    <2> QED
      BY <2>9, <2>10
  <1>ForceRepaintActs.
    ASSUME NEW w, Timed(w), Drawing(w), ~w.inUpdate, NEW l \in Layouts,
           NEW t \in BOOLEAN, NEW x, x = ForceRepaint(w, l, t)
    PROVE  Acts(w, x)
    <2> USE <1>ForceRepaintActs
    <2>1. PICK a : a = SetNeedsDisplay(w, "all")
      OBVIOUS
    <2>2. PICK y : y = Layout(a, l)
      OBVIOUS
    <2>3. "all" \in Areas
      BY DEF Areas
    <2>4. Timed(a) /\ Quietly(w, a) /\ Drawing(a) /\ a.waiting = w.waiting
      BY <2>1, <2>3, <1>SetNeedsDisplayFacts
    <2>5. ~a.inUpdate
      BY <2>4 DEF Quietly
    <2>6. Calmly(a, y)
      BY <2>2, <2>4, <2>5, <1>LayoutCalm
    <2>7. Timed(y) /\ Drawing(y) /\ Quietly(w, y) /\ (y.waiting => w.waiting)
      BY <2>4, <2>6 DEF Calmly, Quietly
    <2>8. CASE y.host /\ y.compositing
      <3>1. x = ScheduleLayerFlush(y)
        BY <2>1, <2>2, <2>8 DEF ForceRepaint
      <3>2. /\ Timed(x) /\ Quietly(y, x) /\ x.dirty = y.dirty
            /\ x.suspended = y.suspended /\ x.displayTimer = y.displayTimer
            /\ x.waiting = y.waiting
        BY <2>7, <3>1, <1>ScheduleLayerFlushFacts
      <3>3. Drawing(x)
        BY <2>7, <3>2 DEF Drawing, Quietly
      <3>4. Acts(y, x)
        BY <3>2, <3>3, <1>QuietlyActs
      <3> QED
        BY <2>7, <3>4, <1>ActsAfter
    <2>9. CASE y.host /\ ~y.compositing
      <3>1. PICK z : z = [y EXCEPT !.notify = FALSE]
        OBVIOUS
      <3>2. x = LayerHostDidFlushLayers(z)
        BY <2>1, <2>2, <2>9, <3>1 DEF ForceRepaint
      <3>3. Timed(z) /\ Quietly(y, z) /\ Drawing(z) /\ z.waiting = y.waiting
        BY <2>7, <3>1, <1>FlagFacts
      <3>4. Acts(z, x)
        BY <3>2, <3>3, <1>LayerHostDidFlushActs
      <3>5. Acts(y, x)
        BY <3>3, <3>4, <1>ActsAfter
      <3> QED
        BY <2>7, <3>5, <1>ActsAfter
    <2>10. CASE ~y.host
      <3>1. x = Display([y EXCEPT !.waiting = FALSE], t)
        BY <2>1, <2>2, <2>10 DEF ForceRepaint
      <3>2. Acts(y, x)
        BY <2>7, <2>10, <3>1, <1>DisplayAfterWait
      <3> QED
        BY <2>7, <3>2, <1>ActsAfter
    <2> QED
      BY <2>8, <2>9, <2>10
  <1>ResumePaintingFacts.
    ASSUME NEW w, Timed(w), NEW x, x = ResumePainting(w)
    PROVE  Timed(x) /\ Quietly(w, x) /\ x.waiting = w.waiting
    <2> USE <1>ResumePaintingFacts
    <2>1. CASE w.suspended
      <3>1. PICK y : y = [w EXCEPT !.suspended = FALSE]
        OBVIOUS
      <3>2. y \in Webs
        BY <3>1 DEF Timed, Webs
      <3>3. /\ y.displayTimer = w.displayTimer /\ y.host = w.host
            /\ y.waiting = w.waiting /\ y.frozen = w.frozen
            /\ y.exitTimer = w.exitTimer /\ y.wantsToExit = w.wantsToExit
            /\ y.dirty = w.dirty /\ Quietly(w, y)
        BY <3>1 DEF Timed, Webs, Quietly
      <3>4. Timed(y)
        BY <3>2, <3>3 DEF Timed
      <3>5. x = SetNeedsDisplay(y, "all") /\ "all" \in Areas
        BY <2>1, <3>1 DEF ResumePainting, Areas
      <3>6. Timed(x) /\ Quietly(y, x) /\ x.waiting = y.waiting
        BY <3>4, <3>5, <1>SetNeedsDisplayFacts
      <3> QED
        BY <3>3, <3>6 DEF Quietly
    <2>2. CASE ~w.suspended
      BY <2>2 DEF ResumePainting, Quietly
    <2> QED
      BY <2>1, <2>2
  <1>UpdateStateFacts.
    ASSUME NEW w, Timed(w), Drawing(w), ~w.inUpdate, NEW l \in Layouts,
           NEW t \in BOOLEAN, NEW m, m.id \in Nat, m.size \in Nat,
           m.respond \in BOOLEAN,
           NEW x, x = UpdateBackingStoreState(w, m, l, t)
    PROVE  IF m.id = w.stateID /\ ~w.shouldSend THEN x = w ELSE Enters(w, m, x)
    <2> USE <1>UpdateStateFacts
    <2>1. CASE m.id = w.stateID /\ ~w.shouldSend
      BY <2>1 DEF UpdateBackingStoreState
    <2>2. CASE ~(m.id = w.stateID /\ ~w.shouldSend)
      <3>1. PICK s : s = [w EXCEPT !.inUpdate = TRUE, !.stateID = m.id,
                                   !.shouldSend = TRUE, !.size = m.size]
        OBVIOUS
      <3>2. PICK r : r = Layout(s, l)
        OBVIOUS
      <3>3. PICK o : o = IF m.id = w.stateID THEN [w EXCEPT !.inUpdate = TRUE]
                         ELSE IF r.host THEN r
                         ELSE [r EXCEPT !.dirty = Bounds(r)]
        OBVIOUS
      <3>4. PICK y : y = [o EXCEPT !.waiting = FALSE]
        OBVIOUS
      <3>5. PICK p : p = ResumePainting(y)
        OBVIOUS
      <3>6. PICK z : z = IF m.respond THEN SendDidUpdateBackingStoreState(p, t) ELSE y
        OBVIOUS
      <3>7. x = [z EXCEPT !.inUpdate = FALSE]
        BY <2>2, <3>1, <3>2, <3>3, <3>4, <3>5, <3>6 DEF UpdateBackingStoreState
      <3>8. /\ Timed(o) /\ o.shouldSend = TRUE /\ o.out = w.out /\ o.stateID = m.id
        <4>1. CASE m.id = w.stateID
          <5>1. o = [w EXCEPT !.inUpdate = TRUE]
            BY <3>3, <4>1
          <5>2. o \in Webs
            BY <5>1 DEF Timed, Webs
          <5>3. /\ o.displayTimer = w.displayTimer /\ o.host = w.host
                /\ o.waiting = w.waiting /\ o.frozen = w.frozen
                /\ o.exitTimer = w.exitTimer /\ o.wantsToExit = w.wantsToExit
                /\ o.dirty = w.dirty /\ o.shouldSend = w.shouldSend
                /\ o.out = w.out /\ o.stateID = w.stateID
            BY <5>1 DEF Timed, Webs
          <5>4. Timed(o)
            BY <5>2, <5>3 DEF Timed
          <5> QED
            BY <2>2, <4>1, <5>2, <5>3, <5>4 DEF Webs
        <4>2. CASE m.id # w.stateID
          <5>1. s \in Webs
            BY <3>1 DEF Timed, Webs
          <5>2. /\ s.displayTimer = w.displayTimer /\ s.host = w.host
                /\ s.waiting = w.waiting /\ s.frozen = w.frozen
                /\ s.exitTimer = w.exitTimer /\ s.wantsToExit = w.wantsToExit
                /\ s.dirty = w.dirty /\ s.shouldSend = TRUE
                /\ s.out = w.out /\ s.stateID = m.id
            BY <3>1 DEF Timed, Webs
          <5>3. Timed(s) /\ Drawing(s) /\ s.shouldSend
            BY <5>1, <5>2 DEF Timed, Drawing
          <5>4. Calmly(s, r)
            BY <3>2, <5>3, <1>LayoutCalm
          <5>5. Timed(r) /\ r.shouldSend = TRUE /\ r.out = w.out /\ r.stateID = m.id
            BY <5>2, <5>4 DEF Calmly, Quietly
          <5>6. CASE r.host
            BY <3>3, <4>2, <5>5, <5>6
          <5>7. CASE ~r.host
            <6>1. PICK a \in Areas : a = Bounds(r)
              BY <1>BoundsTyped
            <6>2. o = [r EXCEPT !.dirty = a]
              BY <3>3, <4>2, <5>7, <6>1
            <6>3. o \in Webs
              BY <5>5, <6>2 DEF Timed, Webs
            <6>4. /\ o.displayTimer = r.displayTimer /\ o.host = r.host
                  /\ o.waiting = r.waiting /\ o.frozen = r.frozen
                  /\ o.exitTimer = r.exitTimer /\ o.wantsToExit = r.wantsToExit
                  /\ o.shouldSend = r.shouldSend /\ o.out = r.out
                  /\ o.stateID = r.stateID
              BY <5>5, <6>2 DEF Timed, Webs
            <6>5. Timed(o)
              BY <5>5, <5>7, <6>3, <6>4 DEF Timed
            <6> QED
              BY <5>5, <6>4, <6>5
          <5> QED
            BY <5>6, <5>7
        <4> QED
          BY <4>1, <4>2
      <3>9. Timed(y) /\ Quietly(o, y) /\ y.waiting = FALSE
        BY <3>4, <3>8, <1>WaitingEnds
      <3>10. y.shouldSend = TRUE /\ y.out = w.out /\ y.stateID = m.id
        BY <3>8, <3>9 DEF Quietly
      <3>11. /\ Timed(z) /\ Drawing(z) /\ z.waiting = FALSE /\ z.stateID = m.id
             /\ \/ ~m.respond /\ z.out = w.out /\ z.shouldSend = TRUE
                \/ /\ m.respond /\ ~z.shouldSend
                   /\ \E q \in Reports : z.out = Append(w.out, q) /\ IsDid(q) /\ q.id = m.id
        <4>1. CASE ~m.respond
          <5>1. z = y
            BY <3>6, <4>1
          <5> QED
            BY <3>9, <3>10, <4>1, <5>1 DEF Drawing
        <4>2. CASE m.respond
          <5>1. z = SendDidUpdateBackingStoreState(p, t)
            BY <3>6, <4>2
          <5>2. Timed(p) /\ Quietly(y, p) /\ p.waiting = y.waiting
            BY <3>5, <3>9, <1>ResumePaintingFacts
          <5>3. p.shouldSend /\ p.out = w.out /\ p.stateID = m.id /\ ~p.waiting
            BY <3>9, <3>10, <5>2 DEF Quietly
          <5>4. /\ Timed(z) /\ Drawing(z) /\ Sends(p, z) /\ ~z.shouldSend
                /\ (z.waiting => p.waiting)
            BY <5>1, <5>2, <5>3, <1>SendDidFacts
          <5>5. z.waiting = FALSE
            BY <5>3, <5>4 DEF Timed, Webs
          <5>6. PICK q \in Reports : /\ z.out = Append(p.out, q) /\ q.id = p.stateID
                                     /\ ~z.shouldSend /\ IsDid(q)
            BY <5>3, <5>4 DEF Sends
          <5> QED
            BY <4>2, <5>3, <5>4, <5>5, <5>6 DEF Sends
        <4> QED
          BY <4>1, <4>2
      <3>12. x \in Webs
        BY <3>7, <3>11 DEF Timed, Webs
      <3>13. /\ x.displayTimer = z.displayTimer /\ x.host = z.host
             /\ x.waiting = z.waiting /\ x.frozen = z.frozen
             /\ x.exitTimer = z.exitTimer /\ x.wantsToExit = z.wantsToExit
             /\ x.dirty = z.dirty /\ x.suspended = z.suspended
             /\ x.shouldSend = z.shouldSend /\ x.out = z.out
             /\ x.stateID = z.stateID /\ x.inUpdate = FALSE
        BY <3>7, <3>11 DEF Timed, Webs
      <3>14. Timed(x) /\ Drawing(x)
        BY <3>11, <3>12, <3>13 DEF Timed, Drawing
      <3> QED
        BY <2>2, <3>11, <3>13, <3>14 DEF Enters
    <2> QED
      BY <2>1, <2>2
  <1>OrderedAppend.
    ASSUME NEW c \in Nat, NEW s \in Nat, NEW d \in BOOLEAN, NEW q \in Seq(Reports),
           Ordered(c, s, d, q),
           NEW m \in Reports, m.id = s, IsDid(m) <=> d, NEW r, r = Append(q, m)
    PROVE  Ordered(c, s, FALSE, r)
    <2> USE <1>OrderedAppend
    <2>1. PICK n \in Nat : n = Len(q)
      BY ReportIDs
    <2>2. /\ r \in Seq(Reports) /\ Len(r) = n + 1
          /\ \A i \in 1 .. n : r[i] = q[i]
          /\ r[n + 1] = m
      BY <2>1, AppendReport, SMTT(30)
    <2>3. \A i \in 1 .. n : q[i].id \in Nat
      BY <2>1, ReportIDs
    <2>4. /\ c <= s /\ (d => c < s)
          /\ \A i \in 1 .. n :
               IsDid(q[i]) => c < q[i].id /\ q[i].id <= s /\ (d => q[i].id < s)
          /\ \A i, j \in 1 .. n :
               i < j /\ IsDid(q[i]) /\ IsDid(q[j]) => q[i].id < q[j].id
          /\ \A j \in 1 .. n :
               ~IsDid(q[j]) =>
                 \/ q[j].id <= c
                 \/ \E i \in 1 .. n : i < j /\ IsDid(q[i]) /\ q[j].id <= q[i].id
          /\ d \/ s <= c \/ \E i \in 1 .. n : IsDid(q[i]) /\ s <= q[i].id
      BY <2>1 DEF Ordered
    <2>5. \A i \in 1 .. n + 1 : i \in 1 .. n \/ i = n + 1
      BY SMTT(30)
    <2>6. \A i \in 1 .. n : i \in 1 .. n + 1 /\ i < n + 1
      BY SMTT(30)
    <2>7. ASSUME NEW i \in 1 .. n + 1, IsDid(r[i])
          PROVE  c < r[i].id /\ r[i].id <= s
      <3>1. CASE i \in 1 .. n
        BY <2>2, <2>4, <2>7, <3>1
      <3>2. CASE i = n + 1
        <4>1. d
          BY <2>2, <2>7, <3>2
        <4> QED
          BY <2>2, <2>4, <3>2, <4>1, SMTT(30)
      <3> QED
        BY <2>5, <3>1, <3>2
    <2>8. ASSUME NEW i \in 1 .. n + 1, NEW j \in 1 .. n + 1, i < j,
                 IsDid(r[i]), IsDid(r[j])
          PROVE  r[i].id < r[j].id
      <3>1. i \in 1 .. n
        BY <2>8, SMTT(30)
      <3>2. CASE j \in 1 .. n
        BY <2>2, <2>4, <2>8, <3>1, <3>2
      <3>3. CASE j = n + 1
        <4>1. d
          BY <2>2, <2>8, <3>3
        <4> QED
          BY <2>2, <2>4, <2>8, <3>1, <3>3, <4>1
      <3> QED
        BY <2>5, <3>2, <3>3
    <2>9. ASSUME NEW j \in 1 .. n + 1, ~IsDid(r[j])
          PROVE  \/ r[j].id <= c
                 \/ \E i \in 1 .. n + 1 : i < j /\ IsDid(r[i]) /\ r[j].id <= r[i].id
      <3>1. CASE j \in 1 .. n
        <4>1. CASE q[j].id <= c
          BY <2>2, <3>1, <4>1
        <4>2. CASE \E i \in 1 .. n : i < j /\ IsDid(q[i]) /\ q[j].id <= q[i].id
          BY <2>2, <2>6, <3>1, <4>2
        <4> QED
          BY <2>2, <2>4, <2>9, <3>1, <4>1, <4>2
      <3>2. CASE j = n + 1
        <4>1. ~d /\ r[j].id = s
          BY <2>2, <2>9, <3>2
        <4> QED
          BY <2>2, <2>4, <2>6, <3>2, <4>1
      <3> QED
        BY <2>5, <3>1, <3>2
    <2>10. s <= c \/ \E i \in 1 .. n + 1 : IsDid(r[i]) /\ s <= r[i].id
      <3>1. CASE d
        <4>1. IsDid(r[n + 1]) /\ s <= r[n + 1].id /\ n + 1 \in 1 .. n + 1
          BY <2>2, <3>1, SMTT(30)
        <4> QED
          BY <4>1
      <3>2. CASE ~d
        BY <2>2, <2>4, <2>6, <3>2
      <3> QED
        BY <3>1, <3>2
    <2> QED
      BY <2>2, <2>4, <2>7, <2>8, <2>9, <2>10 DEF Ordered
  \* The web process enters a newer state, for which it owes an answer.
  <1>OrderedEnter.
    ASSUME NEW c \in Nat, NEW s \in Nat, NEW d \in BOOLEAN, NEW q \in Seq(Reports),
           Ordered(c, s, d, q), NEW e \in Nat, s < e
    PROVE  Ordered(c, e, TRUE, q)
    <2> USE <1>OrderedEnter
    <2>1. \A i \in 1 .. Len(q) : q[i].id \in Nat
      BY ReportIDs
    <2>2. c <= e /\ c < e
      BY SMTT(30) DEF Ordered
    <2>3. \A i \in 1 .. Len(q) : IsDid(q[i]) => c < q[i].id /\ q[i].id <= e /\ q[i].id < e
      BY <2>1, SMTT(30) DEF Ordered
    <2> QED
      BY <2>2, <2>3 DEF Ordered
  <1>AskedTail.
    ASSUME NEW s \in Nat, NEW n \in Nat, NEW tw \in Seq(Orders), Asked(s, n, tw),
           tw # << >>, NEW t, t = Tail(tw)
    PROVE  /\ t \in Seq(Orders) /\ Asked(s, n, t)
           /\ IsAsk(tw[1]) => s <= tw[1].id /\ Asked(tw[1].id, n, t)
    <2> USE <1>AskedTail
    <2>1. /\ t \in Seq(Orders) /\ Len(tw) \in Nat /\ Len(t) = Len(tw) - 1
          /\ 1 \in 1 .. Len(tw)
          /\ \A i \in 1 .. Len(t) : t[i] = tw[i + 1] /\ i + 1 \in 1 .. Len(tw) /\ 1 < i + 1
      BY SMTT(30)
    <2>2. ASSUME NEW i \in 1 .. Len(t), NEW j \in 1 .. Len(t), i < j,
                 IsAsk(t[i]), IsAsk(t[j])
          PROVE  t[i].id <= t[j].id
      <3>1. i + 1 < j + 1
        BY <2>2, SMTT(30)
      <3> QED
        BY <2>1, <2>2, <3>1 DEF Asked
    <2>3. Asked(s, n, t)
      BY <2>1, <2>2 DEF Asked
    <2>4. IsAsk(tw[1]) => s <= tw[1].id /\ Asked(tw[1].id, n, t)
      BY <2>1, <2>2 DEF Asked
    <2> QED
      BY <2>1, <2>3, <2>4
  <1>ReportsSent.
    ASSUME NEW q \in Seq(Reports)
    PROVE  /\ q \o << >> = q
           /\ \A m \in Reports : /\ q \o <<m>> = Append(q, m)
                                 /\ Append(q, m) \in Seq(Reports)
                                 /\ Append(<< >>, m) = <<m>>
    BY SMTT(30)
  <1>ActsSends.
    ASSUME NEW w, w.out = << >>, NEW x, Sends(w, x), NEW q \in Seq(Reports),
           NEW r, r = q \o x.out
    PROVE  OnItsWay(w, x, q, r)
    <2> USE <1>ActsSends
    <2>1. CASE x.out = w.out /\ x.shouldSend = w.shouldSend
      BY <2>1, <1>ReportsSent DEF OnItsWay
    <2>2. ASSUME NEW m \in Reports, x.out = Append(w.out, m), m.id = w.stateID,
                 ~x.shouldSend, IsDid(m) <=> w.shouldSend
          PROVE  r = Append(q, m)
      <3>1. q \o <<m>> = Append(q, m) /\ Append(<< >>, m) = <<m>>
        BY SMTT(30)
      <3> QED
        BY <2>2, <3>1
    <2> QED
      BY <2>1, <2>2 DEF Sends, OnItsWay
  <1>OneMessage.
    ASSUME NEW m, NEW r, Append(<< >>, m) = Append(<< >>, r)
    PROVE  m = r
    <2> USE <1>OneMessage
    <2>1. Append(<< >>, m)[1] = m /\ Append(<< >>, r)[1] = r
      BY SMTT(30)
    <2> QED
      BY <2>1
  \* Any call of the web process; if it ends a wait for an acknowledgement and
  \* begins a new one, its update is on its way.
  <1>ActsKeeps.
    ASSUME NEW u, u.current \in Nat, u.next \in Nat, NEW w, Timed(w), w.out = << >>,
           NEW x, Acts(w, x), NEW q \in Seq(Reports), NEW tw,
           Ordered(u.current, w.stateID, w.shouldSend, q),
           Asked(w.stateID, u.next, tw),
           Answered(u.waiting, w.stateID, w.shouldSend, q, tw),
           \/ Acknowledged(w.waiting, w.stateID, q, tw)
           \/ x.waiting => \E m \in Reports : /\ x.out = Append(w.out, m)
                                              /\ m.type = "Update" /\ m.id = w.stateID,
           NEW r, r = q \o x.out
    PROVE  InStep(u, x, r, tw)
    <2> USE <1>ActsKeeps
    <2>1. PICK s \in Nat, d \in BOOLEAN : s = w.stateID /\ d = w.shouldSend
      BY DEF Timed, Webs
    <2>2. x.stateID = s /\ Sends(w, x) /\ Waits(w, x)
      BY <2>1 DEF Acts, Sends
    <2>3. Timed(x) /\ x.shouldSend \in BOOLEAN
      BY DEF Acts, Timed, Webs
    <2>4. CASE r = q /\ x.out = w.out /\ x.shouldSend = w.shouldSend
      <3>1. \A m : << >> # Append(<< >>, m)
        BY SMTT(30)
      <3>2. x.waiting => Acknowledged(w.waiting, s, q, tw) /\ w.waiting
        BY <2>1, <2>2, <2>4, <3>1 DEF Waits
      <3>3. Acknowledged(x.waiting, s, q, tw)
        BY <3>2 DEF Acknowledged
      <3> QED
        BY <2>1, <2>2, <2>4, <3>3 DEF InStep
    <2>5. ASSUME NEW m \in Reports, r = Append(q, m), m.id = w.stateID,
                 x.out = Append(w.out, m), ~x.shouldSend, IsDid(m) <=> w.shouldSend
          PROVE  InStep(u, x, r, tw)
      <3>1. Ordered(u.current, s, FALSE, r)
        BY <2>1, <2>5, <1>OrderedAppend
      <3>2. x.shouldSend = FALSE
        BY <2>3, <2>5
      <3>3. Range(r) = Range(q) \cup {m}
        <4>1. Range(Append(q, m)) = Range(q) \cup {m}
          BY RangeFacts
        <4> QED
          BY <2>5, <4>1
      <3>4. Answered(u.waiting, s, FALSE, r, tw)
        BY <2>1, <2>5, <3>3 DEF Answered
      <3>5. \A o \in Reports : x.out = Append(w.out, o) => o = m
        BY <2>5, <1>OneMessage
      <3>6. Acknowledged(x.waiting, s, r, tw)
        BY <2>1, <2>2, <2>5, <3>3, <3>5 DEF Acknowledged, Waits
      <3> QED
        BY <2>1, <2>2, <3>1, <3>2, <3>4, <3>6 DEF InStep
    <2>6. OnItsWay(w, x, q, r)
      BY <2>2, <1>ActsSends
    <2> QED
      BY <2>4, <2>5, <2>6 DEF OnItsWay
  \* A request is handled that the web process has answered already.
  <1>IgnoredKeeps.
    ASSUME NEW u, u.current \in Nat, u.next \in Nat, NEW w, Timed(w), w.out = << >>,
           NEW q \in Seq(Reports), NEW tw \in Seq(Orders), tw # << >>,
           InStep(u, w, q, tw), IsAsk(tw[1]), tw[1].id = w.stateID, ~w.shouldSend,
           NEW t, t = Tail(tw), NEW r, r = q \o w.out
    PROVE  InStep(u, w, r, t)
    <2> USE <1>IgnoredKeeps
    <2>1. PICK s \in Nat, d \in BOOLEAN : s = w.stateID /\ d = w.shouldSend
      BY DEF Timed, Webs
    <2>2. r = q
      BY <1>ReportsSent
    <2>3. Asked(s, u.next, tw)
      BY <2>1 DEF InStep
    <2>4. Asked(s, u.next, t)
      BY <2>3, <1>AskedTail
    <2>5. Range(tw) = {tw[1]} \cup Range(t)
      BY RangeFacts
    <2>6. ~(s < tw[1].id)
      BY <2>1, SMTT(30)
    <2>7. Answered(u.waiting, s, d, q, t)
      BY <2>1, <2>5, <2>6 DEF InStep, Answered
    <2>8. Acknowledged(w.waiting, s, q, t)
      BY <2>1, <2>5, <2>6 DEF InStep, Acknowledged
    <2> QED
      BY <2>1, <2>2, <2>4, <2>7, <2>8 DEF InStep
  \* A request is handled that makes the web process enter a state, or answer
  \* for one it has entered.
  <1>EntersKeeps.
    ASSUME NEW u, u.current \in Nat, u.next \in Nat, NEW w, Timed(w), w.out = << >>,
           NEW q \in Seq(Reports), NEW tw \in Seq(Orders), tw # << >>,
           InStep(u, w, q, tw), IsAsk(tw[1]),
           ~(tw[1].id = w.stateID /\ ~w.shouldSend), NEW x, Enters(w, tw[1], x),
           NEW t, t = Tail(tw), NEW r, r = q \o x.out
    PROVE  InStep(u, x, r, t)
    <2> USE <1>EntersKeeps
    <2>1. PICK s \in Nat, d \in BOOLEAN : s = w.stateID /\ d = w.shouldSend
      BY DEF Timed, Webs
    <2>2. tw[1] \in Orders
      BY SMTT(30)
    <2>3. PICK e \in Nat : e = tw[1].id
      BY <2>2, OrderFacts
    <2>4. Asked(s, u.next, tw) /\ Ordered(u.current, s, d, q)
      BY <2>1 DEF InStep
    <2>5. s <= e /\ Asked(e, u.next, t)
      BY <2>3, <2>4, <1>AskedTail
    <2>6. Ordered(u.current, e, TRUE, q)
      <3>1. CASE s < e
        BY <2>4, <3>1, <1>OrderedEnter
      <3>2. CASE s = e
        <4>1. d = TRUE
          BY <2>1, <2>3, <3>2
        <4> QED
          BY <2>4, <3>2, <4>1
      <3>3. s < e \/ s = e
        BY <2>5, SMTT(30)
      <3> QED
        BY <3>1, <3>2, <3>3
    <2>7. Range(tw) = {tw[1]} \cup Range(t)
      BY RangeFacts
    <2>8. /\ x.stateID = e /\ x.waiting = FALSE /\ Timed(x)
      BY <2>3 DEF Enters
    <2>9. Acknowledged(x.waiting, e, r, t)
      BY <2>8 DEF Acknowledged
    <2>10. CASE ~tw[1].respond /\ x.out = w.out /\ x.shouldSend = TRUE
      <3>1. r = q
        BY <2>10, <1>ReportsSent
      <3>2. Answered(u.waiting, e, TRUE, q, t)
        BY <2>7, <2>10 DEF InStep, Answered
      <3> QED
        BY <2>5, <2>6, <2>8, <2>9, <2>10, <3>1, <3>2 DEF InStep
    <2>11. ASSUME NEW m \in Reports, x.out = Append(w.out, m), IsDid(m),
                  m.id = tw[1].id, ~x.shouldSend
           PROVE  InStep(u, x, r, t)
      <3>1. r = Append(q, m)
        <4>1. q \o <<m>> = Append(q, m) /\ Append(<< >>, m) = <<m>>
          BY SMTT(30)
        <4> QED
          BY <2>11, <4>1
      <3>2. Ordered(u.current, e, FALSE, r)
        BY <2>3, <2>6, <2>11, <3>1, <1>OrderedAppend
      <3>3. Range(r) = Range(q) \cup {m}
        BY <3>1, RangeFacts
      <3>4. Answered(u.waiting, e, FALSE, r, t)
        BY <2>11, <3>3 DEF Answered
      <3>5. x.shouldSend = FALSE
        BY <2>8, <2>11 DEF Timed, Webs
      <3> QED
        BY <2>5, <2>8, <2>9, <3>2, <3>4, <3>5 DEF InStep
    <2> QED
      BY <2>10, <2>11 DEF Enters
  \* An acknowledgement is handled.
  <1>DidUpdateKeeps.
    ASSUME NEW u, u.current \in Nat, u.next \in Nat, NEW w, Timed(w), w.out = << >>,
           NEW q \in Seq(Reports), NEW tw \in Seq(Orders), tw # << >>,
           InStep(u, w, q, tw), ~IsAsk(tw[1]), NEW x, Acts(w, x),
           x.waiting => \E m \in Reports : /\ x.out = Append(w.out, m)
                                           /\ m.type = "Update" /\ m.id = w.stateID,
           NEW t, t = Tail(tw), NEW r, r = q \o x.out
    PROVE  InStep(u, x, r, t)
    <2> USE <1>DidUpdateKeeps
    <2>1. PICK s \in Nat, d \in BOOLEAN : s = w.stateID /\ d = w.shouldSend
      BY DEF Timed, Webs
    <2>2. Asked(s, u.next, tw)
      BY <2>1 DEF InStep
    <2>3. Asked(s, u.next, t)
      BY <2>2, <1>AskedTail
    <2>4. Range(tw) = {tw[1]} \cup Range(t)
      BY RangeFacts
    <2>5. Answered(u.waiting, w.stateID, w.shouldSend, q, t)
      BY <2>4 DEF InStep, Answered
    <2>6. Ordered(u.current, w.stateID, w.shouldSend, q)
      BY DEF InStep
    <2> QED
      BY <2>1, <2>3, <2>5, <2>6, <1>ActsKeeps
  <1>QueueGrows.
    ASSUME NEW a \in Seq(Reports), NEW b \in Seq(Reports), NEW c \in Seq(Reports),
           NEW o \in Seq(Reports), NEW e, e = c \o o, NEW q, q = a \o b \o c,
           NEW r, r = a \o b \o e
    PROVE  Grown(q, o, r)
    <2> USE <1>QueueGrows
    <2>1. PICK p \in Seq(Reports) : p = a \o b
      BY ConcatFacts
    <2>2. p \o c \o o = p \o (c \o o)
      BY ConcatAssociative, SMTT(30)
    <2> QED
      BY <2>1, <2>2 DEF Grown
  <1>SentOff.
    ASSUME NEW x, Timed(x), Drawing(x), x.inUpdate = FALSE,
           NEW y, y = [x EXCEPT !.out = << >>]
    PROVE  /\ Timed(y) /\ Drawing(y) /\ y.inUpdate = FALSE /\ y.out = << >>
           /\ x.out \in Seq(Reports)
           /\ y.stateID = x.stateID /\ y.shouldSend = x.shouldSend
           /\ y.waiting = x.waiting
    <2> USE <1>SentOff
    <2>1. x \in Webs /\ x.out \in Seq(Reports)
      BY DEF Timed, Webs
    <2>2. << >> \in Seq(Reports)
      BY SMTT(30)
    <2>3. y \in Webs
      BY <2>1, <2>2 DEF Webs
    <2>4. /\ y.stateID = x.stateID /\ y.shouldSend = x.shouldSend
          /\ y.waiting = x.waiting /\ y.inUpdate = x.inUpdate /\ y.host = x.host
          /\ y.displayTimer = x.displayTimer /\ y.exitTimer = x.exitTimer
          /\ y.frozen = x.frozen /\ y.wantsToExit = x.wantsToExit
          /\ y.dirty = x.dirty /\ y.suspended = x.suspended /\ y.out = << >>
      BY <2>1 DEF Webs
    <2>5. Timed(y) /\ Drawing(y)
      BY <2>3, <2>4 DEF Timed, Drawing
    <2> QED
      BY <2>1, <2>4, <2>5
  \* A call of the web process made it x, and what it sent is on its way.
  <1>WebStep.
    ASSUME Base, NEW x, Timed(x), Drawing(x), x.inUpdate = FALSE, WebBecomes(x),
           toWeb' \in Seq(Orders),
           InTouch => InStep(ui, x, Unhandled \o x.out, toWeb')
    PROVE  Kept
    <2> USE <1>WebStep
    <2>1. PICK y : y = [x EXCEPT !.out = << >>]
      OBVIOUS
    <2>2. /\ web' = y /\ wire' = wire \o x.out /\ slot' = slot /\ incoming' = incoming
          /\ ui' = ui /\ wait' = wait
      BY <2>1 DEF WebBecomes, uiVars
    <2>3. /\ Timed(y) /\ Drawing(y) /\ y.inUpdate = FALSE /\ y.out = << >>
          /\ x.out \in Seq(Reports)
          /\ y.stateID = x.stateID /\ y.shouldSend = x.shouldSend
          /\ y.waiting = x.waiting
      BY <2>1, <1>SentOff
    <2>4. /\ slot \in Seq(Reports) /\ incoming \in Seq(Reports) /\ wire \in Seq(Reports)
      BY DEF Base
    <2>5. wire \o x.out \in Seq(Reports)
      BY <2>3, <2>4, ConcatFacts
    <2>6. Base'
      BY <2>2, <2>3, <2>4, <2>5 DEF Base
    <2>7. InWait => InWait'
      BY <2>2 DEF InWait
    <2>8. PICK a \in Seq(Reports), b \in Seq(Reports), c \in Seq(Reports),
               o \in Seq(Reports) : a = slot /\ b = incoming /\ c = wire /\ o = x.out
      BY <2>3, <2>4
    <2>9. Unhandled' = Unhandled \o x.out
      <3>1. PICK e, q, r : e = c \o o /\ q = a \o b \o c /\ r = a \o b \o e
        OBVIOUS
      <3>2. Grown(q, o, r)
        BY <3>1, <1>QueueGrows
      <3> QED
        BY <2>2, <2>8, <3>1, <3>2 DEF Unhandled, Grown
    <2>10. InStep(ui, x, Unhandled \o x.out, toWeb') => InTouch'
      BY <2>2, <2>3, <2>9 DEF InStep, InTouch
    <2> QED
      BY <2>6, <2>7, <2>10 DEF Kept
  <1>ActsStep.
    ASSUME Base, NEW x, Acts(web, x), WebBecomes(x), toWeb' = toWeb
    PROVE  Kept
    <2> USE <1>ActsStep
    <2>1. /\ ui.current \in Nat /\ ui.next \in Nat /\ Timed(web) /\ web.out = << >>
          /\ toWeb \in Seq(Orders) /\ web.inUpdate = FALSE
      BY DEF Base, Viewed
    <2>2. Timed(x) /\ Drawing(x) /\ x.inUpdate = FALSE
      BY <2>1 DEF Acts
    <2>3. Unhandled \in Seq(Reports)
      <3>1. slot \o incoming \in Seq(Reports) /\ wire \in Seq(Reports)
        BY ConcatFacts DEF Base
      <3> QED
        BY <3>1, ConcatFacts DEF Unhandled
    <2>4. PICK q, r : q = Unhandled /\ r = q \o x.out
      OBVIOUS
    <2>5. ASSUME InTouch
          PROVE  InStep(ui, x, r, toWeb)
      <3>1. /\ Ordered(ui.current, web.stateID, web.shouldSend, q)
            /\ Asked(web.stateID, ui.next, toWeb)
            /\ Answered(ui.waiting, web.stateID, web.shouldSend, q, toWeb)
            /\ Acknowledged(web.waiting, web.stateID, q, toWeb)
        BY <2>4, <2>5 DEF InTouch, InStep
      <3>2. q \in Seq(Reports)
        BY <2>3, <2>4
      <3> QED
        BY <2>1, <2>4, <3>1, <3>2, <1>ActsKeeps
    <2> QED
      BY <2>1, <2>2, <2>4, <2>5, <1>WebStep
  <1>WebTimerFiredKeeps.
    ASSUME Base, WebTimerFired
    PROVE  Kept
    <2> USE <1>WebTimerFiredKeeps
    <2>1. Timed(web) /\ Drawing(web) /\ ~web.inUpdate /\ toWeb' = toWeb
      BY DEF Base, WebTimerFired
    <2>2. CASE web.displayTimer
               /\ \E t \in BOOLEAN : WebBecomes(DisplayTimerFired(web, t))
      <3>0. PICK t \in BOOLEAN : WebBecomes(DisplayTimerFired(web, t))
        BY <2>2
      <3>1. PICK x : x = DisplayTimerFired(web, t) /\ WebBecomes(x)
        BY <3>0
      <3>2. Acts(web, x)
        BY <2>1, <2>2, <3>1, <1>DisplayTimerFiredActs
      <3> QED
        BY <2>1, <3>1, <3>2, <1>ActsStep
    <2>3. CASE \E t \in BOOLEAN : WebBecomes(ExitAcceleratedCompositingMode(web, t))
      <3>0. PICK t \in BOOLEAN : WebBecomes(ExitAcceleratedCompositingMode(web, t))
        BY <2>3
      <3>1. PICK x : x = ExitAcceleratedCompositingMode(web, t) /\ WebBecomes(x)
        BY <3>0
      <3>2. Acts(web, x)
        BY <2>1, <3>1, <1>ExitActs
      <3> QED
        BY <2>1, <3>1, <3>2, <1>ActsStep
    <2>4. CASE \E f \in BOOLEAN : WebBecomes(LayerFlushTimerFired(web, f))
      <3>0. PICK f \in BOOLEAN : WebBecomes(LayerFlushTimerFired(web, f))
        BY <2>4
      <3>1. PICK x : x = LayerFlushTimerFired(web, f) /\ WebBecomes(x)
        BY <3>0
      <3>2. Acts(web, x)
        BY <2>1, <3>1, <1>LayerFlushTimerFiredActs
      <3> QED
        BY <2>1, <3>1, <3>2, <1>ActsStep
    <2> QED
      BY <2>2, <2>3, <2>4 DEF WebTimerFired
  <1>PageChangesKeeps.
    ASSUME Base, PageChanges
    PROVE  Kept
    <2> USE <1>PageChangesKeeps
    <2>1. /\ Timed(web) /\ Drawing(web) /\ web.inUpdate = FALSE /\ ~web.inUpdate
          /\ toWeb' = toWeb /\ (~web.frozen) \in BOOLEAN
      BY DEF Base, PageChanges
    <2>2. CASE \E a \in Areas \ {"none"} : WebBecomes(SetNeedsDisplay(web, a))
      <3>0. PICK a \in Areas : WebBecomes(SetNeedsDisplay(web, a))
        BY <2>2
      <3>1. PICK x : x = SetNeedsDisplay(web, a) /\ WebBecomes(x)
        BY <3>0
      <3>2. /\ Timed(x) /\ Quietly(web, x) /\ x.waiting = web.waiting
            /\ Drawing(web) => Drawing(x)
        BY <2>1, <3>1, <1>SetNeedsDisplayFacts
      <3>3. Acts(web, x)
        BY <2>1, <3>2, <1>QuietlyActs
      <3> QED
        BY <2>1, <3>1, <3>3, <1>ActsStep
    <2>3. CASE \E a \in BOOLEAN : WebBecomes(SetRootCompositingLayer(web, a))
      <3>0. PICK a \in BOOLEAN : WebBecomes(SetRootCompositingLayer(web, a))
        BY <2>3
      <3>1. PICK x : x = SetRootCompositingLayer(web, a) /\ WebBecomes(x)
        BY <3>0
      <3>2. Calmly(web, x)
        BY <2>1, <3>1, <1>SetRootCalm
      <3>3. Acts(web, x)
        BY <3>2, <1>QuietlyActs DEF Calmly
      <3> QED
        BY <2>1, <3>1, <3>3, <1>ActsStep
    <2>4. CASE WebBecomes(SetLayerTreeStateIsFrozen(web, ~web.frozen))
      <3>0. PICK f \in BOOLEAN : WebBecomes(SetLayerTreeStateIsFrozen(web, f))
        BY <2>1, <2>4
      <3>1. PICK x : x = SetLayerTreeStateIsFrozen(web, f) /\ WebBecomes(x)
        BY <3>0
      <3>2. Acts(web, x)
        BY <2>1, <3>1, <1>SetFrozenCalm
      <3> QED
        BY <2>1, <3>1, <3>2, <1>ActsStep
    <2>5. CASE \E l \in Layouts, t \in BOOLEAN : WebBecomes(ForceRepaint(web, l, t))
      <3>0. PICK l \in Layouts, t \in BOOLEAN : WebBecomes(ForceRepaint(web, l, t))
        BY <2>5
      <3>1. PICK x : x = ForceRepaint(web, l, t) /\ WebBecomes(x)
        BY <3>0
      <3>2. Acts(web, x)
        BY <2>1, <3>1, <1>ForceRepaintActs
      <3> QED
        BY <2>1, <3>1, <3>2, <1>ActsStep
    <2>6. \/ \E a \in Areas \ {"none"} : WebBecomes(SetNeedsDisplay(web, a))
          \/ \E a \in BOOLEAN : WebBecomes(SetRootCompositingLayer(web, a))
          \/ WebBecomes(SetLayerTreeStateIsFrozen(web, ~web.frozen))
          \/ \E l \in Layouts, t \in BOOLEAN : WebBecomes(ForceRepaint(web, l, t))
      BY DEF PageChanges
    <2> QED
      BY <2>2, <2>3, <2>4, <2>5, <2>6
  <1>OrderHead.
    ASSUME NEW tw \in Seq(Orders), tw # << >>
    PROVE  Head(tw) = tw[1] /\ tw[1] \in Orders /\ Tail(tw) \in Seq(Orders)
    BY <1>OrderHead, SMTT(30)
  <1>HandleMessageKeeps.
    ASSUME Base, HandleMessage
    PROVE  Kept
    <2> USE <1>HandleMessageKeeps
    <2>1. /\ ui.current \in Nat /\ ui.next \in Nat /\ Timed(web) /\ web.out = << >>
          /\ Drawing(web) /\ toWeb \in Seq(Orders) /\ web.inUpdate = FALSE
          /\ ~web.inUpdate
      BY DEF Base, Viewed
    <2>2. /\ toWeb # << >> /\ toWeb' = Tail(toWeb)
      BY DEF HandleMessage
    <2>3. Head(toWeb) = toWeb[1] /\ toWeb[1] \in Orders /\ toWeb' \in Seq(Orders)
      BY <2>1, <2>2, <1>OrderHead
    <2>4. PICK l \in Layouts, t \in BOOLEAN :
               WebBecomes(IF toWeb[1].type = "DidUpdate" THEN DidUpdate(web, t)
                          ELSE UpdateBackingStoreState(web, toWeb[1], l, t))
      BY <2>3 DEF HandleMessage
    <2>5. Unhandled \in Seq(Reports)
      <3>1. slot \o incoming \in Seq(Reports) /\ wire \in Seq(Reports)
        BY ConcatFacts DEF Base
      <3> QED
        BY <3>1, ConcatFacts DEF Unhandled
    <2>6. PICK q \in Seq(Reports), tw \in Seq(Orders) : q = Unhandled /\ tw = toWeb
      BY <2>1, <2>5
    <2>10. PICK d : d = Tail(tw)
      OBVIOUS
    <2>7. InTouch => InStep(ui, web, q, tw)
      BY <2>6 DEF InTouch
    <2>8. CASE ~IsAsk(tw[1])
      <3>1. toWeb[1].type = "DidUpdate"
        BY <2>3, <2>6, <2>8, OrderFacts
      <3>2. PICK x, r : x = DidUpdate(web, t) /\ WebBecomes(x) /\ r = q \o x.out
        BY <2>4, <3>1
      <3>3. /\ Acts(web, x)
            /\ x.waiting => \E m \in Reports : /\ x.out = Append(web.out, m)
                                               /\ m.type = "Update" /\ m.id = web.stateID
        BY <2>1, <3>2, <1>DidUpdateActs
      <3>4. Timed(x) /\ Drawing(x) /\ x.inUpdate = FALSE
        BY <2>1, <3>3 DEF Acts
      <3>5. InTouch => InStep(ui, x, r, d)
        BY <2>1, <2>2, <2>6, <2>10, <2>7, <2>8, <3>2, <3>3, <1>DidUpdateKeeps
      <3> QED
        BY <2>2, <2>3, <2>6, <2>10, <3>2, <3>4, <3>5, <1>WebStep
    <2>9. CASE IsAsk(tw[1])
      <3>1. /\ tw[1].id \in Nat /\ tw[1].size \in Nat /\ tw[1].respond \in BOOLEAN
            /\ toWeb[1].type # "DidUpdate"
        BY <2>3, <2>6, <2>9, OrderFacts
      <3>2. PICK x, r : /\ x = UpdateBackingStoreState(web, tw[1], l, t)
                        /\ WebBecomes(x) /\ r = q \o x.out
        BY <2>4, <2>6, <3>1
      <3>3. IF tw[1].id = web.stateID /\ ~web.shouldSend THEN x = web
            ELSE Enters(web, tw[1], x)
        BY <2>1, <3>1, <3>2, <1>UpdateStateFacts
      <3>4. CASE tw[1].id = web.stateID /\ ~web.shouldSend
        <4>1. x = web /\ r = q \o web.out
          BY <3>2, <3>3, <3>4
        <4>2. InTouch => InStep(ui, web, r, d)
          BY <2>1, <2>2, <2>6, <2>10, <2>7, <2>9, <3>4, <4>1, <1>IgnoredKeeps
        <4>3. Timed(x) /\ Drawing(x) /\ x.inUpdate = FALSE
          BY <2>1, <4>1
        <4>4. InTouch => InStep(ui, x, r, d)
          BY <4>1, <4>2
        <4> QED
          BY <2>2, <2>3, <2>6, <2>10, <3>2, <4>3, <4>4, <1>WebStep
      <3>5. CASE ~(tw[1].id = web.stateID /\ ~web.shouldSend)
        <4>1. Enters(web, tw[1], x)
          BY <3>3, <3>5
        <4>2. InTouch => InStep(ui, x, r, d)
          BY <2>1, <2>2, <2>6, <2>10, <2>7, <2>9, <3>2, <3>5, <4>1, <1>EntersKeeps
        <4>3. Timed(x) /\ Drawing(x) /\ x.inUpdate = FALSE
          BY <4>1 DEF Enters
        <4> QED
          BY <2>2, <2>3, <2>6, <2>10, <3>2, <4>2, <4>3, <1>WebStep
      <3> QED
        BY <3>4, <3>5
    <2> QED
      BY <2>8, <2>9
  <1> QED
    BY <1>HandleMessageKeeps, <1>WebTimerFiredKeeps, <1>PageChangesKeeps

-----------------------------------------------------------------------------
(* The invariant.                                                          *)

LEMMA NewTyped ==
  ASSUME NEW size \in Nat, NEW visible \in BOOLEAN, NEW relaunched \in BOOLEAN
  PROVE  /\ Viewed(NewDrawingAreaProxy(size, relaunched))
         /\ NewDrawingArea(size, visible) \in Webs
  <1>1. << >> \in Seq(Orders) /\ << >> \in Seq(Reports) /\ "none" \in Areas
    BY SMTT(30) DEF Areas
  <1> QED
    BY <1>1 DEF NewDrawingAreaProxy, NewDrawingArea, Viewed, Webs

Inv == Base /\ (~WaitRaces => InWait /\ InTouch)

LEMMA InitInv ==
  ASSUME Init
  PROVE  Inv
  <1>1. PICK size \in Sizes, visible \in BOOLEAN, relaunched \in BOOLEAN :
             /\ ui = NewDrawingAreaProxy(size, relaunched)
             /\ web = NewDrawingArea(size, visible)
    BY DEF Init
  <1>2. /\ wait = "no" /\ slot = << >> /\ incoming = << >> /\ wire = << >>
        /\ toWeb = << >>
    BY DEF Init
  <1>3. size \in Nat
    BY DrawingAreaAssumption
  <1>4. Viewed(ui) /\ web \in Webs
    BY <1>1, <1>3, NewTyped
  <1>5. /\ ui.current = 0 /\ ui.next = 0 /\ ui.waiting = FALSE /\ ui.out = << >>
    BY <1>1 DEF NewDrawingAreaProxy
  <1>6. /\ web.stateID = 0 /\ web.shouldSend = FALSE /\ web.inUpdate = FALSE
        /\ web.waiting = FALSE /\ web.wantsToExit = FALSE /\ web.exitTimer = FALSE
        /\ web.dirty = "none" /\ web.displayTimer = FALSE /\ web.host = FALSE
        /\ web.out = << >>
    BY <1>1 DEF NewDrawingArea
  <1>7. Timed(web) /\ Drawing(web)
    BY <1>4, <1>6 DEF Timed, Drawing
  <1>8. << >> \in Seq(Reports) /\ << >> \in Seq(Orders)
    BY SMTT(30)
  <1>9. Base
    BY <1>2, <1>4, <1>5, <1>6, <1>7, <1>8 DEF Base
  <1>10. InWait
    <2>1. wait \notin {"found nothing", "waiting"} /\ wait # "found nothing"
      BY <1>2
    <2> QED
      BY <1>2, <2>1 DEF InWait
  <1>11. Unhandled = << >>
    BY <1>2, SMTT(30) DEF Unhandled
  <1>12. Ordered(0, 0, FALSE, << >>) /\ Asked(0, 0, << >>)
    BY SMTT(30) DEF Ordered, Asked
  <1>13. InTouch
    BY <1>2, <1>5, <1>6, <1>11, <1>12 DEF InTouch, InStep, Answered, Acknowledged
  <1> QED
    BY <1>9, <1>10, <1>13 DEF Inv

LEMMA NextInv ==
  ASSUME Inv, [Next]_vars
  PROVE  Inv'
  <1>1. Base
    BY DEF Inv
  <1>2. ASSUME Next
        PROVE  Kept
    BY <1>1, <1>2, UIProcessKeeps, WebProcessKeeps DEF Next, UIStep
  <1>3. ASSUME UNCHANGED vars
        PROVE  Kept
    BY <1>1, <1>3
       DEF vars, uiVars, webVars, Kept, Base, InWait, InTouch, Unhandled
  <1>4. Kept
    BY <1>2, <1>3
  <1> QED
    BY <1>4 DEF Inv, Kept

LEMMA Invariant == Spec => []Inv
BY InitInv, NextInv, PTL DEF Spec

\* The web process's timers run when they have to and find it as display()
\* and exitAcceleratedCompositingMode() assert (DrawingAreaImpl.cpp:487, 492,
\* 564, 565), whatever the UI process does and however messages race.
THEOREM DisplayStaysScheduled == Spec => []DisplayIsScheduled
  <1>1. Inv => DisplayIsScheduled
    BY DEF Inv, Base, Timed, Drawing, DisplayIsScheduled
  <1> QED
    BY <1>1, Invariant, PTL

LEMMA DidOnTime ==
  ASSUME Base, InTouch, NEW m \in Range(Unhandled), IsDid(m)
  PROVE  ui.current < m.id /\ m.id <= ui.next
  <1>1. Unhandled \in Seq(Reports)
    <2>1. slot \o incoming \in Seq(Reports) /\ wire \in Seq(Reports)
      BY ConcatFacts DEF Base
    <2> QED
      BY <2>1, ConcatFacts DEF Unhandled
  <1>2. PICK q \in Seq(Reports) : q = Unhandled
    BY <1>1
  <1>3. PICK i \in 1 .. Len(q) : m = q[i]
    <2>1. Range(q) = {q[i] : i \in 1 .. Len(q)}
      BY ReportRange
    <2> QED
      BY <1>2, <2>1
  <1>4. ui.current < m.id /\ m.id <= web.stateID
    BY <1>2, <1>3 DEF InTouch, InStep, Ordered
  <1>5. web.stateID <= ui.next
    BY DEF InTouch, InStep, Asked
  <1>6. m.id \in Nat
    BY <1>3, ReportIDs
  <1>7. web.stateID \in Nat /\ ui.next \in Nat
    BY DEF Base, Viewed, Timed, Webs
  <1> QED
    BY <1>4, <1>5, <1>6, <1>7, SMTT(30)

LEMMA FirstOnTime ==
  ASSUME Base, InTouch, NEW m, m = Unhandled[1], Unhandled # << >>, ~IsDid(m)
  PROVE  m.id <= ui.current
  <1>1. Unhandled \in Seq(Reports)
    <2>1. slot \o incoming \in Seq(Reports) /\ wire \in Seq(Reports)
      BY ConcatFacts DEF Base
    <2> QED
      BY <2>1, ConcatFacts DEF Unhandled
  <1>2. PICK q \in Seq(Reports) : q = Unhandled
    BY <1>1
  <1>3. 1 \in 1 .. Len(q) /\ \A i \in 1 .. Len(q) : ~(i < 1)
    BY <1>2, SMTT(30)
  <1> QED
    BY <1>2, <1>3 DEF InTouch, InStep, Ordered

LEMMA QueueFacts ==
  ASSUME NEW a \in Seq(Reports), NEW b \in Seq(Reports), NEW c \in Seq(Reports),
         NEW q, Joined(a, b, c, q)
  PROVE  /\ \A i \in 1 .. Len(b) : b[i] \in Range(q)
         /\ a # << >> => a[1] \in Range(q)
         /\ a = << >> /\ b # << >> => q # << >> /\ q[1] = Head(b) /\ q[1] \in Range(q)
  <1>1. PICK k \in Nat, l \in Nat, n \in Nat : k = Len(a) /\ l = Len(b) /\ n = Len(c)
    BY DEF Joined
  <1>2. q \in Seq(Reports) /\ Len(q) = k + l + n
    BY <1>1 DEF Joined
  <1>3. \A i \in 1 .. Len(q) : q[i] \in Range(q)
    <2>1. Range(q) = {q[i] : i \in 1 .. Len(q)}
      BY <1>2, ReportRange
    <2> QED
      BY <2>1
  <1>4. ASSUME NEW i \in 1 .. l
        PROVE  b[i] \in Range(q)
    <2>1. k + i \in 1 .. k + l + n
      BY SMTT(30)
    <2>2. q[k + i] = b[i]
      BY <1>1 DEF Joined
    <2> QED
      BY <1>2, <1>3, <2>1, <2>2
  <1>5. ASSUME a # << >>
        PROVE  a[1] \in Range(q)
    <2>1. 1 \in 1 .. k /\ 1 \in 1 .. k + l + n
      BY <1>1, <1>5, SMTT(30)
    <2>2. q[1] = a[1]
      BY <1>1, <2>1 DEF Joined
    <2> QED
      BY <1>2, <1>3, <2>1, <2>2
  <1>6. ASSUME a = << >>, b # << >>
        PROVE  q # << >> /\ q[1] = Head(b) /\ q[1] \in Range(q)
    <2>1. k = 0 /\ 1 \in 1 .. l /\ 1 \in 1 .. k + l + n /\ k + 1 = 1 /\ Head(b) = b[1]
      BY <1>1, <1>6, SMTT(30)
    <2>2. q[k + 1] = b[1]
      BY <1>1, <2>1 DEF Joined
    <2>3. q # << >>
      BY <1>2, <2>1, SMTT(30)
    <2> QED
      BY <1>2, <1>3, <2>1, <2>2, <2>3
  <1> QED
    BY <1>1, <1>4, <1>5, <1>6

\* Due as one of its three cases.
LEMMA DueCases ==
  ASSUME NEW m \in Due
  PROVE  \/ wait = "no" /\ incoming # << >> /\ m = Head(incoming)
         \/ wait = "look" /\ FirstDid # 0 /\ m = incoming[FirstDid]
         \/ wait = "waiting" /\ slot # << >> /\ m = slot[1]
  <1>1. CASE Idle /\ incoming # << >>
    BY <1>1 DEF Due, Idle
  <1>2. CASE wait = "look" /\ FirstDid # 0
    <2>1. ~Idle /\ ~(wait = "waiting")
      BY <1>2 DEF Idle
    <2>2. Due = {incoming[FirstDid]}
      BY <1>2, <2>1 DEF Due
    <2> QED
      BY <1>2, <2>2
  <1>3. CASE wait = "waiting" /\ slot # << >>
    <2>1. ~Idle /\ ~(wait = "look")
      BY <1>3 DEF Idle
    <2>2. Due = {slot[1]}
      BY <1>3, <2>1 DEF Due
    <2> QED
      BY <1>3, <2>2
  <1>4. CASE /\ ~(Idle /\ incoming # << >>) /\ ~(wait = "look" /\ FirstDid # 0)
             /\ ~(wait = "waiting" /\ slot # << >>)
    <2>1. Due = {}
      BY <1>4 DEF Due
    <2> QED
      BY <2>1
  <1> QED
    BY <1>1, <1>2, <1>3, <1>4

LEMMA DueOnTime ==
  ASSUME Base, InWait, InTouch
  PROVE  HandledInItsState
  <1>1. PICK a \in Seq(Reports), b \in Seq(Reports), c \in Seq(Reports) :
             a = slot /\ b = incoming /\ c = wire
    BY DEF Base
  <1>2. PICK q : q = Unhandled
    OBVIOUS
  <1>3. q = a \o b \o c
    BY <1>1, <1>2 DEF Unhandled
  <1>4. Joined(a, b, c, q)
    BY <1>3, Queued
  <1>5. /\ \A i \in 1 .. Len(b) : b[i] \in Range(q)
        /\ a # << >> => a[1] \in Range(q)
        /\ a = << >> /\ b # << >> => q # << >> /\ q[1] = Head(b) /\ q[1] \in Range(q)
    BY <1>4, QueueFacts
  <1>6. ASSUME NEW m \in Range(q), IsDid(m)
        PROVE  ui.current < m.id /\ m.id <= ui.next
    BY <1>2, <1>6, DidOnTime
  <1>7. ASSUME NEW m \in Due
        PROVE  IF IsDid(m) THEN ui.current < m.id /\ m.id <= ui.next
               ELSE m.id <= ui.current
    <2>1. CASE wait = "no" /\ incoming # << >> /\ m = Head(incoming)
      <3>1. slot = << >>
        BY <2>1, NoSlot
      <3>2. q # << >> /\ m = q[1] /\ m \in Range(q)
        BY <1>1, <1>5, <2>1, <3>1
      <3>3. ~IsDid(m) => m.id <= ui.current
        BY <1>2, <3>2, FirstOnTime
      <3> QED
        BY <1>6, <3>2, <3>3
    <2>2. CASE wait = "look" /\ FirstDid # 0 /\ m = incoming[FirstDid]
      <3>1. PICK k : k = FirstDid
        OBVIOUS
      <3>2. incoming \in Seq(Reports)
        BY DEF Base
      <3>3. k \in 1 .. Len(incoming) /\ IsDid(incoming[k])
        BY <2>2, <3>1, <3>2, FirstDidFacts
      <3>4. m \in Range(q) /\ IsDid(m)
        BY <1>1, <1>5, <2>2, <3>1, <3>3
      <3> QED
        BY <1>6, <3>4
    <2>3. CASE wait = "waiting" /\ slot # << >> /\ m = slot[1]
      <3>1. PICK o \in Reports : slot = <<o>> /\ IsDid(o)
        BY <2>3 DEF InWait
      <3>2. m = o
        BY <2>3, <3>1
      <3>3. m \in Range(q) /\ IsDid(m)
        BY <1>1, <1>5, <2>3, <3>1, <3>2
      <3> QED
        BY <1>6, <3>3
    <2> QED
      BY <2>1, <2>2, <2>3, DueCases
  <1> QED
    BY <1>7 DEF HandledInItsState

\* Unless a message slips past waitForMessage, between its look at the queue
\* and its wait, the state numbers are as DrawingAreaProxyImpl asserts them to
\* be when a message is handled (DrawingAreaProxyImpl.cpp:133, 145, 146, 184,
\* 193), however many states, sizes and messages there are and however the
\* answers overtake the updates.
THEOREM HandlingIsInOrder ==
  ASSUME ~WaitRaces
  PROVE  Spec => []HandledInItsState
  <1>1. Inv => HandledInItsState
    BY DueOnTime DEF Inv
  <1> QED
    BY <1>1, Invariant, PTL

LEMMA RangeIndex ==
  ASSUME NEW S, NEW q \in Seq(S), NEW m \in Range(q)
  PROVE  \E i \in DOMAIN q : q[i] = m
BY DEF Range

LEMMA WaitsAreAnswered ==
  ASSUME Base, InTouch
  PROVE  NobodyWaitsInVain
  <1>1. Unhandled \in Seq(Reports) /\ toWeb \in Seq(Orders)
    <2>1. slot \o incoming \in Seq(Reports) /\ wire \in Seq(Reports)
      BY ConcatFacts DEF Base
    <2> QED
      BY <2>1, ConcatFacts DEF Unhandled, Base
  <1>2. \A m \in Range(Unhandled) : \E i \in DOMAIN Unhandled : Unhandled[i] = m
    BY <1>1, RangeIndex
  <1>3. \A m \in Range(toWeb) : \E i \in DOMAIN toWeb : toWeb[i] = m
    BY <1>1, RangeIndex
  <1>4. Range(toWeb) \subseteq Orders
    BY <1>1, RangeFacts
  <1>5. web.stateID \in Nat
    BY DEF Base, Timed, Webs
  <1>6. ASSUME ui.waiting, NEW m \in Range(Unhandled), IsDid(m)
        PROVE  \E i \in DOMAIN Unhandled :
                 IsDid(Unhandled[i]) /\ ui.current < Unhandled[i].id
    <2>1. ui.current < m.id
      BY <1>6, DidOnTime
    <2> QED
      BY <1>2, <1>6, <2>1
  <1>7. ASSUME NEW m \in Range(toWeb), IsAsk(m), m.respond,
               web.stateID < m.id \/ web.shouldSend
        PROVE  \E i \in DOMAIN toWeb :
                 /\ toWeb[i].type = "UpdateBackingStoreState" /\ toWeb[i].respond
                 /\ toWeb[i].id > web.stateID \/ web.shouldSend
    <2>1. m.id \in Nat
      BY <1>4, <1>7, OrderFacts
    <2>2. m.id > web.stateID \/ web.shouldSend
      <3>1. web.stateID < m.id => m.id > web.stateID
        BY <1>5, <2>1
      <3> QED
        BY <1>7, <3>1
    <2> QED
      BY <1>3, <1>7, <2>2 DEF IsAsk
  <1>8. ASSUME NEW m \in Range(toWeb), IsAsk(m) => web.stateID < m.id
        PROVE  \E i \in DOMAIN toWeb :
                 toWeb[i].type = "DidUpdate" \/ toWeb[i].id > web.stateID
    <2>1. m.type = "DidUpdate" \/ m.id > web.stateID
      <3>1. CASE IsAsk(m)
        <4>1. m.id \in Nat
          BY <1>4, <3>1, OrderFacts
        <4> QED
          BY <1>5, <1>8, <3>1, <4>1
      <3>2. CASE ~IsAsk(m)
        BY <1>4, <3>2, OrderFacts
      <3> QED
        BY <3>1, <3>2
    <2> QED
      BY <1>3, <2>1
  <1>9. /\ Answered(ui.waiting, web.stateID, web.shouldSend, Unhandled, toWeb)
        /\ Acknowledged(web.waiting, web.stateID, Unhandled, toWeb)
    BY DEF InTouch, InStep
  <1>10. ui.waiting =>
          \/ \E i \in DOMAIN Unhandled :
               IsDid(Unhandled[i]) /\ ui.current < Unhandled[i].id
          \/ \E i \in DOMAIN toWeb :
               /\ toWeb[i].type = "UpdateBackingStoreState" /\ toWeb[i].respond
               /\ toWeb[i].id > web.stateID \/ web.shouldSend
    BY <1>6, <1>7, <1>9 DEF Answered
  <1>11. web.waiting =>
          \/ \E i \in DOMAIN Unhandled :
               Unhandled[i].type = "Update" /\ Unhandled[i].id = web.stateID
          \/ \E i \in DOMAIN toWeb :
               toWeb[i].type = "DidUpdate" \/ toWeb[i].id > web.stateID
    BY <1>2, <1>8, <1>9 DEF Acknowledged
  <1> QED
    BY <1>10, <1>11 DEF NobodyWaitsInVain

\* Unless a message slips past waitForMessage, neither process waits for the
\* other in vain (m_isWaitingForDidUpdateBackingStoreState of the UI process,
\* m_isWaitingForDidUpdate of the web process), however often the size changes
\* or the store is discarded while messages are on their way.
THEOREM NoWaitIsInVain ==
  ASSUME ~WaitRaces
  PROVE  Spec => []NobodyWaitsInVain
  <1>1. Inv => NobodyWaitsInVain
    BY WaitsAreAnswered DEF Inv
  <1> QED
    BY <1>1, Invariant, PTL
=============================================================================
