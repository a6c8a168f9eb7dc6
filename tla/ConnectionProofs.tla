-------------------------- MODULE ConnectionProofs --------------------------
(***************************************************************************)
(* No wake-up of a synchronous send is lost.                               *)
(*                                                                         *)
(* Waits nest, and they share one semaphore: a signal may be taken by      *)
(* another wait than the one it is for.  The invariant says what makes     *)
(* this harmless.  Only the innermost call can sleep, and its request is   *)
(* the newest of its end; all outer waits will check their conditions      *)
(* before they sleep.  And once a message is queued during a wait, the     *)
(* semaphore is signalled or the innermost wait is about to dispatch.      *)
(***************************************************************************)
EXTENDS Connection, TLAPS

\* The prover of a step that names none.
USE ZenonT(60)

IsSequence(s) == s \in Seq({s[i] : i \in DOMAIN s})

\* The calls of a stack that wait.
Waits(s) == {i \in 1 .. Len(s) : IsWait(s[i])}

\* The stack s of run loop l, when the ends have sent the number of messages given.
Stacked(l, s, number) ==
    /\ IsSequence(s)
    /\ \A i \in Waits(s) : /\ s[i].end \in Ends /\ LoopOf[s[i].end] = l
                           /\ s[i].n \in Nat /\ s[i].n <= number[s[i].end]
    /\ \A i, j \in Waits(s) : i < j /\ s[i].end = s[j].end => s[i].n < s[j].n
    /\ \A i \in Waits(s) : i < Len(s) => s[i].at = "check"
    /\ \A i \in 2 .. Len(s) : s[i].at = "batch" => s[i].back = <<>>

\* A message that is queued during a wait will be noticed.
Noticed(l) ==
    Waits(stack[l]) # {} /\ toDispatch[l] # <<>> => semaphore[l] \/ Top(l, "dispatch")

\* Nothing has ended the wait of a run loop that sleeps unsignalled.
Asleep(l) == Top(l, "sleep") /\ ~semaphore[l] => ~WaitIsOver(Last(stack[l]))

LoopInv(l) == Stacked(l, stack[l], sent) /\ Noticed(l) /\ Asleep(l)

TaskKinds == {"one", "marked", "didClose"}
TasksOf(l) == Seq([what : TaskKinds, end : EndsOf(l)])

Types ==
    /\ DOMAIN replied = Ends /\ client \in [Ends -> BOOLEAN] /\ DOMAIN shouldWait = Ends
    /\ sent \in [Ends -> Nat]
    /\ DOMAIN stack = Loops /\ DOMAIN toDispatch = Loops /\ DOMAIN tasks = Loops
    /\ semaphore \in [Loops -> BOOLEAN]

\* The inductive invariant.
IInv == Types /\ \A l \in Loops : tasks[l] \in TasksOf(l) /\ LoopInv(l)
-----------------------------------------------------------------------------
(* Stacks.                                                                 *)

LEMMA SequenceFacts ==
  ASSUME NEW s, IsSequence(s)
  PROVE  /\ Len(s) \in Nat /\ DOMAIN s = 1 .. Len(s)
         /\ s # <<>> <=> Len(s) # 0
  BY SMTT(30) DEF IsSequence

LEMMA AppendFacts ==
  ASSUME NEW s, IsSequence(s), NEW f
  PROVE  /\ IsSequence(Append(s, f)) /\ Append(s, f) # <<>>
         /\ Len(Append(s, f)) = Len(s) + 1
         /\ \A i \in 1 .. Len(s) : Append(s, f)[i] = s[i]
         /\ Append(s, f)[Len(s) + 1] = f
         /\ Last(Append(s, f)) = f
         /\ s \o <<>> = s /\ s \o <<f>> = Append(s, f)
  <1> DEFINE M == {s[i] : i \in DOMAIN s} \cup {f}
             r == Append(s, f)
  <1>1. s \in Seq(M)
    BY SMTT(30) DEF IsSequence
  <1>2. f \in M
    OBVIOUS
  <1> HIDE DEF M
  <1>3. /\ r \in Seq(M) /\ r # <<>> /\ Len(r) = Len(s) + 1
        /\ \A i \in 1 .. Len(s) : r[i] = s[i]
        /\ r[Len(s) + 1] = f
    BY <1>1, <1>2, SMTT(30)
  <1>4. s \o <<>> = s /\ s \o <<f>> = r
    BY <1>1, <1>2, SMTT(30)
  <1> HIDE DEF r
  <1>5. IsSequence(r)
    BY <1>3, SMTT(30) DEF IsSequence
  <1> QED
    BY <1>3, <1>4, <1>5 DEF r, Last

LEMMA FrontFacts ==
  ASSUME NEW s, IsSequence(s), s # <<>>
  PROVE  /\ IsSequence(Front(s)) /\ Len(Front(s)) = Len(s) - 1
         /\ \A i \in 1 .. Len(s) - 1 : Front(s)[i] = s[i]
         /\ Last(s) = s[Len(s)] /\ Len(s) \in Nat \ {0}
  <1> DEFINE M == {s[i] : i \in DOMAIN s}
             r == Front(s)
  <1>1. s \in Seq(M) /\ Len(s) \in Nat \ {0}
    BY SMTT(30) DEF IsSequence
  <1> HIDE DEF M
  <1>2. ASSUME NEW n \in 0 .. Len(s)
        PROVE  /\ SubSeq(s, 1, n) \in Seq(M) /\ Len(SubSeq(s, 1, n)) = n
               /\ \A i \in 1 .. n : SubSeq(s, 1, n)[i] = s[i]
    BY <1>1, SMTT(30)
  <1>3. Len(s) - 1 \in 0 .. Len(s)
    BY <1>1, SMTT(30)
  <1>4. /\ r \in Seq(M) /\ Len(r) = Len(s) - 1
        /\ \A i \in 1 .. Len(s) - 1 : r[i] = s[i]
    BY <1>2, <1>3 DEF Front
  <1> HIDE DEF r
  <1>5. IsSequence(r)
    BY <1>4, SMTT(30) DEF IsSequence
  <1> QED
    BY <1>1, <1>4, <1>5 DEF r, Last

\* An empty stack.
LEMMA StackedEmpty ==
  ASSUME NEW l, NEW number
  PROVE  Stacked(l, <<>>, number) /\ Waits(<<>>) = {}
  BY SMTT(30) DEF Stacked, Waits, IsSequence

\* A call returns.
LEMMA StackedPop ==
  ASSUME NEW l, NEW s, NEW number, Stacked(l, s, number), s # <<>>
  PROVE  /\ Stacked(l, Front(s), number)
         /\ Waits(Front(s)) \subseteq Waits(s)
         /\ Front(s) # <<>> => Last(Front(s)).at \notin {"dispatch", "sleep"}
  <1> DEFINE r == Front(s)
  <1>1. /\ IsSequence(r) /\ Len(r) = Len(s) - 1 /\ Len(s) \in Nat \ {0}
        /\ \A i \in 1 .. Len(s) - 1 : r[i] = s[i]
    BY FrontFacts DEF Stacked
  <1>2. \A i \in Waits(r) : i \in Waits(s) /\ i < Len(s) /\ i \in Nat /\ r[i] = s[i]
    BY <1>1, SMTT(30) DEF Waits
  <1>3. \A i \in 2 .. Len(r) : i \in 2 .. Len(s) /\ r[i] = s[i]
    BY <1>1, SMTT(30)
  <1>4. Stacked(l, r, number)
    BY <1>1, <1>2, <1>3 DEF Stacked
  <1>5. ASSUME r # <<>>, Last(r).at \in {"dispatch", "sleep"} PROVE FALSE
    <2>1. Len(r) \in 1 .. Len(r) /\ Last(r) = r[Len(r)]
      BY <1>1, <1>5, SequenceFacts, SMTT(30) DEF Last
    <2>2. Len(r) \in Waits(r)
      BY <1>5, <2>1 DEF Waits, IsWait, WaitStates
    <2> QED
      BY <1>2, <1>5, <2>1, <2>2 DEF Stacked
  <1> QED
    BY <1>2, <1>4, <1>5

\* A call is made of another function than waitForSyncReply.
LEMMA StackedPush ==
  ASSUME NEW l, NEW s, NEW number, Stacked(l, s, number), NEW f,
         s # <<>> => Last(s).at \notin {"dispatch", "sleep"},
         ~IsWait(f), f.at = "batch" /\ s # <<>> => f.back = <<>>
  PROVE  /\ Stacked(l, Append(s, f), number)
         /\ Waits(Append(s, f)) = Waits(s)
         /\ Append(s, f) # <<>> /\ Last(Append(s, f)) = f
  <1> DEFINE r == Append(s, f)
  <1>1. /\ IsSequence(r) /\ Len(r) = Len(s) + 1 /\ Len(s) \in Nat /\ r # <<>> /\ Last(r) = f
        /\ \A i \in 1 .. Len(s) : r[i] = s[i]
        /\ r[Len(s) + 1] = f
        /\ s # <<>> <=> Len(s) # 0
    BY AppendFacts, SequenceFacts, SMTT(30) DEF Stacked
  <1> HIDE DEF r
  <1>2. Waits(r) = Waits(s)
    BY <1>1, SMTT(30) DEF Waits
  <1>3. \A i \in Waits(r) : r[i] = s[i] /\ i \in 1 .. Len(s)
    BY <1>1, <1>2 DEF Waits
  <1>4. ASSUME NEW i \in Waits(r) PROVE r[i].at = "check"
    <2>1. CASE i < Len(s)
      BY <1>2, <1>3, <2>1 DEF Stacked
    <2>2. CASE i = Len(s)
      <3>1. s # <<>> /\ Last(s) = s[i]
        BY <1>1, <1>3, <2>2, SMTT(30) DEF Last
      <3>2. IsWait(s[i])
        BY <1>2 DEF Waits
      <3> QED
        BY <1>3, <3>1, <3>2 DEF IsWait, WaitStates
    <2> QED
      BY <1>1, <1>3, <2>1, <2>2, SMTT(30)
  <1>5. ASSUME NEW i \in 2 .. Len(r), r[i].at = "batch" PROVE r[i].back = <<>>
    <2>1. CASE i \in 2 .. Len(s)
      BY <1>1, <1>5, <2>1, SMTT(30) DEF Stacked
    <2>2. CASE i = Len(s) + 1
      BY <1>1, <1>5, <2>2, SMTT(30)
    <2> QED
      BY <1>1, <2>1, <2>2, SMTT(30)
  <1>6. \A i \in Waits(r) : /\ r[i].end \in Ends /\ LoopOf[r[i].end] = l
                            /\ r[i].n \in Nat /\ r[i].n <= number[r[i].end]
    BY <1>2, <1>3 DEF Stacked
  <1>7. \A i, j \in Waits(r) : i < j /\ r[i].end = r[j].end => r[i].n < r[j].n
    BY <1>2, <1>3 DEF Stacked
  <1>8. Stacked(l, r, number)
    BY <1>1, <1>4, <1>5, <1>6, <1>7 DEF Stacked
  <1> QED
    BY <1>1, <1>2, <1>8 DEF r

\* A wait begins, or goes on to its next step.
LEMMA StackedWait ==
  ASSUME NEW l, NEW s, NEW number, Stacked(l, s, number), NEW f,
         s # <<>> => Last(s).at \notin {"dispatch", "sleep"},
         IsWait(f), f.end \in Ends, LoopOf[f.end] = l,
         f.n \in Nat, f.n <= number[f.end],
         \A i \in Waits(s) : s[i].end = f.end => s[i].n < f.n
  PROVE  /\ Stacked(l, Append(s, f), number)
         /\ Append(s, f) # <<>> /\ Last(Append(s, f)) = f
  <1> DEFINE r == Append(s, f)
  <1>1. /\ IsSequence(r) /\ Len(r) = Len(s) + 1 /\ Len(s) \in Nat /\ r # <<>> /\ Last(r) = f
        /\ \A i \in 1 .. Len(s) : r[i] = s[i]
        /\ r[Len(s) + 1] = f
        /\ s # <<>> <=> Len(s) # 0
    BY AppendFacts, SequenceFacts, SMTT(30) DEF Stacked
  <1> HIDE DEF r
  <1>2. \A i \in Waits(r) : \/ i \in Waits(s) /\ i \in 1 .. Len(s) /\ r[i] = s[i]
                            \/ i = Len(s) + 1 /\ r[i] = f
    BY <1>1, SMTT(30) DEF Waits
  <1>3. ASSUME NEW i \in Waits(r), i < Len(r) PROVE r[i].at = "check"
    <2>1. i \in Waits(s) /\ i \in 1 .. Len(s) /\ r[i] = s[i]
      BY <1>1, <1>2, <1>3, SMTT(30)
    <2>2. CASE i < Len(s)
      BY <2>1, <2>2 DEF Stacked
    <2>3. CASE i = Len(s)
      <3>1. s # <<>> /\ Last(s) = s[i]
        BY <1>1, <2>1, <2>3, SMTT(30) DEF Last
      <3>2. IsWait(s[i])
        BY <2>1 DEF Waits
      <3> QED
        BY <2>1, <3>1, <3>2 DEF IsWait, WaitStates
    <2> QED
      BY <1>1, <2>1, <2>2, <2>3, SMTT(30)
  <1>4. \A i \in 2 .. Len(r) : r[i].at = "batch" => r[i].back = <<>>
    <2>1. f.at # "batch"
      BY DEF IsWait, WaitStates
    <2>2. \A i \in 2 .. Len(r) : (i \in 2 .. Len(s) /\ r[i] = s[i]) \/ r[i] = f
      BY <1>1, SMTT(30)
    <2> QED
      BY <2>1, <2>2 DEF Stacked
  <1>5. \A i \in Waits(r) : /\ r[i].end \in Ends /\ LoopOf[r[i].end] = l
                            /\ r[i].n \in Nat /\ r[i].n <= number[r[i].end]
    BY <1>2 DEF Stacked
  <1>6. ASSUME NEW i \in Waits(r), NEW j \in Waits(r), i < j, r[i].end = r[j].end
        PROVE  r[i].n < r[j].n
    <2>1. i \in Waits(s) /\ r[i] = s[i]
      BY <1>1, <1>2, <1>6, SMTT(30)
    <2>2. CASE j \in Waits(s) /\ r[j] = s[j]
      BY <1>6, <2>1, <2>2 DEF Stacked
    <2>3. CASE r[j] = f
      BY <1>6, <2>1, <2>3
    <2> QED
      BY <1>2, <2>2, <2>3
  <1>7. Stacked(l, r, number)
    BY <1>1, <1>3, <1>4, <1>5, <1>6 DEF Stacked
  <1> QED
    BY <1>1, <1>7 DEF r

\* A batch of messages is begun or gone on with.
LEMMA StackedBatch ==
  ASSUME NEW l, NEW s, NEW number, Stacked(l, s, number),
         s # <<>> => Last(s).at \notin {"dispatch", "sleep"},
         NEW rest, NEW back, s # <<>> => back = <<>>
  PROVE  /\ Stacked(l, s \o Batches(rest, back), number)
         /\ Waits(s \o Batches(rest, back)) = Waits(s)
         /\ LET r == s \o Batches(rest, back)
            IN  r # <<>> => Last(r).at \notin {"dispatch", "sleep"}
  <1> DEFINE b == Batch(rest, back)
  <1>1. s \o <<>> = s /\ s \o <<b>> = Append(s, b)
    BY AppendFacts DEF Stacked
  <1>2. CASE Batches(rest, back) = <<>>
    BY <1>1, <1>2
  <1>3. CASE Batches(rest, back) = <<b>>
    <2>1. b.at = "batch" /\ b.back = back /\ ~IsWait(b)
      BY DEF Batch, IsWait, WaitStates
    <2> HIDE DEF b
    <2>2. /\ Stacked(l, Append(s, b), number) /\ Waits(Append(s, b)) = Waits(s)
          /\ Append(s, b) # <<>> /\ Last(Append(s, b)) = b
      BY <2>1, StackedPush
    <2> QED
      BY <1>1, <1>3, <2>1, <2>2
  <1> QED
    BY <1>2, <1>3 DEF Batches

\* The innermost call waits: its request is the newest of its end.
LEMMA WaitFacts ==
  ASSUME NEW l, NEW s, NEW number, Stacked(l, s, number), s # <<>>, IsWait(Last(s))
  PROVE  /\ Len(s) \in Waits(s)
         /\ Last(s).end \in Ends /\ LoopOf[Last(s).end] = l
         /\ Last(s).n \in Nat /\ Last(s).n <= number[Last(s).end]
         /\ \A i \in Waits(Front(s)) : Front(s)[i].end = Last(s).end => Front(s)[i].n < Last(s).n
         /\ \A i \in Waits(s) :
               s[i].end = Last(s).end => s[i].n \in Nat /\ s[i].n <= Last(s).n
  <1>1. /\ Len(Front(s)) = Len(s) - 1 /\ Last(s) = s[Len(s)] /\ Len(s) \in Nat \ {0}
        /\ \A i \in 1 .. Len(s) - 1 : Front(s)[i] = s[i]
    BY FrontFacts DEF Stacked
  <1>2. Len(s) \in Waits(s)
    BY <1>1, SMTT(30) DEF Waits
  <1>3. \A i \in Waits(Front(s)) : i \in Waits(s) /\ i < Len(s) /\ Front(s)[i] = s[i]
    BY <1>1, SMTT(30) DEF Waits
  <1>4. \A i \in Waits(s) : i = Len(s) \/ i < Len(s)
    BY <1>1, SMTT(30) DEF Waits
  <1>5. /\ Last(s).end \in Ends /\ LoopOf[Last(s).end] = l
        /\ Last(s).n \in Nat /\ Last(s).n <= number[Last(s).end]
    BY <1>1, <1>2 DEF Stacked
  <1>6. ASSUME NEW i \in Waits(s), s[i].end = Last(s).end
        PROVE  s[i].n \in Nat /\ s[i].n <= Last(s).n
    <2>1. CASE i = Len(s)
      BY <1>1, <1>5, <2>1, SMTT(30)
    <2>2. CASE i < Len(s)
      BY <1>1, <1>2, <1>5, <1>6, <2>2, SMTT(30) DEF Stacked
    <2> QED
      BY <1>4, <2>1, <2>2
  <1>7. \A i \in Waits(Front(s)) : Front(s)[i].end = Last(s).end => Front(s)[i].n < Last(s).n
    BY <1>1, <1>2, <1>3 DEF Stacked
  <1> QED
    BY <1>2, <1>5, <1>6, <1>7

\* The innermost wait goes on to its next step.
LEMMA StackedBecome ==
  ASSUME NEW l, NEW s, NEW number, Stacked(l, s, number), s # <<>>, IsWait(Last(s)),
         NEW at \in WaitStates
  PROVE  LET f == Wait(at, Last(s).end, Last(s).n)
         IN  /\ Stacked(l, Append(Front(s), f), number)
             /\ Append(Front(s), f) # <<>> /\ Last(Append(Front(s), f)) = f
  <1> DEFINE f == Wait(at, Last(s).end, Last(s).n)
  <1>1. IsWait(f) /\ f.end = Last(s).end /\ f.n = Last(s).n
    BY DEF Wait, IsWait
  <1> HIDE DEF f
  <1>2. /\ Stacked(l, Front(s), number)
        /\ Front(s) # <<>> => Last(Front(s)).at \notin {"dispatch", "sleep"}
    BY StackedPop
  <1>3. /\ Last(s).end \in Ends /\ LoopOf[Last(s).end] = l
        /\ Last(s).n \in Nat /\ Last(s).n <= number[Last(s).end]
        /\ \A i \in Waits(Front(s)) : Front(s)[i].end = Last(s).end => Front(s)[i].n < Last(s).n
    BY WaitFacts
  <1>4. /\ Stacked(l, Append(Front(s), f), number)
        /\ Append(Front(s), f) # <<>> /\ Last(Append(Front(s), f)) = f
    BY <1>1, <1>2, <1>3, StackedWait, SMTT(30)
  <1> QED
    BY <1>4 DEF f

\* Sending more messages leaves a stack in order.
LEMMA StackedLater ==
  ASSUME NEW l, NEW s, NEW number, NEW later, Stacked(l, s, number),
         \A e \in Ends : number[e] \in Nat /\ later[e] \in Nat /\ number[e] <= later[e]
  PROVE  Stacked(l, s, later)
  <1>1. \A i \in Waits(s) : s[i].n <= later[s[i].end]
    BY SMTT(30) DEF Stacked
  <1> QED
    BY <1>1 DEF Stacked
-----------------------------------------------------------------------------
(* Steps.                                                                  *)

\* A step that leaves alone all that run loop l depends on.
Apart(l) ==
    /\ stack'[l] = stack[l] /\ toDispatch'[l] = toDispatch[l] /\ semaphore'[l] = semaphore[l]
    /\ \A e \in EndsOf(l) : /\ replied'[e] = replied[e] /\ client'[e] = client[e]
                            /\ shouldWait'[e] = shouldWait[e]

LEMMA Untouched ==
  ASSUME Types, Types', \A e \in Ends : sent[e] <= sent'[e],
         NEW l \in Loops, LoopInv(l), Apart(l)
  PROVE  LoopInv(l)'
  <1>1. \A e \in Ends : sent[e] \in Nat /\ sent'[e] \in Nat /\ sent[e] <= sent'[e]
    BY DEF Types
  <1>2. Stacked(l, stack[l], sent')
    BY <1>1, StackedLater DEF LoopInv
  <1>3. Noticed(l)'
    BY DEF LoopInv, Noticed, Top, Apart
  <1>4. ASSUME Top(l, "sleep")', ~semaphore'[l] PROVE ~WaitIsOver(Last(stack[l]))'
    <2>1. Top(l, "sleep") /\ ~WaitIsOver(Last(stack[l]))
      BY <1>4 DEF LoopInv, Asleep, Top, Apart
    <2>2. IsWait(Last(stack[l])) /\ stack[l] # <<>>
      BY <2>1 DEF Top, IsWait, WaitStates
    <2>3. Last(stack[l]).end \in EndsOf(l)
      BY <2>2, WaitFacts DEF LoopInv, EndsOf
    <2> QED
      BY <2>1, <2>3 DEF Apart, WaitIsOver
  <1>5. Asleep(l)'
    BY <1>4 DEF Asleep
  <1> QED
    BY <1>2, <1>3, <1>5 DEF LoopInv, Apart

\* A step that concerns run loop l.
LEMMA OneLoop ==
  ASSUME IInv, Types', \A e \in Ends : sent[e] <= sent'[e],
         NEW l \in Loops, tasks'[l] \in TasksOf(l), LoopInv(l)',
         \A k \in Loops \ {l} : tasks'[k] = tasks[k] /\ Apart(k)
  PROVE  IInv'
  <1>1. ASSUME NEW k \in Loops, k # l
        PROVE  tasks'[k] \in TasksOf(k) /\ LoopInv(k)'
    BY <1>1, Untouched DEF IInv
  <1> QED
    BY <1>1 DEF IInv

\* What makes LoopInv true after a step that leaves no wait on top about to dispatch or
\* asleep.
LEMMA Calm ==
  ASSUME NEW l \in Loops, Stacked(l, stack'[l], sent'),
         stack'[l] # <<>> => Last(stack'[l]).at \notin {"dispatch", "sleep"},
         Waits(stack'[l]) # {} /\ toDispatch'[l] # <<>> => semaphore'[l]
  PROVE  LoopInv(l)'
  BY DEF LoopInv, Noticed, Asleep, Top

-----------------------------------------------------------------------------
(* The connection queue of an end.                                         *)

LEMMA InSeq ==
  ASSUME NEW S, NEW q \in Seq(S), NEW x \in S
  PROVE  Append(q, x) \in Seq(S) /\ (q # <<>> => Head(q) \in S /\ Tail(q) \in Seq(S))
  BY SMTT(30)

LEMMA Dispatched ==
  ASSUME IInv, NEW l \in Loops, NEW e \in EndsOf(l), NEW w \in TaskKinds,
         tasks' = Dispatch(l, Task(w, e))
  PROVE  tasks'[l] \in TasksOf(l)
  <1> DEFINE T == [what : TaskKinds, end : EndsOf(l)]
  <1>1. Task(w, e) \in T
    BY DEF Task
  <1>2. tasks[l] \in Seq(T)
    BY DEF IInv, TasksOf
  <1> HIDE DEF T
  <1>3. Append(tasks[l], Task(w, e)) \in Seq(T)
    BY <1>1, <1>2, InSeq
  <1>4. tasks'[l] = Append(tasks[l], Task(w, e))
    BY DEF IInv, Types, Dispatch
  <1> QED
    BY <1>3, <1>4 DEF T, TasksOf

LEMMA QueueAlone ==
  ASSUME IInv, NEW e \in Ends, PlatformInvalidate(e) \/ ProcessIncomingMessage(e)
  PROVE  IInv'
  <1> DEFINE l == LoopOf[e]
  <1>1. l \in Loops /\ e \in EndsOf(l)
    BY EndsAssumption DEF EndsOf
  <1>2. /\ UNCHANGED <<stack, toDispatch, semaphore, replied, client, shouldWait, sent>>
        /\ tasks' = tasks \/ tasks' = Dispatch(l, Task("one", e))
    BY DEF PlatformInvalidate, ProcessIncomingMessage, loopVars
  <1>3. Types' /\ \A k \in Loops : Apart(k)
    BY <1>1, <1>2 DEF IInv, Types, Dispatch, Apart
  <1>4. \A x \in Ends : sent[x] <= sent'[x]
    BY <1>2, SMTT(30) DEF IInv, Types
  <1>5. LoopInv(l)'
    BY <1>1, <1>3, <1>4, Untouched DEF IInv
  <1>6. tasks'[l] \in TasksOf(l) /\ \A k \in Loops \ {l} : tasks'[k] = tasks[k]
    <2>1. tasks[l] \in TasksOf(l) /\ "one" \in TaskKinds
      BY <1>1 DEF IInv, TaskKinds
    <2>2. tasks'[l] \in TasksOf(l)
      BY <1>1, <1>2, <2>1, Dispatched
    <2> QED
      BY <1>1, <1>2, <2>2 DEF IInv, Types, Dispatch
  <1> QED
    BY <1>1, <1>3, <1>4, <1>5, <1>6, OneLoop

\* A sleeping run loop's request is the newest one its end has pending.
LEMMA NewestPending ==
  ASSUME IInv, NEW l \in Loops, Top(l, "sleep")
  PROVE  LET f == Last(stack[l])
         IN  /\ f.end \in EndsOf(l)
             /\ f.n \in Pending(f.end) /\ f.n = Max(Pending(f.end))
  <1> DEFINE s == stack[l]
             f == Last(s)
  <1>1. s # <<>> /\ IsWait(f) /\ Stacked(l, s, sent)
    BY DEF Top, IsWait, WaitStates, IInv, LoopInv
  <1>2. /\ Len(s) \in Waits(s) /\ f.end \in Ends /\ LoopOf[f.end] = l /\ f.n \in Nat
        /\ \A i \in Waits(s) : s[i].end = f.end => s[i].n \in Nat /\ s[i].n <= f.n
    BY <1>1, WaitFacts
  <1>3. DOMAIN s = 1 .. Len(s)
    BY <1>1, SequenceFacts DEF Stacked
  <1>4. Pending(f.end) = {s[i].n : i \in {j \in Waits(s) : s[j].end = f.end}}
    BY <1>2, <1>3 DEF Pending, Frames, Range, Waits
  <1>5. f.n \in Pending(f.end)
    BY <1>2, <1>4 DEF Last
  <1>6. \A y \in Pending(f.end) : y \in Nat /\ f.n >= y
    BY <1>2, <1>4
  <1>7. f.n = Max(Pending(f.end))
    <2> DEFINE P == Pending(f.end)
               x == f.n
               m == Max(P)
    <2>1. x \in P /\ x \in Nat /\ \A y \in P : y \in Nat /\ x >= y
      BY <1>2, <1>5, <1>6
    <2> HIDE DEF P, x
    <2>2. m \in P /\ \A y \in P : m >= y
      BY <2>1 DEF Max
    <2> HIDE DEF m
    <2>3. x = m
      BY <2>1, <2>2, SMTT(30)
    <2> QED
      BY <2>3 DEF x, m, P
  <1> QED
    BY <1>2, <1>5, <1>7 DEF EndsOf

LEMMA QueueReply ==
  ASSUME IInv, NEW e \in Ends, ProcessIncomingSyncReply(e)
  PROVE  IInv'
  <1> DEFINE l == LoopOf[e]
             n == Head(wire[e]).n
  <1>1. l \in Loops /\ e \in EndsOf(l)
    BY EndsAssumption DEF EndsOf
  <1>2. /\ UNCHANGED <<tasks, stack, toDispatch, client, shouldWait, sent>>
        /\ replied' = [replied EXCEPT ![e] = @ \cup ({n} \cap Pending(e))]
        /\ semaphore' = IF n \in Pending(e) /\ n = Max(Pending(e))
                        THEN [semaphore EXCEPT ![l] = TRUE] ELSE semaphore
    BY DEF ProcessIncomingSyncReply, Signal
  <1> HIDE DEF n
  <1>3. Types' /\ \A k \in Loops \ {l} : tasks'[k] = tasks[k] /\ Apart(k)
    BY <1>1, <1>2 DEF IInv, Types, Apart, EndsOf
  <1>4. (\A x \in Ends : sent[x] <= sent'[x]) /\ tasks'[l] \in TasksOf(l)
    BY <1>1, <1>2, SMTT(30) DEF IInv, Types
  <1>5. Stacked(l, stack'[l], sent')
    BY <1>1, <1>2 DEF IInv, LoopInv
  <1>6. semaphore[l] => semaphore'[l]
    BY <1>1, <1>2 DEF IInv, Types
  <1>7. Noticed(l)'
    BY <1>1, <1>2, <1>6 DEF IInv, LoopInv, Noticed, Top
  <1>8. ASSUME Top(l, "sleep")', ~semaphore'[l] PROVE ~WaitIsOver(Last(stack[l]))'
    <2>1. Top(l, "sleep") /\ ~WaitIsOver(Last(stack[l]))
      BY <1>1, <1>2, <1>6, <1>8 DEF IInv, LoopInv, Asleep, Top
    <2> DEFINE f == Last(stack[l])
    <2>2. f.end \in EndsOf(l) /\ f.n \in Pending(f.end) /\ f.n = Max(Pending(f.end))
      BY <1>1, <2>1, NewestPending
    <2>3. ~(n \in Pending(e) /\ n = Max(Pending(e)))
      BY <1>1, <1>2, <1>8 DEF IInv, Types
    <2>4. f.n \in replied'[f.end] => f.n \in replied[f.end]
      <3>1. CASE f.end = e
        BY <1>2, <2>2, <2>3, <3>1 DEF IInv, Types
      <3>2. CASE f.end # e
        BY <1>2, <2>2, <3>2 DEF IInv, Types, EndsOf
      <3> QED
        BY <3>1, <3>2
    <2> QED
      BY <1>2, <2>1, <2>4 DEF WaitIsOver
  <1>9. LoopInv(l)'
    BY <1>5, <1>7, <1>8 DEF LoopInv, Asleep
  <1> QED
    BY <1>1, <1>3, <1>4, <1>9, OneLoop

LEMMA QueueMarked ==
  ASSUME IInv, NEW e \in Ends, ProcessIncomingMarked(e)
  PROVE  IInv'
  <1> DEFINE l == LoopOf[e]
  <1>1. l \in Loops /\ e \in EndsOf(l)
    BY EndsAssumption DEF EndsOf
  <1>2. /\ UNCHANGED <<stack, replied, client, shouldWait, sent>>
        /\ semaphore' = [semaphore EXCEPT ![l] = TRUE]
        /\ tasks' = tasks \/ tasks' = Dispatch(l, Task("marked", e))
        /\ DOMAIN toDispatch' = Loops
        /\ \A k \in Loops \ {l} : toDispatch'[k] = toDispatch[k]
    BY DEF ProcessIncomingMarked, Signal, IInv, Types
  <1>3. Types' /\ \A k \in Loops \ {l} : tasks'[k] = tasks[k] /\ Apart(k)
    BY <1>1, <1>2 DEF IInv, Types, Apart, Dispatch
  <1>4. (\A x \in Ends : sent[x] <= sent'[x]) /\ tasks'[l] \in TasksOf(l)
    <2>1. tasks[l] \in TasksOf(l) /\ "marked" \in TaskKinds
      BY <1>1 DEF IInv, TaskKinds
    <2>2. tasks'[l] \in TasksOf(l)
      BY <1>1, <1>2, <2>1, Dispatched
    <2> QED
      BY <1>2, <2>2, SMTT(30) DEF IInv, Types
  <1>5. LoopInv(l)'
    BY <1>1, <1>2 DEF IInv, Types, LoopInv, Noticed, Asleep
  <1> QED
    BY <1>1, <1>3, <1>4, <1>5, OneLoop

LEMMA QueueClose ==
  ASSUME IInv, NEW e \in Ends, ConnectionDidClose(e)
  PROVE  IInv'
  <1> DEFINE l == LoopOf[e]
  <1>1. l \in Loops /\ e \in EndsOf(l)
    BY EndsAssumption DEF EndsOf
  <1>2. /\ UNCHANGED <<stack, toDispatch, replied, client, sent>>
        /\ shouldWait' = [shouldWait EXCEPT ![e] = FALSE]
        /\ semaphore' = IF Pending(e) # {} THEN [semaphore EXCEPT ![l] = TRUE] ELSE semaphore
        /\ tasks' = Dispatch(l, Task("didClose", e))
    BY DEF ConnectionDidClose, Signal
  <1>3. Types' /\ \A k \in Loops \ {l} : tasks'[k] = tasks[k] /\ Apart(k)
    BY <1>1, <1>2 DEF IInv, Types, Apart, Dispatch, EndsOf
  <1>4. (\A x \in Ends : sent[x] <= sent'[x]) /\ tasks'[l] \in TasksOf(l)
    <2>1. tasks[l] \in TasksOf(l) /\ "didClose" \in TaskKinds
      BY <1>1 DEF IInv, TaskKinds
    <2>2. tasks'[l] \in TasksOf(l)
      BY <1>1, <1>2, <2>1, Dispatched
    <2> QED
      BY <1>2, <2>2, SMTT(30) DEF IInv, Types
  <1>5. Stacked(l, stack'[l], sent')
    BY <1>1, <1>2 DEF IInv, LoopInv
  <1>6. semaphore[l] => semaphore'[l]
    BY <1>1, <1>2 DEF IInv, Types
  <1>7. Noticed(l)'
    BY <1>1, <1>2, <1>6 DEF IInv, LoopInv, Noticed, Top
  <1>8. ASSUME Top(l, "sleep")', ~semaphore'[l] PROVE ~WaitIsOver(Last(stack[l]))'
    <2>1. Top(l, "sleep") /\ ~WaitIsOver(Last(stack[l]))
      BY <1>1, <1>2, <1>6, <1>8 DEF IInv, LoopInv, Asleep, Top
    <2> DEFINE f == Last(stack[l])
    <2>2. f.end \in EndsOf(l) /\ f.n \in Pending(f.end)
      BY <1>1, <2>1, NewestPending
    <2>3. Pending(e) = {}
      BY <1>1, <1>2, <1>8 DEF IInv, Types
    <2>4. f.end # e /\ f.end \in Ends
      BY <2>2, <2>3 DEF EndsOf
    <2> QED
      BY <1>2, <2>1, <2>4 DEF WaitIsOver, IInv, Types
  <1>9. LoopInv(l)'
    BY <1>5, <1>7, <1>8 DEF LoopInv, Asleep
  <1> QED
    BY <1>1, <1>3, <1>4, <1>9, OneLoop

-----------------------------------------------------------------------------
(* The client and crashes.                                                 *)

LEMMA ExitStep ==
  ASSUME IInv, NEW l \in Loops, Exit(l)
  PROVE  IInv'
  <1>1. /\ replied' = [e \in Ends |-> IF LoopOf[e] = l THEN {} ELSE replied[e]]
        /\ client' = [e \in Ends |-> client[e] /\ LoopOf[e] # l]
        /\ tasks' = [tasks EXCEPT ![l] = <<>>]
        /\ stack' = [stack EXCEPT ![l] = <<>>]
        /\ toDispatch' = [toDispatch EXCEPT ![l] = <<>>]
        /\ semaphore' = [semaphore EXCEPT ![l] = FALSE]
        /\ UNCHANGED <<shouldWait, sent>>
    BY DEF Exit
  <1>2. Types' /\ \A e \in Ends : sent[e] <= sent'[e]
    BY <1>1, SMTT(30) DEF IInv, Types
  <1>3. ASSUME NEW k \in Loops \ {l} PROVE tasks'[k] = tasks[k] /\ Apart(k)
    BY <1>1 DEF IInv, Types, Apart, EndsOf
  <1>4. tasks'[l] \in TasksOf(l) /\ stack'[l] = <<>> /\ toDispatch'[l] = <<>>
    BY <1>1, SMTT(30) DEF IInv, Types, TasksOf
  <1>5. Stacked(l, stack'[l], sent')
    BY <1>4, StackedEmpty
  <1>6. LoopInv(l)'
    BY <1>4, <1>5, Calm
  <1> QED
    BY <1>2, <1>3, <1>4, <1>6, OneLoop

LEMMA ClientSends ==
  ASSUME IInv, NEW l \in Loops, NEW e \in EndsOf(l), NEW b, SendMessage(l, e, b)
  PROVE  IInv'
  <1>1. /\ UNCHANGED <<replied, client, shouldWait, tasks, stack, toDispatch, semaphore>>
        /\ sent' = [sent EXCEPT ![e] = @ + 1]
    BY DEF SendMessage, loopVars
  <1>2. Types' /\ \A x \in Ends : sent[x] <= sent'[x]
    BY <1>1, SMTT(30) DEF IInv, Types, EndsOf
  <1>3. \A k \in Loops : tasks'[k] = tasks[k] /\ Apart(k)
    BY <1>1 DEF Apart
  <1>4. LoopInv(l)' /\ tasks'[l] \in TasksOf(l)
    BY <1>2, <1>3, Untouched DEF IInv
  <1> QED
    BY <1>2, <1>3, <1>4, OneLoop

LEMMA ClientSendsSync ==
  ASSUME IInv, NEW l \in Loops, NEW e \in EndsOf(l), SendSyncMessage(l, e)
  PROVE  IInv'
  <1> DEFINE s == stack[l]
             n == sent[e] + 1
             f == Wait("dispatch", e, n)
  <1>1. /\ UNCHANGED <<replied, client, shouldWait, tasks, toDispatch, semaphore>>
        /\ sent' = [sent EXCEPT ![e] = @ + 1]
        /\ stack' = [stack EXCEPT ![l] = Append(s, f)]
        /\ Running(l)
    BY DEF SendSyncMessage, NextNumber, Push
  <1>2. Types' /\ \A x \in Ends : sent[x] <= sent'[x]
    BY <1>1, SMTT(30) DEF IInv, Types, EndsOf
  <1>3. \A k \in Loops : tasks'[k] = tasks[k] /\ (k # l => Apart(k))
    BY <1>1 DEF Apart, IInv, Types
  <1>4. /\ e \in Ends /\ LoopOf[e] = l /\ n \in Nat /\ n = sent'[e]
        /\ \A x \in Ends : sent[x] \in Nat /\ sent'[x] \in Nat
    BY <1>1, SMTT(30) DEF IInv, Types, EndsOf
  <1>5. Stacked(l, s, sent) /\ Stacked(l, s, sent')
    BY <1>2, <1>4, StackedLater DEF IInv, LoopInv
  <1>6. s # <<>> => Last(s).at \notin {"dispatch", "sleep"}
    BY <1>1 DEF Running
  <1>7. \A i \in Waits(s) : s[i].end = e => s[i].n < n
    BY <1>4, <1>5, SMTT(30) DEF Stacked
  <1>8. IsWait(f) /\ f.end = e /\ f.n = n /\ f.at = "dispatch"
    BY DEF IsWait, WaitStates, Wait
  <1>9. stack'[l] = Append(s, f)
    BY <1>1 DEF IInv, Types
  <1> HIDE DEF f, n
  <1>10. Stacked(l, Append(s, f), sent') /\ Append(s, f) # <<>> /\ Last(Append(s, f)) = f
    BY <1>4, <1>5, <1>6, <1>7, <1>8, StackedWait, SMTT(30)
  <1>11. Stacked(l, stack'[l], sent') /\ stack'[l] # <<>> /\ Last(stack'[l]).at = "dispatch"
    BY <1>8, <1>9, <1>10
  <1>12. LoopInv(l)'
    BY <1>11 DEF LoopInv, Noticed, Asleep, Top
  <1>13. tasks'[l] \in TasksOf(l)
    BY <1>3 DEF IInv
  <1> QED
    BY <1>2, <1>3, <1>12, <1>13, OneLoop

LEMMA ClientInvalidates ==
  ASSUME IInv, NEW l \in Loops, NEW e \in EndsOf(l), Invalidate(l, e)
  PROVE  IInv'
  <1>1. /\ UNCHANGED <<replied, shouldWait, sent, tasks, stack, toDispatch, semaphore>>
        /\ client' = [client EXCEPT ![e] = FALSE]
        /\ Running(l)
    BY DEF Invalidate, loopVars
  <1>2. Types' /\ \A x \in Ends : sent[x] <= sent'[x]
    <2>1. client' \in [Ends -> BOOLEAN]
      BY <1>1 DEF IInv, Types
    <2> QED
      BY <1>1, <2>1, SMTT(30) DEF IInv, Types
  <1>3. \A k \in Loops : tasks'[k] = tasks[k] /\ (k # l => Apart(k))
    BY <1>1 DEF Apart, IInv, Types, EndsOf
  <1>4. LoopInv(l) /\ tasks'[l] \in TasksOf(l)
    BY <1>3 DEF IInv
  <1>5. stack'[l] # <<>> => Last(stack'[l]).at \notin {"dispatch", "sleep"}
    BY <1>1 DEF Running
  <1>6. LoopInv(l)'
    BY <1>1, <1>4, <1>5, Calm DEF LoopInv, Noticed, Top
  <1> QED
    BY <1>2, <1>3, <1>4, <1>6, OneLoop
-----------------------------------------------------------------------------
(* The run loop.                                                           *)

\* A step of run loop l that only its stack, queues and begun messages take part in,
\* and that leaves no wait on top about to dispatch or asleep.
LEMMA StackStep ==
  ASSUME IInv, NEW l \in Loops, NEW r,
         stack' = [stack EXCEPT ![l] = r],
         UNCHANGED <<replied, client, shouldWait, sent, semaphore>>,
         DOMAIN tasks' = Loops, DOMAIN toDispatch' = Loops,
         \A k \in Loops \ {l} : tasks'[k] = tasks[k] /\ toDispatch'[k] = toDispatch[k],
         tasks'[l] \in TasksOf(l),
         Stacked(l, r, sent),
         r # <<>> => Last(r).at \notin {"dispatch", "sleep"},
         Waits(r) # {} /\ toDispatch'[l] # <<>> => semaphore[l]
  PROVE  IInv'
  <1>1. Types' /\ \A x \in Ends : sent[x] <= sent'[x]
    BY SMTT(30) DEF IInv, Types
  <1>2. \A k \in Loops \ {l} : tasks'[k] = tasks[k] /\ Apart(k)
    BY DEF Apart, IInv, Types
  <1>3. stack'[l] = r
    BY DEF IInv, Types
  <1>4. LoopInv(l)'
    BY <1>3, Calm
  <1> QED
    BY <1>1, <1>2, <1>4, OneLoop

LEMMA RanTasks ==
  ASSUME IInv, NEW l \in Loops, tasks[l] # <<>>, tasks' = Ran(l)
  PROVE  /\ DOMAIN tasks' = Loops /\ tasks'[l] \in TasksOf(l)
         /\ \A k \in Loops \ {l} : tasks'[k] = tasks[k]
         /\ Head(tasks[l]).end \in EndsOf(l)
  <1> DEFINE T == [what : TaskKinds, end : EndsOf(l)]
  <1>1. tasks[l] \in Seq(T)
    BY DEF IInv, TasksOf
  <1>2. tasks'[l] = Tail(tasks[l]) /\ DOMAIN tasks' = Loops
        /\ \A k \in Loops \ {l} : tasks'[k] = tasks[k]
    BY DEF IInv, Types, Ran
  <1>3. Head(tasks[l]).end \in EndsOf(l)
    <2>1. Head(tasks[l]) \in T
      <3> HIDE DEF T
      <3> QED
        BY <1>1, SMTT(30)
    <2> QED
      BY <2>1
  <1>4. Tail(tasks[l]) \in Seq(T)
    <2> HIDE DEF T
    <2> QED
      BY <1>1, SMTT(30)
  <1> QED
    BY <1>2, <1>3, <1>4 DEF TasksOf

\* dispatchMessage calls the client.
LEMMA StackedHandler ==
  ASSUME NEW l, NEW s, NEW number, Stacked(l, s, number),
         s # <<>> => Last(s).at \notin {"dispatch", "sleep"}, NEW e, NEW m
  PROVE  /\ Stacked(l, Append(s, Handler(e, m)), number)
         /\ Waits(Append(s, Handler(e, m))) = Waits(s)
         /\ Last(Append(s, Handler(e, m))).at = "handler"
  <1> DEFINE h == Handler(e, m)
  <1>1. h.at = "handler" /\ ~IsWait(h)
    BY DEF Handler, IsWait, WaitStates
  <1> HIDE DEF h
  <1>2. /\ Stacked(l, Append(s, h), number) /\ Waits(Append(s, h)) = Waits(s)
        /\ Last(Append(s, h)) = h
    BY <1>1, StackedPush
  <1> QED
    BY <1>1, <1>2 DEF h

LEMMA LoopOneMessage ==
  ASSUME IInv, NEW l \in Loops, DispatchOneMessage(l)
  PROVE  IInv'
  <1> DEFINE e == Head(tasks[l]).end
             m == Head(incoming[e])
             r == IF client[e] THEN Append(<<>>, Handler(e, m)) ELSE <<>>
  <1>1. /\ stack[l] = <<>> /\ tasks[l] # <<>> /\ tasks' = Ran(l)
        /\ UNCHANGED <<replied, client, shouldWait, sent, toDispatch, semaphore>>
        /\ stack' = stack \/ stack' = [stack EXCEPT ![l] = r]
    BY DEF DispatchOneMessage, Runs, DispatchMessage
  <1>2. /\ DOMAIN tasks' = Loops /\ tasks'[l] \in TasksOf(l)
        /\ \A k \in Loops \ {l} : tasks'[k] = tasks[k]
    BY <1>1, RanTasks
  <1>3. r = <<>> \/ r = Append(<<>>, Handler(e, m))
    OBVIOUS
  <1> HIDE DEF r
  <1>4. CASE stack' = stack
    <2>1. Types' /\ \A x \in Ends : sent[x] <= sent'[x]
      BY <1>1, <1>2, <1>4, SMTT(30) DEF IInv, Types
    <2>2. \A k \in Loops : Apart(k)
      BY <1>1, <1>4 DEF Apart
    <2>3. LoopInv(l)'
      BY <2>1, <2>2, Untouched DEF IInv
    <2> QED
      BY <1>2, <2>1, <2>2, <2>3, OneLoop
  <1>5. CASE stack' = [stack EXCEPT ![l] = r]
    <2> DEFINE s == stack[l]
               t == Append(s, Handler(e, m))
    <2>1. r = s \/ r = t
      BY <1>1, <1>3
    <2>2. /\ Stacked(l, s, sent) /\ Waits(s) = {}
          /\ s # <<>> => Last(s).at \notin {"dispatch", "sleep"}
      BY <1>1, StackedEmpty
    <2> HIDE DEF s
    <2>3. Stacked(l, t, sent) /\ Waits(t) = Waits(s) /\ Last(t).at = "handler"
      BY <2>2, StackedHandler, SMTT(30)
    <2> HIDE DEF t
    <2>4. /\ Stacked(l, r, sent) /\ Waits(r) = {}
          /\ r # <<>> => Last(r).at \notin {"dispatch", "sleep"}
      BY <2>1, <2>2, <2>3
    <2>5. DOMAIN toDispatch' = Loops
      BY <1>1 DEF IInv, Types
    <2> QED
      BY <1>1, <1>2, <1>5, <2>4, <2>5, StackStep
  <1> QED
    BY <1>1, <1>4, <1>5

LEMMA LoopDidClose ==
  ASSUME IInv, NEW l \in Loops, DispatchDidClose(l)
  PROVE  IInv'
  <1> DEFINE e == Head(tasks[l]).end
  <1>1. /\ stack[l] = <<>> /\ tasks[l] # <<>> /\ tasks' = Ran(l)
        /\ UNCHANGED <<replied, shouldWait, sent, stack, toDispatch, semaphore>>
        /\ client' = [client EXCEPT ![e] = FALSE]
    BY DEF DispatchDidClose, Runs
  <1>2. /\ DOMAIN tasks' = Loops /\ tasks'[l] \in TasksOf(l) /\ e \in EndsOf(l)
        /\ \A k \in Loops \ {l} : tasks'[k] = tasks[k]
    BY <1>1, RanTasks
  <1> HIDE DEF e
  <1>3. Types' /\ \A x \in Ends : sent[x] <= sent'[x]
    <2>1. client' \in [Ends -> BOOLEAN]
      BY <1>1 DEF IInv, Types
    <2> QED
      BY <1>1, <1>2, <2>1, SMTT(30) DEF IInv, Types
  <1>4. \A k \in Loops \ {l} : tasks'[k] = tasks[k] /\ Apart(k)
    BY <1>1, <1>2 DEF Apart, IInv, Types, EndsOf
  <1>5. LoopInv(l)'
    BY <1>1, StackedEmpty, Calm
  <1> QED
    BY <1>2, <1>3, <1>4, <1>5, OneLoop

LEMMA LoopMarked ==
  ASSUME IInv, NEW l \in Loops, DispatchMarked(l)
  PROVE  IInv'
  <1> DEFINE s == stack[l]
  <1>1. /\ s = <<>> /\ tasks[l] # <<>> /\ tasks' = Ran(l)
        /\ UNCHANGED <<replied, client, shouldWait, sent, semaphore>>
        /\ toDispatch' = [toDispatch EXCEPT ![l] = <<>>]
        /\ DispatchMessages(l, s, Head(tasks[l]).end)
    BY DEF DispatchMarked, Runs, endVars, DispatchMessages
  <1>2. PICK rest, back : stack' = [stack EXCEPT ![l] = s \o Batches(rest, back)]
    BY <1>1 DEF DispatchMessages
  <1> DEFINE r == s \o Batches(rest, back)
  <1>3. /\ Stacked(l, s, sent) /\ (s # <<>> => back = <<>>)
        /\ s # <<>> => Last(s).at \notin {"dispatch", "sleep"}
    BY <1>1 DEF IInv, LoopInv
  <1>4. /\ DOMAIN tasks' = Loops /\ tasks'[l] \in TasksOf(l)
        /\ \A k \in Loops \ {l} : tasks'[k] = tasks[k]
    BY <1>1, RanTasks
  <1>5. /\ DOMAIN toDispatch' = Loops /\ toDispatch'[l] = <<>>
        /\ \A k \in Loops \ {l} : toDispatch'[k] = toDispatch[k]
    BY <1>1 DEF IInv, Types
  <1>6. UNCHANGED <<replied, client, shouldWait, sent, semaphore>> /\ stack' = [stack EXCEPT ![l] = r]
    BY <1>1, <1>2
  <1> HIDE DEF s
  <1>7. Stacked(l, r, sent) /\ (r # <<>> => Last(r).at \notin {"dispatch", "sleep"})
    BY <1>3, StackedBatch
  <1> HIDE DEF r
  <1> QED
    BY <1>4, <1>5, <1>6, <1>7, StackStep

\* A step of run loop l from a call other than waitForSyncReply, or from its check,
\* that leaves the queues alone and takes no wait off the stack but the innermost.
LEMMA CallStep ==
  ASSUME IInv, NEW l \in Loops, NEW r, ~Top(l, "dispatch"),
         stack' = [stack EXCEPT ![l] = r],
         UNCHANGED <<replied, client, shouldWait, sent, semaphore, tasks, toDispatch>>,
         Stacked(l, r, sent), Waits(r) \subseteq Waits(stack[l]),
         r # <<>> => Last(r).at \notin {"dispatch", "sleep"}
  PROVE  IInv'
  <1>1. LoopInv(l) /\ tasks'[l] \in TasksOf(l) /\ DOMAIN tasks' = Loops /\ DOMAIN toDispatch' = Loops
    BY DEF IInv, Types
  <1>2. Waits(r) # {} /\ toDispatch'[l] # <<>> => semaphore[l]
    BY <1>1 DEF LoopInv, Noticed
  <1> QED
    BY <1>1, <1>2, StackStep

LEMMA LoopNext ==
  ASSUME IInv, NEW l \in Loops, DispatchNext(l)
  PROVE  IInv'
  <1> DEFINE s == stack[l]
             f == Last(s)
             rest == Tail(f.rest)
             c == Head(f.rest)
             b == Front(s) \o Batches(rest, f.back)
             t == Append(b, Handler(c.end, c.msg))
  <1>1. /\ s # <<>> /\ f.at = "batch"
        /\ UNCHANGED <<replied, client, shouldWait, sent, semaphore, tasks, toDispatch>>
        /\ stack' = [stack EXCEPT ![l] = b] \/ stack' = [stack EXCEPT ![l] = t]
    BY DEF DispatchNext, Top, DispatchMessage
  <1>2. Stacked(l, s, sent) /\ ~Top(l, "dispatch")
    BY <1>1 DEF IInv, LoopInv, Top
  <1>3. /\ Stacked(l, Front(s), sent) /\ Waits(Front(s)) \subseteq Waits(s)
        /\ Front(s) # <<>> => Last(Front(s)).at \notin {"dispatch", "sleep"}
    BY <1>1, <1>2, StackedPop
  <1>4. Front(s) # <<>> => f.back = <<>>
    <2>1. /\ IsSequence(Front(s)) /\ Len(Front(s)) = Len(s) - 1
          /\ f = s[Len(s)] /\ Len(s) \in Nat \ {0}
      BY <1>1, <1>2, FrontFacts DEF Stacked
    <2>2. Front(s) # <<>> => Len(Front(s)) # 0
      BY <2>1, SequenceFacts
    <2>3. Front(s) # <<>> => Len(s) \in 2 .. Len(s)
      BY <2>1, <2>2, SMTT(30)
    <2> QED
      BY <1>1, <1>2, <2>1, <2>3 DEF Stacked
  <1> HIDE DEF s, f, rest, c
  <1>5. /\ Stacked(l, b, sent) /\ Waits(b) = Waits(Front(s))
        /\ b # <<>> => Last(b).at \notin {"dispatch", "sleep"}
    BY <1>3, <1>4, StackedBatch
  <1> HIDE DEF b
  <1>6. Stacked(l, t, sent) /\ Waits(t) = Waits(b) /\ Last(t).at = "handler"
    BY <1>5, StackedHandler, SMTT(30)
  <1> HIDE DEF t
  <1>7. Waits(b) \subseteq Waits(stack[l]) /\ Waits(t) \subseteq Waits(stack[l])
    BY <1>3, <1>5, <1>6 DEF s
  <1>8. CASE stack' = [stack EXCEPT ![l] = b]
    BY <1>1, <1>2, <1>5, <1>7, <1>8, CallStep
  <1>9. CASE stack' = [stack EXCEPT ![l] = t]
    BY <1>1, <1>2, <1>6, <1>7, <1>9, CallStep
  <1> QED
    BY <1>1, <1>8, <1>9

LEMMA LoopPutBack ==
  ASSUME IInv, NEW l \in Loops, PutBack(l)
  PROVE  IInv'
  <1> DEFINE s == stack[l]
             f == Last(s)
             r == Front(s)
  <1>1. /\ s # <<>> /\ f.at = "batch"
        /\ UNCHANGED <<replied, client, shouldWait, sent, semaphore, tasks>>
        /\ stack' = [stack EXCEPT ![l] = r]
        /\ toDispatch' = [toDispatch EXCEPT ![l] = @ \o f.back]
    BY DEF PutBack, Top, Pop, endVars
  <1>2. Stacked(l, s, sent) /\ ~Top(l, "dispatch") /\ Noticed(l) /\ tasks'[l] \in TasksOf(l)
    BY <1>1 DEF IInv, LoopInv, Top
  <1>3. /\ Stacked(l, r, sent) /\ Waits(r) \subseteq Waits(s)
        /\ r # <<>> => Last(r).at \notin {"dispatch", "sleep"}
    BY <1>1, <1>2, StackedPop
  <1>4. /\ DOMAIN toDispatch' = Loops /\ toDispatch'[l] = toDispatch[l] \o f.back
        /\ DOMAIN tasks' = Loops
        /\ \A k \in Loops \ {l} : toDispatch'[k] = toDispatch[k] /\ tasks'[k] = tasks[k]
    BY <1>1 DEF IInv, Types
  <1>5. ASSUME Waits(r) # {}, toDispatch'[l] # <<>> PROVE semaphore[l]
    <2>1. /\ IsSequence(r) /\ Len(r) = Len(s) - 1 /\ f = s[Len(s)] /\ Len(s) \in Nat \ {0}
      BY <1>1, <1>2, FrontFacts DEF Stacked
    <2>2. Len(s) \in 2 .. Len(s)
      BY <1>5, <2>1, SMTT(30) DEF Waits
    <2>3. f.back = <<>>
      BY <1>1, <1>2, <2>1, <2>2 DEF Stacked
    <2>4. toDispatch[l] # <<>>
      <3>1. <<>> \o <<>> = <<>>
        BY SMTT(30)
      <3> QED
        BY <1>4, <1>5, <2>3, <3>1
    <2>5. Waits(stack[l]) # {}
      BY <1>3, <1>5
    <2> QED
      BY <1>2, <2>4, <2>5 DEF Noticed
  <1> HIDE DEF r
  <1> QED
    BY <1>1, <1>2, <1>3, <1>4, <1>5, StackStep

LEMMA LoopReturns ==
  ASSUME IInv, NEW l \in Loops, HandlerReturns(l)
  PROVE  IInv'
  <1> DEFINE s == stack[l]
  <1>1. /\ s # <<>> /\ Last(s).at = "handler"
        /\ UNCHANGED <<replied, client, shouldWait, sent, semaphore, tasks, toDispatch>>
        /\ stack' = [stack EXCEPT ![l] = Front(s)]
    BY DEF HandlerReturns, Top, Pop
  <1>2. Stacked(l, s, sent) /\ ~Top(l, "dispatch")
    BY <1>1 DEF IInv, LoopInv, Top
  <1>3. /\ Stacked(l, Front(s), sent) /\ Waits(Front(s)) \subseteq Waits(s)
        /\ Front(s) # <<>> => Last(Front(s)).at \notin {"dispatch", "sleep"}
    BY <1>1, <1>2, StackedPop
  <1> QED
    BY <1>1, <1>2, <1>3, CallStep
-----------------------------------------------------------------------------
(* The steps of waitForSyncReply.                                          *)

LEMMA LoopWaitDispatches ==
  ASSUME IInv, NEW l \in Loops, WaitDispatches(l)
  PROVE  IInv'
  <1> DEFINE s == stack[l]
             w == Wait("check", Last(s).end, Last(s).n)
             b == Append(Front(s), w)
             r == b \o Batches(toDispatch[l], <<>>)
  <1>1. /\ s # <<>> /\ Last(s).at = "dispatch"
        /\ UNCHANGED <<replied, client, shouldWait, sent, semaphore, tasks>>
        /\ toDispatch' = [toDispatch EXCEPT ![l] = <<>>]
        /\ stack' = [stack EXCEPT ![l] = r]
    BY DEF WaitDispatches, Top, DispatchMessages, endVars
  <1>2. /\ Stacked(l, s, sent) /\ tasks'[l] \in TasksOf(l)
        /\ DOMAIN toDispatch' = Loops /\ toDispatch'[l] = <<>> /\ DOMAIN tasks' = Loops
        /\ \A k \in Loops \ {l} : toDispatch'[k] = toDispatch[k] /\ tasks'[k] = tasks[k]
    BY <1>1 DEF IInv, LoopInv, Types
  <1>3. IsWait(Last(s)) /\ "check" \in WaitStates /\ w.at = "check"
    BY <1>1 DEF IsWait, WaitStates, Wait
  <1>4. Stacked(l, b, sent) /\ b # <<>> /\ Last(b) = w
    BY <1>1, <1>2, <1>3, StackedBecome
  <1> HIDE DEF s, w
  <1>5. b # <<>> => Last(b).at \notin {"dispatch", "sleep"}
    BY <1>3, <1>4
  <1> HIDE DEF b
  <1>6. Stacked(l, r, sent) /\ (r # <<>> => Last(r).at \notin {"dispatch", "sleep"})
    BY <1>4, <1>5, StackedBatch
  <1> HIDE DEF r
  <1> QED
    BY <1>1, <1>2, <1>6, StackStep

\* sendSyncMessage returns.
LEMMA LoopEndSync ==
  ASSUME IInv, NEW l \in Loops, Top(l, "check") \/ Top(l, "sleep"), NEW reply, EndSync(l, reply)
  PROVE  IInv'
  <1> DEFINE s == stack[l]
             f == Last(s)
             r == Front(s)
  <1>1. CASE Exit(l)
    BY <1>1, ExitStep
  <1>2. CASE /\ replied' = [replied EXCEPT ![f.end] = @ \ {f.n}]
             /\ stack' = [stack EXCEPT ![l] = r]
             /\ UNCHANGED <<client, shouldWait, sent, semaphore, tasks, toDispatch>>
    <2>1. /\ s # <<>> /\ IsWait(f) /\ ~Top(l, "dispatch")
          /\ Stacked(l, s, sent) /\ Noticed(l) /\ tasks'[l] \in TasksOf(l)
      BY <1>2 DEF Top, IsWait, WaitStates, IInv, LoopInv
    <2>2. f.end \in Ends /\ LoopOf[f.end] = l
      BY <2>1, WaitFacts
    <2>3. /\ Stacked(l, r, sent) /\ Waits(r) \subseteq Waits(s)
          /\ r # <<>> => Last(r).at \notin {"dispatch", "sleep"}
      BY <2>1, StackedPop
    <2>4. Types' /\ \A x \in Ends : sent[x] <= sent'[x]
      BY <1>2, SMTT(30) DEF IInv, Types
    <2>5. \A k \in Loops \ {l} : tasks'[k] = tasks[k] /\ Apart(k)
      BY <1>2, <2>2 DEF IInv, Types, Apart, EndsOf
    <2>6. stack'[l] = r
      BY <1>2 DEF IInv, Types
    <2>7. Waits(r) # {} /\ toDispatch'[l] # <<>> => semaphore'[l]
      BY <1>2, <2>1, <2>3 DEF Noticed
    <2> HIDE DEF r
    <2>8. LoopInv(l)'
      <3>1. sent' = sent
        BY <1>2
      <3> QED
        BY <2>3, <2>6, <2>7, <3>1, Calm
    <2> QED
      BY <2>1, <2>4, <2>5, <2>8, OneLoop
  <1> QED
    BY <1>1, <1>2 DEF EndSync, Pop

LEMMA LoopSleeps ==
  ASSUME IInv, NEW l \in Loops, WaitSleeps(l)
  PROVE  IInv'
  <1> DEFINE s == stack[l]
             w == Wait("sleep", Last(s).end, Last(s).n)
             r == Append(Front(s), w)
  <1>1. /\ s # <<>> /\ Last(s).at = "check" /\ ~WaitIsOver(Last(s))
        /\ UNCHANGED <<replied, client, shouldWait, sent, semaphore, tasks, toDispatch>>
        /\ stack' = [stack EXCEPT ![l] = r]
    BY DEF WaitSleeps, Top, Become, endVars
  <1>2. /\ Stacked(l, s, sent) /\ Noticed(l) /\ ~Top(l, "dispatch") /\ tasks'[l] \in TasksOf(l)
        /\ Types' /\ (\A x \in Ends : sent[x] <= sent'[x])
        /\ \A k \in Loops \ {l} : tasks'[k] = tasks[k] /\ Apart(k)
        /\ stack'[l] = r
    <2> HIDE DEF r
    <2>1. Stacked(l, s, sent) /\ Noticed(l) /\ ~Top(l, "dispatch") /\ tasks'[l] \in TasksOf(l)
      BY <1>1 DEF IInv, LoopInv, Top
    <2>2. Types' /\ (\A x \in Ends : sent[x] <= sent'[x])
      BY <1>1, SMTT(30) DEF IInv, Types
    <2>3. stack'[l] = r /\ \A k \in Loops \ {l} : tasks'[k] = tasks[k] /\ Apart(k)
      BY <1>1 DEF IInv, Types, Apart
    <2> QED
      BY <2>1, <2>2, <2>3
  <1>3. /\ IsWait(Last(s)) /\ "sleep" \in WaitStates
        /\ w.at = "sleep" /\ w.end = Last(s).end /\ w.n = Last(s).n
    BY <1>1 DEF IsWait, WaitStates, Wait
  <1>4. Stacked(l, r, sent) /\ r # <<>> /\ Last(r) = w
    BY <1>1, <1>2, <1>3, StackedBecome
  <1>5. Waits(s) # {}
    BY <1>1, <1>2, <1>3, WaitFacts
  <1> HIDE DEF r, w
  <1>6. toDispatch'[l] # <<>> => semaphore'[l]
    BY <1>1, <1>2, <1>5 DEF Noticed
  <1>7. ~WaitIsOver(Last(stack[l]))'
    BY <1>1, <1>2, <1>3, <1>4 DEF WaitIsOver
  <1>8. Stacked(l, stack'[l], sent')
    BY <1>1, <1>2, <1>4
  <1>9. LoopInv(l)'
    BY <1>6, <1>7, <1>8 DEF LoopInv, Noticed, Asleep
  <1> QED
    BY <1>2, <1>9, OneLoop

LEMMA LoopWakes ==
  ASSUME IInv, NEW l \in Loops, WaitWakes(l)
  PROVE  IInv'
  <1> DEFINE s == stack[l]
             w == Wait("dispatch", Last(s).end, Last(s).n)
             r == Append(Front(s), w)
  <1>1. /\ s # <<>> /\ Last(s).at = "sleep"
        /\ UNCHANGED <<replied, client, shouldWait, sent, tasks, toDispatch>>
        /\ semaphore' = [semaphore EXCEPT ![l] = FALSE]
        /\ stack' = [stack EXCEPT ![l] = r]
    BY DEF WaitWakes, Top, Become, endVars
  <1>2. /\ Stacked(l, s, sent) /\ tasks'[l] \in TasksOf(l)
        /\ Types' /\ (\A x \in Ends : sent[x] <= sent'[x])
        /\ \A k \in Loops \ {l} : tasks'[k] = tasks[k] /\ Apart(k)
        /\ stack'[l] = r
    <2> HIDE DEF r
    <2>1. Stacked(l, s, sent) /\ tasks'[l] \in TasksOf(l)
      BY <1>1 DEF IInv, LoopInv
    <2>2. Types' /\ (\A x \in Ends : sent[x] <= sent'[x])
      BY <1>1, SMTT(30) DEF IInv, Types
    <2>3. stack'[l] = r /\ \A k \in Loops \ {l} : tasks'[k] = tasks[k] /\ Apart(k)
      BY <1>1 DEF IInv, Types, Apart
    <2> QED
      BY <2>1, <2>2, <2>3
  <1>3. IsWait(Last(s)) /\ "dispatch" \in WaitStates /\ w.at = "dispatch"
    BY <1>1 DEF IsWait, WaitStates, Wait
  <1>4. Stacked(l, r, sent) /\ r # <<>> /\ Last(r) = w
    BY <1>1, <1>2, <1>3, StackedBecome
  <1> HIDE DEF r, w
  <1>5. Stacked(l, stack'[l], sent') /\ stack'[l] # <<>> /\ Last(stack'[l]).at = "dispatch"
    BY <1>1, <1>2, <1>3, <1>4
  <1>6. LoopInv(l)'
    BY <1>5 DEF LoopInv, Noticed, Asleep, Top
  <1> QED
    BY <1>2, <1>6, OneLoop
-----------------------------------------------------------------------------
(* The theorem.                                                            *)

LEMMA InitIInv == Init => IInv
  <1> SUFFICES ASSUME Init PROVE IInv
    OBVIOUS
  <1>1. Types
    BY DEF Init, Types
  <1>2. ASSUME NEW l \in Loops PROVE tasks[l] \in TasksOf(l) /\ LoopInv(l)
    <2>1. stack[l] = <<>> /\ tasks[l] = <<>> /\ Stacked(l, <<>>, sent) /\ Waits(<<>>) = {}
      BY StackedEmpty DEF Init
    <2>2. tasks[l] \in TasksOf(l)
      BY <2>1, SMTT(30) DEF TasksOf
    <2> QED
      BY <2>1, <2>2 DEF LoopInv, Noticed, Asleep, Top
  <1> QED
    BY <1>1, <1>2 DEF IInv

LEMMA StepIInv == IInv /\ [Next]_vars => IInv'
  <1> SUFFICES ASSUME IInv, [Next]_vars PROVE IInv'
    OBVIOUS
  <1>1. CASE UNCHANGED vars
    <2>1. UNCHANGED <<replied, client, shouldWait, sent, tasks, stack, toDispatch, semaphore>>
      BY <1>1 DEF vars, endVars, loopVars
    <2> QED
      BY <2>1 DEF IInv, Types, LoopInv, Noticed, Asleep, Top, WaitIsOver
  <1>2. ASSUME NEW e \in Ends, Queue(e) PROVE IInv'
    BY <1>2, QueueAlone, QueueReply, QueueMarked, QueueClose DEF Queue
  <1>3. ASSUME NEW l \in Loops, Loop(l) PROVE IInv'
    <2>1. CASE WaitEnds(l)
      BY <2>1, LoopEndSync DEF WaitEnds
    <2> QED
      BY <1>3, <2>1, LoopOneMessage, LoopMarked, LoopDidClose, LoopNext, LoopPutBack,
         LoopReturns, LoopWaitDispatches, LoopSleeps, LoopWakes DEF Loop
  <1>4. ASSUME NEW l \in Loops, Client(l) PROVE IInv'
    BY <1>4, ClientSends, ClientSendsSync, ClientInvalidates, ExitStep DEF Client, SendSyncFails
  <1>5. ASSUME NEW l \in Loops, WaitTimesOut(l) PROVE IInv'
    BY <1>5, LoopEndSync DEF WaitTimesOut
  <1>6. ASSUME NEW l \in Loops, Crash(l) PROVE IInv'
    BY <1>6, ExitStep DEF Crash
  <1> QED
    BY <1>1, <1>2, <1>3, <1>4, <1>5, <1>6 DEF Next

LEMMA IInvAwake == IInv => NoLostWakeUp
  <1> SUFFICES ASSUME IInv, NEW l \in Loops, Top(l, "sleep"), ~semaphore[l]
               PROVE  toDispatch[l] = <<>> /\ ~WaitIsOver(Last(stack[l]))
    BY DEF NoLostWakeUp
  <1>1. LoopInv(l) /\ stack[l] # <<>> /\ IsWait(Last(stack[l])) /\ ~Top(l, "dispatch")
    BY DEF IInv, Top, IsWait, WaitStates
  <1>2. Waits(stack[l]) # {}
    BY <1>1, WaitFacts DEF LoopInv
  <1> QED
    BY <1>1, <1>2 DEF LoopInv, Noticed, Asleep

\* No wake-up is lost: however many processes and connections there are, however deep
\* synchronous sends nest in the handlers called while others wait, and whatever times
\* out, is invalidated or crashes, a run loop that sleeps unsignalled in waitForSyncReply
\* has no message to dispatch, no reply and an open connection.
THEOREM WakeUps == Spec => []NoLostWakeUp
  <1>1. Init => IInv
    BY InitIInv
  <1>2. IInv /\ [Next]_vars => IInv'
    BY StepIInv
  <1>3. IInv => NoLostWakeUp
    BY IInvAwake
  <1> QED
    BY <1>1, <1>2, <1>3, PTL DEF Spec
=============================================================================
