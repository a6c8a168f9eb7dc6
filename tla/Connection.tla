----------------------------- MODULE Connection -----------------------------
(***************************************************************************)
(* IPC::Connection: synchronous and asynchronous messages between          *)
(* processes (Platform/IPC/Connection.cpp).  Each process has a client run *)
(* loop, on which handlers run and synchronous sends wait, and for each of *)
(* its connection ends a connection queue, which reads the socket.  All    *)
(* ends of a run loop share one SyncMessageState.                          *)
(*                                                                         *)
(* A run loop is the stack of the calls it is in.  What the handlers do is *)
(* left open: each may send, send synchronously or invalidate, and returns *)
(* in the end.  A message is named by its number among those its end sent. *)
(***************************************************************************)
EXTENDS Integers, Sequences, FiniteSetsExt

CONSTANTS
    Loops,                  \* the client run loops, one for each process
    Ends,                   \* the ends of connections
    LoopOf,                 \* the run loop of an end
    Peer,                   \* the other end of its connection
    OnlyWhenProcessing,     \* ends with m_onlySendMessagesAsDispatchWhen...
    ExitOnFailure,          \* ends with m_shouldExitOnSyncMessageSendFailure
    MaxSent, MaxTotal,      \* bounds: messages an end sends, and all ends
    MayInvalidate,          \* ends the client may invalidate
    MayTimeOut,             \* ends whose synchronous sends have a timeout
    MayCrash,               \* run loops whose process may crash
    All                     \* a null allowedConnection

ASSUME EndsAssumption ==
    /\ LoopOf \in [Ends -> Loops]
    /\ Peer \in [Ends -> Ends]
    /\ \A e \in Ends : Peer[e] # e /\ Peer[Peer[e]] = e
    /\ OnlyWhenProcessing \subseteq Ends /\ ExitOnFailure \subseteq Ends
    /\ MaxSent \in [Ends -> Nat] /\ MaxTotal \in Nat
    /\ MayInvalidate \subseteq Ends /\ MayTimeOut \subseteq Ends /\ MayCrash \subseteq Loops
    /\ All \notin Ends

VARIABLES
    wire,           \* what is on its way to an end, ending in a hangup when closed
    incoming,       \* m_incomingMessages of an end
    replied,        \* the pending sync replies of an end that have arrived
    client,         \* isValid(): m_client is not null
    connected,      \* m_isConnected
    shouldWait,     \* m_shouldWaitForSyncReplies
    sent,           \* how many messages an end sent
    begun,          \* the messages to an end whose handlers were called
    tasks,          \* what is dispatched to a run loop
    stack,          \* the calls a run loop is in, the innermost last
    toDispatch,     \* m_messagesToDispatchWhileWaitingForSyncReply
    scheduled,      \* m_didScheduleDispatchMessagesWorkSet
    semaphore       \* m_waitForSyncReplySemaphore

endVars == <<wire, incoming, replied, client, connected, shouldWait, sent, begun>>
loopVars == <<tasks, stack, toDispatch, scheduled, semaphore>>
vars == <<endVars, loopVars>>

-----------------------------------------------------------------------------
\* Messages, frames of the stack and tasks.

Message(k, n, m) == [kind |-> k, n |-> n, marked |-> m]
Reply(n) == Message("reply", n, FALSE)
Hangup == Message("hangup", 0, FALSE)

\* dispatchMessage is calling the client.
Handler(e, m) == [at |-> "handler", end |-> e, msg |-> m]

\* dispatchMessages has rest to dispatch and will put back back.
Batch(rest, back) == [at |-> "batch", rest |-> rest, back |-> back]

\* A batch with nothing left to do is no longer on the stack.
Batches(rest, back) == IF rest \o back = <<>> THEN <<>> ELSE <<Batch(rest, back)>>

\* waitForSyncReply for request n, about to dispatch, check or sleep.
Wait(at, e, n) == [at |-> at, end |-> e, n |-> n]

Task(w, e) == [what |-> w, end |-> e]

Last(s) == s[Len(s)]
Front(s) == SubSeq(s, 1, Len(s) - 1)

WaitStates == {"dispatch", "check", "sleep"}
IsWait(f) == f.at \in WaitStates
EndsOf(l) == {e \in Ends : LoopOf[e] = l}
Frames(l) == Range(stack[l])

\* The requests m_pendingSyncReplies holds.
Pending(e) == {f.n : f \in {g \in Frames(LoopOf[e]) : IsWait(g) /\ g.end = e}}

\* The innermost call of l is of the client's, or there is none.
Running(l) == stack[l] # <<>> => Last(stack[l]).at = "handler"
Top(l, at) == stack[l] # <<>> /\ Last(stack[l]).at = at

Push(l, f) == [stack EXCEPT ![l] = Append(@, f)]
Pop(l) == [stack EXCEPT ![l] = Front(@)]
Become(l, f) == [stack EXCEPT ![l] = Append(Front(@), f)]

Init ==
    /\ wire = [e \in Ends |-> <<>>]
    /\ incoming = [e \in Ends |-> <<>>]
    /\ replied = [e \in Ends |-> {}]
    /\ client = [e \in Ends |-> TRUE]
    /\ connected = [e \in Ends |-> TRUE]
    /\ shouldWait = [e \in Ends |-> TRUE]
    /\ sent = [e \in Ends |-> 0]
    /\ begun = [e \in Ends |-> {}]
    /\ tasks = [l \in Loops |-> <<>>]
    /\ stack = [l \in Loops |-> <<>>]
    /\ toDispatch = [l \in Loops |-> <<>>]
    /\ scheduled = [l \in Loops |-> {}]
    /\ semaphore = [l \in Loops |-> FALSE]

-----------------------------------------------------------------------------
\* Sending.

\* Mutant: the flag keeps all messages unmarked.
MarkedIfUnflagged(e) == e \notin OnlyWhenProcessing

\* Whether e marks a message that asks for dispatch during synchronous waits.
Marked(e) ==
    e \in OnlyWhenProcessing =>
        \E f \in Frames(LoopOf[e]) : f.at = "handler" /\ f.end = e /\ f.msg.marked

\* sendMessage and sendOutgoingMessages.  Nothing reaches an end that is closed.
Post(e, m) ==
    wire' = IF connected[e] /\ connected[Peer[e]]
            THEN [wire EXCEPT ![Peer[e]] = Append(@, m)]
            ELSE wire

NextNumber(e) == sent[e] + 1
MaySend(e) == sent[e] < MaxSent[e] /\ FoldFunction(+, 0, sent) < MaxTotal

\* The client sends an asynchronous message, asking or not asking for dispatch
\* while the other side waits.
SendMessage(l, e, evenWhenWaiting) ==
    /\ Running(l) /\ client[e] /\ MaySend(e)
    /\ Post(e, Message("async", NextNumber(e), evenWhenWaiting /\ Marked(e)))
    /\ sent' = [sent EXCEPT ![e] = @ + 1]
    /\ UNCHANGED <<incoming, replied, client, connected, shouldWait, begun, loopVars>>

\* The process ends: every connection is closed, perhaps with the last messages
\* still unsent.
Exit(l) ==
    /\ \E keep \in [EndsOf(l) -> 0..Max({Len(wire[e]) : e \in Ends})] :
        /\ \A e \in EndsOf(l) : keep[e] <= Len(wire[Peer[e]])
        /\ wire' = [e \in Ends |->
              IF LoopOf[e] = l THEN <<>>
              ELSE IF LoopOf[Peer[e]] = l /\ connected[Peer[e]] /\ connected[e]
              THEN Append(SubSeq(wire[e], 1, keep[Peer[e]]), Hangup)
              ELSE wire[e]]
    /\ incoming' = [e \in Ends |-> IF LoopOf[e] = l THEN <<>> ELSE incoming[e]]
    /\ replied' = [e \in Ends |-> IF LoopOf[e] = l THEN {} ELSE replied[e]]
    /\ client' = [e \in Ends |-> client[e] /\ LoopOf[e] # l]
    /\ connected' = [e \in Ends |-> connected[e] /\ LoopOf[e] # l]
    /\ tasks' = [tasks EXCEPT ![l] = <<>>]
    /\ stack' = [stack EXCEPT ![l] = <<>>]
    /\ toDispatch' = [toDispatch EXCEPT ![l] = <<>>]
    /\ scheduled' = [scheduled EXCEPT ![l] = {}]
    /\ semaphore' = [semaphore EXCEPT ![l] = FALSE]
    /\ UNCHANGED <<shouldWait, sent, begun>>

\* sendSyncMessage up to the wait.
SendSyncMessage(l, e) ==
    /\ Running(l) /\ client[e] /\ shouldWait[e] /\ MaySend(e)
    /\ Post(e, Message("sync", NextNumber(e), Marked(e)))
    /\ sent' = [sent EXCEPT ![e] = @ + 1]
    /\ stack' = Push(l, Wait("dispatch", e, NextNumber(e)))
    /\ UNCHANGED <<incoming, replied, client, connected, shouldWait, begun>>
    /\ UNCHANGED <<tasks, toDispatch, scheduled, semaphore>>

\* A synchronous send over an end that is closed; of any other end it only
\* returns null.
SendSyncFails(l, e) ==
    /\ Running(l) /\ ~(client[e] /\ shouldWait[e]) /\ e \in ExitOnFailure
    /\ Exit(l)

-----------------------------------------------------------------------------
\* Closing.

\* Connection::invalidate, called by the client.
Invalidate(l, e) ==
    /\ e \in MayInvalidate /\ Running(l) /\ client[e]
    /\ client' = [client EXCEPT ![e] = FALSE]
    /\ UNCHANGED <<wire, incoming, replied, connected, shouldWait, sent, begun, loopVars>>

\* The platformInvalidate that invalidate dispatched to the connection queue.  The
\* other side is told of the hangup perhaps before it has read everything.
PlatformInvalidate(e) ==
    /\ ~client[e] /\ connected[e]
    /\ connected' = [connected EXCEPT ![e] = FALSE]
    /\ \E k \in 0..Len(wire[Peer[e]]) :
        wire' = [wire EXCEPT ![e] = <<>>,
                    ![Peer[e]] = IF connected[Peer[e]] THEN Append(SubSeq(@, 1, k), Hangup) ELSE <<>>]
    /\ UNCHANGED <<incoming, replied, client, shouldWait, sent, begun, loopVars>>

\* The process of l crashes.
Crash(l) ==
    /\ l \in MayCrash /\ \E e \in EndsOf(l) : connected[e]
    /\ Exit(l)

-----------------------------------------------------------------------------
\* The connection queue of an end: one action for each kind of message read.

Reads(e, kinds) == connected[e] /\ wire[e] # <<>> /\ Head(wire[e]).kind \in kinds
Dispatch(l, t) == [tasks EXCEPT ![l] = Append(@, t)]
Signal(l) == [semaphore EXCEPT ![l] = TRUE]

\* processIncomingSyncReply.  Only the reply to the innermost request wakes the
\* run loop, and a reply to a request that timed out is dropped.
ProcessIncomingSyncReply(e) ==
    LET l == LoopOf[e]
        n == Head(wire[e]).n
    IN /\ Reads(e, {"reply"})
       /\ wire' = [wire EXCEPT ![e] = Tail(@)]
       /\ replied' = [replied EXCEPT ![e] = @ \cup ({n} \cap Pending(e))]
       /\ semaphore' = IF n \in Pending(e) /\ n = Max(Pending(e)) THEN Signal(l) ELSE semaphore
       /\ UNCHANGED <<incoming, client, connected, shouldWait, sent, begun>>
       /\ UNCHANGED <<tasks, stack, toDispatch, scheduled>>

\* Mutant: nothing is scheduled for a run loop that is in a synchronous send.
ScheduleUnlessWaiting(e) ==
    LET l == LoopOf[e]
        waiting == \E f \in Frames(l) : IsWait(f)
    IN /\ Reads(e, {"async", "sync"}) /\ Head(wire[e]).marked
       /\ wire' = [wire EXCEPT ![e] = Tail(@)]
       /\ toDispatch' = [toDispatch EXCEPT ![l] = Append(@, [end |-> e, msg |-> Head(wire[e])])]
       /\ scheduled' = IF waiting THEN scheduled ELSE [scheduled EXCEPT ![l] = @ \cup {e}]
       /\ tasks' = IF waiting \/ e \in scheduled[l] THEN tasks ELSE Dispatch(l, Task("marked", e))
       /\ semaphore' = Signal(l)
       /\ UNCHANGED <<incoming, replied, client, connected, shouldWait, sent, begun, stack>>

\* processIncomingMessage of a marked message: SyncMessageState takes it.
ProcessIncomingMarked(e) ==
    LET l == LoopOf[e]
    IN /\ Reads(e, {"async", "sync"}) /\ Head(wire[e]).marked
       /\ wire' = [wire EXCEPT ![e] = Tail(@)]
       /\ toDispatch' = [toDispatch EXCEPT ![l] = Append(@, [end |-> e, msg |-> Head(wire[e])])]
       /\ scheduled' = [scheduled EXCEPT ![l] = @ \cup {e}]
       /\ tasks' = IF e \in scheduled[l] THEN tasks ELSE Dispatch(l, Task("marked", e))
       /\ semaphore' = Signal(l)
       /\ UNCHANGED <<incoming, replied, client, connected, shouldWait, sent, begun, stack>>

\* processIncomingMessage of any other message: enqueueIncomingMessage.
ProcessIncomingMessage(e) ==
    LET l == LoopOf[e]
    IN /\ Reads(e, {"async", "sync"}) /\ ~Head(wire[e]).marked
       /\ wire' = [wire EXCEPT ![e] = Tail(@)]
       /\ incoming' = [incoming EXCEPT ![e] = Append(@, Head(wire[e]))]
       /\ tasks' = Dispatch(l, Task("one", e))
       /\ UNCHANGED <<replied, client, connected, shouldWait, sent, begun>>
       /\ UNCHANGED <<stack, toDispatch, scheduled, semaphore>>

\* Mutant: a close does not wake the run loop.
CloseUnsignalled(e) ==
    /\ Reads(e, {"hangup"})
    /\ wire' = [wire EXCEPT ![e] = <<>>]
    /\ connected' = [connected EXCEPT ![e] = FALSE]
    /\ shouldWait' = [shouldWait EXCEPT ![e] = FALSE]
    /\ tasks' = Dispatch(LoopOf[e], Task("didClose", e))
    /\ UNCHANGED <<incoming, replied, client, sent, begun>>
    /\ UNCHANGED <<stack, toDispatch, scheduled, semaphore>>

\* connectionDidClose.
ConnectionDidClose(e) ==
    LET l == LoopOf[e]
    IN /\ Reads(e, {"hangup"})
       /\ wire' = [wire EXCEPT ![e] = <<>>]
       /\ connected' = [connected EXCEPT ![e] = FALSE]
       /\ shouldWait' = [shouldWait EXCEPT ![e] = FALSE]
       /\ semaphore' = IF Pending(e) # {} THEN Signal(l) ELSE semaphore
       /\ tasks' = Dispatch(l, Task("didClose", e))
       /\ UNCHANGED <<incoming, replied, client, sent, begun>>
       /\ UNCHANGED <<stack, toDispatch, scheduled>>

-----------------------------------------------------------------------------
\* The client run loop: the tasks it runs when it is in no call.

Runs(l, what) == stack[l] = <<>> /\ tasks[l] # <<>> /\ Head(tasks[l]).what = what
Ran(l) == [tasks EXCEPT ![l] = Tail(@)]

\* dispatchMessage up to the call of the client, from the call base is the stack of.
DispatchMessage(l, base, e, m) ==
    /\ stack' = [stack EXCEPT ![l] = IF client[e] THEN Append(base, Handler(e, m)) ELSE base]
    /\ begun' = IF client[e] THEN [begun EXCEPT ![e] = @ \cup {m.n}] ELSE begun

\* dispatchOneMessage.
DispatchOneMessage(l) ==
    LET e == Head(tasks[l]).end
    IN /\ Runs(l, "one")
       /\ IF incoming[e] = <<>>
          THEN UNCHANGED <<incoming, stack, begun>>
          ELSE /\ incoming' = [incoming EXCEPT ![e] = Tail(@)]
               /\ DispatchMessage(l, <<>>, e, Head(incoming[e]))
       /\ tasks' = Ran(l)
       /\ UNCHANGED <<wire, replied, client, connected, shouldWait, sent>>
       /\ UNCHANGED <<toDispatch, scheduled, semaphore>>

\* The call of dispatchMessages from the call base is the stack of: all queued messages
\* are taken, those of other connections than allowed to be put back in the end.
DispatchMessages(l, base, allowed) ==
    LET batch == IF allowed = All THEN Batches(toDispatch[l], <<>>)
                 ELSE Batches(SelectSeq(toDispatch[l], LAMBDA c : c.end = allowed),
                              SelectSeq(toDispatch[l], LAMBDA c : c.end # allowed))
    IN /\ stack' = [stack EXCEPT ![l] = base \o batch]
       /\ toDispatch' = [toDispatch EXCEPT ![l] = <<>>]

\* Mutant: the task does not forget that it was scheduled.
DispatchMarkedOnce(l) ==
    /\ Runs(l, "marked")
    /\ DispatchMessages(l, <<>>, Head(tasks[l]).end)
    /\ tasks' = Ran(l)
    /\ UNCHANGED <<endVars, scheduled, semaphore>>

\* dispatchMessageAndResetDidScheduleDispatchMessagesForConnection.
DispatchMarked(l) ==
    /\ Runs(l, "marked")
    /\ scheduled' = [scheduled EXCEPT ![l] = @ \ {Head(tasks[l]).end}]
    /\ DispatchMessages(l, <<>>, Head(tasks[l]).end)
    /\ tasks' = Ran(l)
    /\ UNCHANGED <<endVars, semaphore>>

\* The task of connectionDidClose.
DispatchDidClose(l) ==
    /\ Runs(l, "didClose")
    /\ client' = [client EXCEPT ![Head(tasks[l]).end] = FALSE]
    /\ tasks' = Ran(l)
    /\ UNCHANGED <<wire, incoming, replied, connected, shouldWait, sent, begun>>
    /\ UNCHANGED <<stack, toDispatch, scheduled, semaphore>>

-----------------------------------------------------------------------------
\* dispatchMessages after the swap, one message at a time.

DispatchNext(l) ==
    LET f == Last(stack[l])
        c == Head(f.rest)
    IN /\ Top(l, "batch") /\ f.rest # <<>>
       /\ DispatchMessage(l, Front(stack[l]) \o Batches(Tail(f.rest), f.back), c.end, c.msg)
       /\ UNCHANGED <<wire, incoming, replied, client, connected, shouldWait, sent>>
       /\ UNCHANGED <<tasks, toDispatch, scheduled, semaphore>>

PutBack(l) ==
    LET f == Last(stack[l])
    IN /\ Top(l, "batch") /\ f.rest = <<>>
       /\ toDispatch' = [toDispatch EXCEPT ![l] = @ \o f.back]
       /\ stack' = Pop(l)
       /\ UNCHANGED <<endVars, tasks, scheduled, semaphore>>

\* dispatchMessage after the client returned; a synchronous message is answered.
HandlerReturns(l) ==
    LET f == Last(stack[l])
    IN /\ Top(l, "handler")
       /\ IF f.msg.kind = "sync" /\ client[f.end]
          THEN Post(f.end, Reply(f.msg.n))
          ELSE UNCHANGED wire
       /\ stack' = Pop(l)
       /\ UNCHANGED <<incoming, replied, client, connected, shouldWait, sent, begun>>
       /\ UNCHANGED <<tasks, toDispatch, scheduled, semaphore>>

-----------------------------------------------------------------------------
\* waitForSyncReply and the end of sendSyncMessage.

EndSync(l, reply) ==
    LET f == Last(stack[l])
    IN IF ~reply /\ f.end \in ExitOnFailure
       THEN Exit(l)
       ELSE /\ replied' = [replied EXCEPT ![f.end] = @ \ {f.n}]
            /\ stack' = Pop(l)
            /\ UNCHANGED <<wire, incoming, client, connected, shouldWait, sent, begun>>
            /\ UNCHANGED <<tasks, toDispatch, scheduled, semaphore>>

WaitDispatches(l) ==
    LET f == Last(stack[l])
    IN /\ Top(l, "dispatch")
       /\ DispatchMessages(l, Append(Front(stack[l]), Wait("check", f.end, f.n)), All)
       /\ UNCHANGED <<endVars, tasks, scheduled, semaphore>>

\* Mutant: the wait does not look whether a handler invalidated the connection.
EndsIfReplied(f) == f.n \in replied[f.end] \/ ~shouldWait[f.end]

\* The conditions on which waitForSyncReply stops.
WaitIsOver(f) == f.n \in replied[f.end] \/ ~shouldWait[f.end] \/ ~client[f.end]

WaitEnds(l) ==
    LET f == Last(stack[l])
    IN Top(l, "check") /\ WaitIsOver(f) /\ EndSync(l, f.n \in replied[f.end])

WaitSleeps(l) ==
    LET f == Last(stack[l])
    IN /\ Top(l, "check") /\ ~WaitIsOver(f)
       /\ stack' = Become(l, Wait("sleep", f.end, f.n))
       /\ UNCHANGED <<endVars, tasks, toDispatch, scheduled, semaphore>>

WaitWakes(l) ==
    LET f == Last(stack[l])
    IN /\ Top(l, "sleep") /\ semaphore[l]
       /\ semaphore' = [semaphore EXCEPT ![l] = FALSE]
       /\ stack' = Become(l, Wait("dispatch", f.end, f.n))
       /\ UNCHANGED <<endVars, tasks, toDispatch, scheduled>>

WaitTimesOut(l) ==
    /\ Top(l, "sleep") /\ Last(stack[l]).end \in MayTimeOut
    /\ EndSync(l, FALSE)

-----------------------------------------------------------------------------
Queue(e) ==
    \/ PlatformInvalidate(e)
    \/ ProcessIncomingSyncReply(e)
    \/ ProcessIncomingMarked(e)
    \/ ProcessIncomingMessage(e)
    \/ ConnectionDidClose(e)

Loop(l) ==
    \/ DispatchOneMessage(l) \/ DispatchMarked(l) \/ DispatchDidClose(l)
    \/ DispatchNext(l) \/ PutBack(l)
    \/ HandlerReturns(l)
    \/ WaitDispatches(l) \/ WaitEnds(l) \/ WaitSleeps(l) \/ WaitWakes(l)

Client(l) ==
    \E e \in EndsOf(l) :
        \/ \E evenWhenWaiting \in BOOLEAN : SendMessage(l, e, evenWhenWaiting)
        \/ SendSyncMessage(l, e)
        \/ SendSyncFails(l, e)
        \/ Invalidate(l, e)

Next ==
    \/ \E e \in Ends : Queue(e)
    \/ \E l \in Loops : Loop(l) \/ Client(l) \/ WaitTimesOut(l) \/ Crash(l)

Spec == Init /\ [][Next]_vars

\* As long as a connection queue or a run loop has something to do, one of them does
\* it; handlers return.  Nobody has to send, close or time out.
FairSpec == Spec /\ WF_vars((\E e \in Ends : Queue(e)) \/ (\E l \in Loops : Loop(l)))

-----------------------------------------------------------------------------
Asyncs(e) == [kind : {"async", "sync"}, n : 1..sent[Peer[e]], marked : BOOLEAN]
Queued(l) == UNION {[end : {e}, msg : Asyncs(e)] : e \in EndsOf(l)}

\* The shape of the state: every message queued at an end was sent to it, and only
\* replies to requests that are still pending are kept.
TypeOK ==
    /\ \A e \in Ends :
        /\ Range(wire[e]) \subseteq Asyncs(e) \cup {Reply(n) : n \in 1..sent[e]} \cup {Hangup}
        /\ Range(incoming[e]) \subseteq Asyncs(e)
        /\ replied[e] \subseteq Pending(e)
        /\ {client[e], connected[e], shouldWait[e]} \subseteq BOOLEAN
        /\ sent[e] \in 0..MaxSent[e]
        /\ begun[e] \subseteq 1..sent[Peer[e]]
    /\ \A l \in Loops :
        /\ Range(tasks[l]) \subseteq [what : {"one", "marked", "didClose"}, end : EndsOf(l)]
        /\ \A f \in Frames(l) :
            \/ f.at = "handler" /\ f.end \in EndsOf(l) /\ f.msg \in Asyncs(f.end)
            \/ f.at = "batch" /\ Range(f.rest \o f.back) \subseteq Queued(l)
            \/ IsWait(f) /\ f.end \in EndsOf(l) /\ f.n \in 1..sent[f.end]
        /\ Range(toDispatch[l]) \subseteq Queued(l)
        /\ scheduled[l] \subseteq EndsOf(l)
        /\ semaphore[l] \in BOOLEAN

\* No message is stranded: what waits in m_incomingMessages has a dispatchOneMessage
\* each, and what waits in the SyncMessageState, or will be put back there, has a task
\* that dispatches it should no synchronous send do so before.
MessagesHaveTasks ==
    \A e \in Ends :
        LET l == LoopOf[e]
            aside == UNION {Range(f.back) : f \in {g \in Frames(l) : g.at = "batch"}}
        IN /\ Len(incoming[e]) = Len(SelectSeq(tasks[l], LAMBDA t : t = Task("one", e)))
           /\ (\E c \in Range(toDispatch[l]) \cup aside : c.end = e) => Task("marked", e) \in Range(tasks[l])

\* A message that is not marked for dispatch during synchronous waits never overtakes
\* another, marked or not: WebProcess::initializeConnection relies on this for policy
\* messages to come after the messages about their frames.
UnmarkedInOrder ==
    \A l \in Loops : \A f \in Frames(l) :
        f.at = "handler" /\ ~f.msg.marked => 1..(f.msg.n - 1) \subseteq begun[f.end]

\* Asleep in a synchronous send over e, with nothing on its way that could end it.
StuckOn(e) ==
    LET l == LoopOf[e]
    IN Top(l, "sleep") /\ Last(stack[l]).end = e /\ ~semaphore[l] /\ wire[e] = <<>>

\* Two processes never wait for each other's reply: one of them dispatches the
\* message of the other while it waits (the comment in processIncomingMessage).
NoSyncDeadlock == \A e \in Ends : ~(StuckOn(e) /\ StuckOn(Peer[e]))

\* No wake-up is lost: a run loop that sleeps unsignalled in a synchronous send has no
\* message to dispatch, its reply has not arrived and its connection is open.
NoLostWakeUp ==
    \A l \in Loops : Top(l, "sleep") /\ ~semaphore[l] =>
        toDispatch[l] = <<>> /\ ~WaitIsOver(Last(stack[l]))

\* Every synchronous send returns, be it answered, closed by either side or nested in
\* others: sends being bounded, a time comes when sendSyncMessage is on no stack.
InSendSync == \E l \in Loops : \E f \in Frames(l) : IsWait(f)
SyncSendsReturn == InSendSync ~> ~InSendSync
=============================================================================
