------------------------------ MODULE Channel ------------------------------
(***************************************************************************)
(* One channel (crates/runtime/src/channels.rs): the unbounded queue, the  *)
(* parked receivers' wakers, the counted endpoints that close it, the GC   *)
(* roots that keep queued messages alive, and the recv futures.            *)
(*                                                                         *)
(* Every operation takes Channel.inner once, so it is one step up to the   *)
(* unlock; waking the drained waiters and building and unpinning a received *)
(* value come after the unlock and are steps of their own.  A task that is *)
(* woken is polled (TaskExec has the details).                             *)
(***************************************************************************)
EXTENDS Integers, Sequences, FiniteSets

CONSTANTS Msgs,           \* messages, each sent at most once
          ElemIsPtr,      \* the element type is managed (elem_is_ptr)
          Tasks,          \* tasks that receive
          PerTask,        \* recv futures a task may create
          TimeoutTasks,   \* tasks that wrap recv futures in timeout()
          CancelTasks,    \* tasks whose handle may be cancelled
          MaxEnds,        \* bound on the clones of an endpoint
          None            \* no future; no message

RecvFutures == Tasks \X (1 .. PerTask)
Own(t)      == {t} \X (1 .. PerTask)

ASSUME ChannelAssumption ==
    /\ ElemIsPtr \in BOOLEAN
    /\ PerTask \in Nat \ {0} /\ MaxEnds \in Nat \ {0}
    /\ TimeoutTasks \subseteq Tasks /\ CancelTasks \subseteq Tasks
    /\ None \notin RecvFutures \cup Msgs

VARIABLES
    queue, waiters, senders, receivers,   \* Inner; waiters as their tasks
    msgRoots,     \* extra roots held for each message
    dataRoots,    \* extra roots held for each recv future's data
    active,       \* active_recv_data
    registered,   \* futures whose registered_waiter word is set
    fut,          \* "new", "pending", "value" or "closed"
    cur,          \* the recv future a task awaits
    hand,         \* the message a poll has popped and not yet boxed
    alive, woken, calls,   \* live tasks, tasks to be polled, wakers to call
    sent,         \* history: the messages accepted, in order
    got,          \* history: the messages popped, in order
    unsent        \* messages nobody has tried to send

inner == <<queue, waiters, senders, receivers>>
sched == <<alive, woken, calls>>
vars  == <<queue, waiters, senders, receivers, msgRoots, dataRoots, active,
           registered, fut, cur, hand, alive, woken, calls, sent, got, unsent>>

\* lang_channel_new: one sender, one receiver.
Init ==
    /\ queue = <<>> /\ waiters = {} /\ senders = 1 /\ receivers = 1
    /\ msgRoots = [m \in Msgs |-> 0]
    /\ dataRoots = [f \in RecvFutures |-> 0]
    /\ active = {} /\ registered = {}
    /\ fut = [f \in RecvFutures |-> "new"]
    /\ cur = [t \in Tasks |-> None]
    /\ hand = [t \in Tasks |-> None]
    /\ alive = Tasks /\ woken = Tasks /\ calls = {}
    /\ sent = <<>> /\ got = <<>> /\ unsent = Msgs

\* drain_waiters: the live ones are woken after the unlock, all are forgotten.
DrainWaiters ==
    /\ waiters' = {}
    /\ calls' = calls \cup (waiters \cap alive)

-----------------------------------------------------------------------------
(* Endpoints and send.                                                     *)

SenderAcquire ==
    /\ senders \in 1 .. (MaxEnds - 1)
    /\ senders' = senders + 1
    /\ UNCHANGED <<queue, waiters, receivers, msgRoots, dataRoots, active,
                   registered, fut, cur, hand, sched, sent, got, unsent>>

\* Mutation: the last sender goes without waking the parked receivers.
SenderRelease_NoWake ==
    /\ senders > 0
    /\ senders' = senders - 1
    /\ UNCHANGED <<queue, waiters, receivers, msgRoots, dataRoots, active,
                   registered, fut, cur, hand, sched, sent, got, unsent>>

\* The last sender closes the channel for receiving and wakes every waiter.
SenderRelease ==
    /\ senders > 0
    /\ senders' = senders - 1
    /\ IF senders = 1 THEN DrainWaiters ELSE UNCHANGED <<waiters, calls>>
    /\ UNCHANGED <<queue, receivers, msgRoots, dataRoots, active, registered,
                   fut, cur, hand, alive, woken, sent, got, unsent>>

ReceiverAcquire ==
    /\ receivers \in 1 .. (MaxEnds - 1)
    /\ receivers' = receivers + 1
    /\ UNCHANGED <<queue, waiters, senders, msgRoots, dataRoots, active,
                   registered, fut, cur, hand, sched, sent, got, unsent>>

ReceiverRelease ==
    /\ receivers > 0
    /\ receivers' = receivers - 1
    /\ UNCHANGED <<queue, waiters, senders, msgRoots, dataRoots, active,
                   registered, fut, cur, hand, sched, sent, got, unsent>>

\* Mutation: a send wakes the waiters only until the first message is taken.
Send_WakeFirstOnly(m) ==
    /\ m \in unsent /\ senders > 0
    /\ unsent' = unsent \ {m}
    /\ receivers > 0
    /\ msgRoots' = [msgRoots EXCEPT ![m] = @ + 1]
    /\ queue' = Append(queue, m)
    /\ sent' = Append(sent, m)
    /\ IF got = <<>> THEN DrainWaiters ELSE UNCHANGED <<waiters, calls>>
    /\ UNCHANGED <<senders, receivers, dataRoots, active, registered, fut, cur,
                   hand, alive, woken, got>>

\* Mutation: a send pushes to the end that recv pops.
Send_PushFront(m) ==
    /\ m \in unsent /\ senders > 0
    /\ unsent' = unsent \ {m}
    /\ receivers > 0
    /\ msgRoots' = [msgRoots EXCEPT ![m] = @ + 1]
    /\ queue' = <<m>> \o queue
    /\ sent' = Append(sent, m)
    /\ DrainWaiters
    /\ UNCHANGED <<senders, receivers, dataRoots, active, registered, fut, cur,
                   hand, alive, woken, got>>

\* lang_chan_send: refused without a receiver; else pin, push, drain, all under
\* the lock.
Send(m) ==
    /\ m \in unsent /\ senders > 0
    /\ unsent' = unsent \ {m}
    /\ IF receivers = 0
       THEN UNCHANGED <<queue, waiters, msgRoots, calls, sent>>
       ELSE /\ msgRoots' = [msgRoots EXCEPT ![m] = @ + 1]
            /\ queue' = Append(queue, m)
            /\ sent' = Append(sent, m)
            /\ DrainWaiters
    /\ UNCHANGED <<senders, receivers, dataRoots, active, registered, fut, cur,
                   hand, alive, woken, got>>

-----------------------------------------------------------------------------
(* recv futures.                                                           *)

\* lang_chan_recv_future, awaited at once: its data is pinned and active.
RecvFuture(t, f) ==
    /\ t \in alive \cap woken /\ cur[t] = None
    /\ f \in Own(t) /\ fut[f] = "new"
    /\ receivers > 0
    /\ fut' = [fut EXCEPT ![f] = "pending"]
    /\ dataRoots' = [dataRoots EXCEPT ![f] = @ + 1]
    /\ active' = active \cup {f}
    /\ cur' = [cur EXCEPT ![t] = f]
    /\ UNCHANGED <<inner, msgRoots, registered, hand, sched, sent, got, unsent>>

\* finish_recv_data: the handoff root goes with the active entry.
FinishRecvData(f) ==
    /\ active' = active \ {f}
    /\ dataRoots' = [dataRoots EXCEPT ![f] = IF f \in active THEN @ - 1 ELSE @]

Polls(t) == t \in alive \cap woken /\ cur[t] # None /\ hand[t] = None

\* chan_recv_poll pops a message and leaves the lock with it.
RecvPop(t) ==
    /\ Polls(t) /\ queue # <<>>
    /\ hand' = [hand EXCEPT ![t] = Head(queue)]
    /\ queue' = Tail(queue)
    /\ got' = Append(got, Head(queue))
    /\ UNCHANGED <<waiters, senders, receivers, msgRoots, dataRoots, active,
                   registered, fut, cur, sched, sent, unsent>>

\* The value is in its traced box: unpin the future's data and the message.
RecvReady(t) ==
    /\ hand[t] # None
    /\ FinishRecvData(cur[t])
    /\ msgRoots' = IF ElemIsPtr THEN [msgRoots EXCEPT ![hand[t]] = @ - 1]
                                ELSE msgRoots
    /\ fut' = [fut EXCEPT ![cur[t]] = "value"]
    /\ cur' = [cur EXCEPT ![t] = None]
    /\ hand' = [hand EXCEPT ![t] = None]
    /\ UNCHANGED <<inner, registered, sched, sent, got, unsent>>

\* Drained and no sender is left: ChannelClosed.
RecvClosed(t) ==
    /\ Polls(t) /\ queue = <<>> /\ senders = 0
    /\ FinishRecvData(cur[t])
    /\ fut' = [fut EXCEPT ![cur[t]] = "closed"]
    /\ cur' = [cur EXCEPT ![t] = None]
    /\ UNCHANGED <<inner, msgRoots, registered, hand, sched, sent, got, unsent>>

\* Empty and open: register the waker under the same lock, suspend.
RecvPark(t) ==
    /\ Polls(t) /\ queue = <<>> /\ senders > 0
    /\ waiters' = (waiters \cap alive) \cup {t}
    /\ registered' = registered \cup {cur[t]}
    /\ woken' = woken \ {t}
    /\ UNCHANGED <<queue, senders, receivers, msgRoots, dataRoots, active, fut,
                   cur, hand, alive, calls, sent, got, unsent>>

\* cancel_recv_future: forget the waiter, release the handoff root once.
CancelRecvFuture(f) ==
    /\ waiters' = IF f \in registered THEN waiters \ {f[1]} ELSE waiters
    /\ registered' = registered \ {f}
    /\ FinishRecvData(f)

\* Mutation: a cancelled future releases its root whether it is active or not.
CancelAgain_Blind(t, f) ==
    /\ t \in alive \cap woken /\ cur[t] = None
    /\ f \in Own(t) /\ fut[f] # "new"
    /\ waiters' = IF f \in registered THEN waiters \ {t} ELSE waiters
    /\ registered' = registered \ {f}
    /\ active' = active \ {f}
    /\ dataRoots' = [dataRoots EXCEPT ![f] = @ - 1]
    /\ UNCHANGED <<queue, senders, receivers, msgRoots, fut, cur, hand, sched,
                   sent, got, unsent>>

\* .cancel() on a future the task no longer awaits; safe to repeat.
CancelAgain(t, f) ==
    /\ t \in alive \cap woken /\ cur[t] = None
    /\ f \in Own(t) /\ fut[f] # "new"
    /\ CancelRecvFuture(f)
    /\ UNCHANGED <<queue, senders, receivers, msgRoots, fut, cur, hand, sched,
                   sent, got, unsent>>

\* timeout() polled the future, found it Pending and its timer fired: the loser
\* is cancelled and the task goes on.
Timeout(t) ==
    /\ t \in alive \cap TimeoutTasks
    /\ cur[t] \in registered /\ hand[t] = None
    /\ CancelRecvFuture(cur[t])
    /\ cur' = [cur EXCEPT ![t] = None]
    /\ woken' = woken \cup {t}
    /\ UNCHANGED <<queue, senders, receivers, msgRoots, fut, hand, alive, calls,
                   sent, got, unsent>>

\* lang_chan_try_recv: pop and unpin, or null.
TryRecv(t) ==
    /\ t \in alive \cap woken /\ cur[t] = None
    /\ queue # <<>>
    /\ queue' = Tail(queue)
    /\ got' = Append(got, Head(queue))
    /\ msgRoots' = [msgRoots EXCEPT ![Head(queue)] = @ - 1]
    /\ UNCHANGED <<waiters, senders, receivers, dataRoots, active, registered,
                   fut, cur, hand, sched, sent, unsent>>

-----------------------------------------------------------------------------
(* Wakes, and tasks that are cancelled.                                    *)

\* A drained waker is called; a dead task ignores it.
CallWaker(t) ==
    /\ t \in calls
    /\ calls' = calls \ {t}
    /\ woken' = woken \cup ({t} \cap alive)
    /\ UNCHANGED <<inner, msgRoots, dataRoots, active, registered, fut, cur,
                   hand, alive, sent, got, unsent>>

\* Another event of the task, a timer or a stale wake, has it polled.
StaleWake(t) ==
    /\ t \in alive \ woken
    /\ woken' = woken \cup {t}
    /\ UNCHANGED <<inner, msgRoots, dataRoots, active, registered, fut, cur,
                   hand, alive, calls, sent, got, unsent>>

\* The suspended task is cancelled.  The generated cleanup hook releases its
\* endpoints (SenderRelease, ReceiverRelease) and does not reach the recv future.
CancelTask(t) ==
    /\ t \in (alive \cap CancelTasks) \ woken
    /\ alive' = alive \ {t}
    /\ UNCHANGED <<inner, msgRoots, dataRoots, active, registered, fut, cur,
                   hand, woken, calls, sent, got, unsent>>

-----------------------------------------------------------------------------
Recv(t) == RecvPop(t) \/ RecvReady(t) \/ RecvClosed(t) \/ RecvPark(t)

Next ==
    \/ SenderAcquire \/ SenderRelease \/ ReceiverAcquire \/ ReceiverRelease
    \/ \E m \in Msgs : Send(m)
    \/ \E t \in Tasks :
         \/ Recv(t) \/ Timeout(t) \/ TryRecv(t)
         \/ CallWaker(t) \/ StaleWake(t) \/ CancelTask(t)
         \/ \E f \in RecvFutures : RecvFuture(t, f) \/ CancelAgain(t, f)

Spec == Init /\ [][Next]_vars

\* Woken tasks are polled and drained wakers are called.
Fairness == \A t \in Tasks : WF_vars(Recv(t)) /\ WF_vars(CallWaker(t))

FairSpec == Spec /\ Fairness

-----------------------------------------------------------------------------
(* Properties.                                                             *)

\* The channel, the recv futures and the histories have their types: endpoint
\* counts stay in range and no root is taken twice or dropped twice.
TypeOK ==
    /\ queue \in Seq(Msgs) /\ waiters \subseteq Tasks
    /\ senders \in 0 .. MaxEnds /\ receivers \in 0 .. MaxEnds
    /\ msgRoots \in [Msgs -> {0, 1}]
    /\ dataRoots \in [RecvFutures -> {0, 1}]
    /\ active \subseteq RecvFutures /\ registered \subseteq RecvFutures
    /\ fut \in [RecvFutures -> {"new", "pending", "value", "closed"}]
    /\ cur \in [Tasks -> RecvFutures \cup {None}]
    /\ hand \in [Tasks -> Msgs \cup {None}]
    /\ alive \subseteq Tasks /\ woken \subseteq Tasks /\ calls \subseteq Tasks
    /\ sent \in Seq(Msgs) /\ got \in Seq(Msgs) /\ unsent \subseteq Msgs

InTransit == {queue[i] : i \in DOMAIN queue} \cup ({hand[t] : t \in Tasks} \ {None})

\* Each message is pinned on send and unpinned once a recv has moved it into a
\* traced slot: it has one root from the push until it is boxed, and none before
\* or after.  The data of a recv future is rooted exactly while it is active.
RootsMatch ==
    /\ \A m \in Msgs : msgRoots[m] = IF m \in InTransit THEN 1 ELSE 0
    /\ \A f \in RecvFutures : dataRoots[f] = IF f \in active THEN 1 ELSE 0

\* Messages are received in the order they were accepted, none twice, none
\* lost, however recv, try_recv, timeouts and cancellations interleave.
FifoDelivery == sent = got \o queue

Waiting(t) == t \in alive /\ cur[t] # None /\ fut[cur[t]] = "pending"

\* No lost wake-up: a receiver that waits while there is something to report, a
\* message or the close, is going to be polled.
NoLostWake ==
    \A t \in Tasks :
        Waiting(t) /\ (queue # <<>> \/ senders = 0) => t \in woken \cup calls

\* Once the last sender is gone no live receiver waits for ever.
CloseReachesWaiters == (senders = 0) ~> \A t \in Tasks : ~Waiting(t)
=============================================================================
