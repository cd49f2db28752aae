----------------------------- MODULE SharedLock -----------------------------
(***************************************************************************)
(* One Shared<T> cell (crates/runtime/src/shared.rs): the logical lock,    *)
(* its FIFO queue of tickets, and the lock futures that tasks await.       *)
(*                                                                         *)
(* A poll of a lock future holds the cell's mutex for its one decision     *)
(* (advance), so it is one step; a release clears the flag under the mutex *)
(* and wakes the head after it, which are two steps.  Executor tasks are   *)
(* ideal here: a task that is woken is polled (TaskExec has the details).  *)
(***************************************************************************)
EXTENDS Integers, Sequences, FiniteSets

CONSTANTS Tasks,
          PerTask,        \* lock futures each task may create
          TimeoutTasks,   \* tasks that wrap their lock futures in timeout()
          CancelTasks,    \* tasks whose handle may be cancelled
          MaxTicket,      \* bound on the tickets issued
          NoFut           \* the task awaits something else

Own(t)      == {t} \X (1 .. PerTask[t])
LockFutures == UNION {Own(t) : t \in Tasks}

ASSUME SharedAssumption ==
    /\ PerTask \in [Tasks -> Nat \ {0}] /\ MaxTicket \in Nat
    /\ TimeoutTasks \subseteq Tasks /\ CancelTasks \subseteq Tasks
    /\ NoFut \notin LockFutures

VARIABLES
    locked,      \* State.locked
    queue,       \* State.queue: the waker's task and its ticket
    nextTicket,  \* State.next_ticket
    st,          \* the lock future's state word, "done" once it is Ready
    ticket,      \* its ticket word
    held,        \* entries for this cell in each task's held-lock set
    cur,         \* the lock future a task awaits
    alive,       \* tasks whose executor waker is live
    woken,       \* tasks that will be polled
    calls,       \* tasks whose waker a releaser is about to call
    clean        \* history: nobody was cancelled or gave up on a lock future yet

vars == <<locked, queue, nextTicket, st, ticket, held, cur, alive, woken, calls, clean>>

Init ==
    /\ locked = FALSE
    /\ queue = <<>>
    /\ nextTicket = 1
    /\ st = [f \in LockFutures |-> "init"]
    /\ ticket = [f \in LockFutures |-> 0]
    /\ held = [t \in Tasks |-> 0]
    /\ cur = [t \in Tasks |-> NoFut]
    /\ alive = Tasks
    /\ woken = Tasks
    /\ calls = {}
    /\ clean = TRUE

-----------------------------------------------------------------------------
(* Queue helpers.                                                          *)

\* prune_dead_front: drop the entries of dead tasks up to the first live one.
Pruned(q, live) ==
    LET n == CHOOSE i \in 0 .. Len(q) :
                /\ \A j \in 1 .. i : q[j].task \notin live
                /\ i < Len(q) => q[i + 1].task \in live
    IN  SubSeq(q, n + 1, Len(q))

\* remove_duplicate_task_waiters, for the live task that is polling; a queue
\* without one is left as it is.
WithoutTask(q, t) ==
    IF \A i \in DOMAIN q : q[i].task # t THEN q
    ELSE SelectSeq(q, LAMBDA e : e.task # t)

HasTicket(q, n) == \E i \in DOMAIN q : q[i].ticket = n

\* Take the lock and enter the body: held_push(id), run_body.
Acquire(t, q) ==
    /\ locked' = TRUE
    /\ queue' = q
    /\ held' = [held EXCEPT ![t] = @ + 1]
    /\ st' = [st EXCEPT ![cur[t]] = "running"]
    /\ UNCHANGED <<nextTicket, ticket, cur, alive, woken, calls, clean>>

\* The poll returns Pending: the task suspends or, when it awaits the future
\* through timeout() and the timer has fired, goes on without it.  Cancelling
\* the loser does nothing to a lock future (cancel_runtime_future).
Pending(t) ==
    \/ woken' = woken \ {t} /\ UNCHANGED <<cur, clean>>
    \/ /\ t \in TimeoutTasks
       /\ cur' = [cur EXCEPT ![t] = NoFut]
       /\ clean' = FALSE
       /\ UNCHANGED woken

\* Join the queue with a new ticket.
Enqueue(t, q) ==
    /\ nextTicket <= MaxTicket
    /\ queue' = Append(q, [task |-> t, ticket |-> nextTicket])
    /\ nextTicket' = nextTicket + 1
    /\ st' = [st EXCEPT ![cur[t]] = "queued"]
    /\ ticket' = [ticket EXCEPT ![cur[t]] = nextTicket]
    /\ Pending(t)
    /\ UNCHANGED <<locked, held, alive, calls>>

\* release_inner: clear the flag, prune, and call the head's waker.
ReleaseInner(live) ==
    LET q == Pruned(queue, live)
    IN  /\ locked' = FALSE
        /\ queue' = q
        /\ calls' = IF q = <<>> THEN calls ELSE calls \cup {Head(q).task}

-----------------------------------------------------------------------------
(* Polling a lock future: lock_poll and advance.                           *)

Polls(t, state) ==
    /\ t \in alive \cap woken
    /\ cur[t] # NoFut
    /\ st[cur[t]] = state

\* The task awaits one of its lock futures, a new one or one it gave up on.
Await(t, f) ==
    /\ t \in alive \cap woken
    /\ cur[t] = NoFut
    /\ f \in Own(t) /\ st[f] # "done"
    /\ cur' = [cur EXCEPT ![t] = f]
    /\ UNCHANGED <<locked, queue, nextTicket, st, ticket, held, alive, woken, calls, clean>>

\* Mutation: a fresh poll takes a free lock whoever is queued.
AdvanceInit_Barge(t) ==
    LET q == WithoutTask(Pruned(queue, alive), t)
    IN  /\ Polls(t, "init")
        /\ IF ~locked THEN Acquire(t, q) ELSE Enqueue(t, q)

\* advance on ST_INIT: a fresh poll takes the lock only if it is free and
\* nobody else's ticket is queued.
AdvanceInit(t) ==
    LET q  == Pruned(queue, alive)
        q2 == WithoutTask(q, t)
    IN  /\ Polls(t, "init")
        /\ IF ~locked /\ q2 = <<>> THEN Acquire(t, q2) ELSE Enqueue(t, q2)

\* Mutation: the head looks at the queue and not at the flag.
AdvanceQueued_IgnoreLocked(t) ==
    LET q == Pruned(queue, alive)
        n == ticket[cur[t]]
    IN  /\ Polls(t, "queued")
        /\ HasTicket(q, n)
        /\ IF Head(q).ticket = n
           THEN Acquire(t, Tail(q))
           ELSE /\ queue' = q
                /\ Pending(t)
                /\ UNCHANGED <<locked, nextTicket, st, ticket, held, alive, calls>>

\* advance on ST_QUEUED: the head takes a free lock, everybody else waits.
AdvanceQueued(t) ==
    LET q == Pruned(queue, alive)
        n == ticket[cur[t]]
    IN  /\ Polls(t, "queued")
        /\ HasTicket(q, n)
        /\ IF ~locked /\ Head(q).ticket = n
           THEN Acquire(t, Tail(q))
           ELSE /\ queue' = q
                /\ Pending(t)
                /\ UNCHANGED <<locked, nextTicket, st, ticket, held, alive, calls>>

\* advance on ST_QUEUED when the ticket is gone from the queue: take the lock
\* if it is free, or queue again.
AdvanceMissing(t) ==
    LET q == Pruned(queue, alive)
    IN  /\ Polls(t, "queued")
        /\ ~HasTicket(q, ticket[cur[t]])
        /\ IF ~locked THEN Acquire(t, q) ELSE Enqueue(t, WithoutTask(q, t))

\* try_lock: one attempt, LockBusy unless the lock is free and nobody queues.
TryLock(t) ==
    /\ Polls(t, "init")
    /\ IF ~locked /\ queue = <<>>
       THEN Acquire(t, queue)
       ELSE /\ st' = [st EXCEPT ![cur[t]] = "done"]
            /\ cur' = [cur EXCEPT ![t] = NoFut]
            /\ UNCHANGED <<locked, queue, nextTicket, ticket, held, alive, woken, calls, clean>>

\* The async body is polled, is Pending, and the timer around it has fired.
TimeoutBody(t) ==
    /\ t \in alive \cap TimeoutTasks
    /\ cur[t] # NoFut /\ st[cur[t]] = "running"
    /\ cur' = [cur EXCEPT ![t] = NoFut]
    /\ woken' = woken \cup {t}
    /\ clean' = FALSE
    /\ UNCHANGED <<locked, queue, nextTicket, st, ticket, held, alive, calls>>

\* Mutation: finish_locked pops the held set and forgets to wake the head.
FinishLocked_NoWake(t) ==
    /\ t \in alive
    /\ cur[t] # NoFut /\ st[cur[t]] = "running"
    /\ held' = [held EXCEPT ![t] = @ - 1]
    /\ st' = [st EXCEPT ![cur[t]] = "done"]
    /\ cur' = [cur EXCEPT ![t] = NoFut]
    /\ woken' = woken \cup {t}
    /\ locked' = FALSE
    /\ UNCHANGED <<queue, nextTicket, ticket, alive, calls, clean>>

\* The body is Ready: finish_locked pops the held set and releases.
FinishLocked(t) ==
    /\ t \in alive
    /\ cur[t] # NoFut /\ st[cur[t]] = "running"
    /\ held' = [held EXCEPT ![t] = @ - 1]
    /\ st' = [st EXCEPT ![cur[t]] = "done"]
    /\ cur' = [cur EXCEPT ![t] = NoFut]
    /\ woken' = woken \cup {t}
    /\ ReleaseInner(alive)
    /\ UNCHANGED <<nextTicket, ticket, alive, clean>>

-----------------------------------------------------------------------------
(* Wakes, and the ways a task ends.                                        *)

\* The releaser calls the waker it copied; a dead task ignores it.
CallWaker(t) ==
    /\ t \in calls
    /\ calls' = calls \ {t}
    /\ woken' = woken \cup ({t} \cap alive)
    /\ UNCHANGED <<locked, queue, nextTicket, st, ticket, held, cur, alive, clean>>

\* Another event of the task, a timer or a stale wake, has it polled.
StaleWake(t) ==
    /\ t \in alive \ woken
    /\ woken' = woken \cup {t}
    /\ UNCHANGED <<locked, queue, nextTicket, st, ticket, held, cur, alive, calls, clean>>

\* Everything a task holds is released, in one drain of its held set.
Drain(t, live) ==
    /\ held' = [held EXCEPT ![t] = 0]
    /\ IF held[t] > 0 THEN ReleaseInner(live) ELSE UNCHANGED <<locked, queue, calls>>

Die(t) ==
    /\ alive' = alive \ {t}
    /\ woken' = woken \ {t}
    /\ cur' = [cur EXCEPT ![t] = NoFut]

\* The task runs code of its own: a body under the lock, or none of its locks.
RunsCode(t) == IF cur[t] = NoFut THEN t \in woken ELSE st[cur[t]] = "running"

\* Mutation: the panic boundary does not drain the held set.
Panic_KeepLocks(t) ==
    /\ t \in alive
    /\ RunsCode(t)
    /\ Die(t)
    /\ UNCHANGED <<locked, queue, nextTicket, st, ticket, held, calls, clean>>

\* The task panics, in a body under the lock or outside: release_all at the
\* boundary, where its waker is still live, then the task is done.
Panic(t) ==
    /\ t \in alive
    /\ RunsCode(t)
    /\ Drain(t, alive)
    /\ Die(t)
    /\ UNCHANGED <<nextTicket, st, ticket, clean>>

\* The suspended task is cancelled: done first, then release_task_held.
CancelTask(t) ==
    /\ t \in alive \cap CancelTasks
    /\ Drain(t, alive \ {t})
    /\ Die(t)
    /\ clean' = FALSE
    /\ UNCHANGED <<nextTicket, st, ticket>>

\* The task returns.  Nothing is drained on this path (poll_task, Ok(value)).
EndTask(t) ==
    /\ t \in alive \cap woken
    /\ cur[t] = NoFut
    /\ Die(t)
    /\ UNCHANGED <<locked, queue, nextTicket, st, ticket, held, calls, clean>>

-----------------------------------------------------------------------------
Poll(t) == AdvanceInit(t) \/ AdvanceQueued(t) \/ AdvanceMissing(t) \/ TryLock(t)

Next ==
    \E t \in Tasks :
        \/ Poll(t) \/ FinishLocked(t) \/ TimeoutBody(t)
        \/ CallWaker(t) \/ StaleWake(t)
        \/ Panic(t) \/ CancelTask(t) \/ EndTask(t)
        \/ \E f \in LockFutures : Await(t, f)

Spec == Init /\ [][Next]_vars

\* Woken tasks are polled, wakers are called, bodies return.
Fairness ==
    \A t \in Tasks :
        WF_vars(Poll(t)) /\ WF_vars(FinishLocked(t)) /\ WF_vars(CallWaker(t))

FairSpec == Spec /\ Fairness

-----------------------------------------------------------------------------
(* Properties.                                                             *)

\* The cell and the lock futures have their types; a task has the cell in its
\* held set at most once (held_push / held_pop are balanced).
TypeOK ==
    /\ locked \in BOOLEAN
    /\ queue \in Seq([task : Tasks, ticket : 1 .. MaxTicket])
    /\ nextTicket \in 1 .. (MaxTicket + 1)
    /\ st \in [LockFutures -> {"init", "queued", "running", "done"}]
    /\ ticket \in [LockFutures -> 0 .. MaxTicket]
    /\ held \in [Tasks -> {0, 1}]
    /\ cur \in [Tasks -> LockFutures \cup {NoFut}]
    /\ alive \subseteq Tasks /\ woken \subseteq Tasks /\ calls \subseteq Tasks
    /\ clean \in BOOLEAN

Holders == {t \in Tasks : held[t] > 0}

\* The task awaits a lock future whose body runs.
InBody(t) == cur[t] # NoFut /\ st[cur[t]] = "running"

\* The flag and the held sets of all tasks agree: the lock is taken exactly
\* when one task has it in its held set, so a drain releases what that task took
\* and nothing else, and no two bodies run at once.
LockHeldByOne ==
    /\ locked => \E t \in Tasks : Holders = {t}
    /\ ~locked => Holders = {}
    /\ \A t \in alive : InBody(t) => held[t] = 1

\* What docs/20-concurrency.html:686-688 says of a body that panics or is given
\* up, and shared.rs:19-22 of every end: a task that is gone holds no lock.  It
\* does not hold (MCSharedLeak.cfg).
DeadHoldNothing == \A t \in Tasks \ alive : held[t] = 0

\* A waiter that will be served: a live task that awaits the queued future.
RealWaiter(e) ==
    /\ e.task \in alive
    /\ cur[e.task] # NoFut
    /\ st[cur[e.task]] = "queued" /\ ticket[cur[e.task]] = e.ticket

\* Until a task is cancelled or gives up on a lock future: when the lock is free,
\* the first waiter has been woken or its waker is being called, so the hand-off
\* is never left to chance.
HeadIsWoken ==
    clean /\ ~locked /\ queue # <<>> => Head(queue).task \in (alive \cap woken) \cup calls

\* Until then acquisition is fair: nobody takes the lock past a live waiter's
\* ticket.
NoBarging ==
    [][\A t \in Tasks :
          clean /\ held'[t] > held[t] =>
             \A i \in DOMAIN queue :
                 RealWaiter(queue[i]) /\ queue[i].task # t =>
                     /\ st[cur[t]] = "queued"
                     /\ ticket[cur[t]] < queue[i].ticket]_vars

Waits(t) == cur[t] # NoFut /\ st[cur[t]] = "queued"

\* Starvation freedom: a queued lock future gets the lock, or its task ends, or
\* somebody is cancelled or gives up.
QueuedIsServed == \A t \in Tasks : (clean /\ Waits(t)) ~> ~(clean /\ Waits(t))
=============================================================================
