----------------------------- MODULE WorkerPool -----------------------------
(***************************************************************************)
(* The worker pool of the M:N executor (crates/runtime/src/threads.rs):    *)
(* one run queue per worker, the global injector, stealing, and the        *)
(* protocol by which an idle worker goes to sleep on the injector's        *)
(* condition variable and a submitting thread wakes it.                    *)
(*                                                                         *)
(* A queue operation holds one queue mutex and nothing else, so it is one  *)
(* step.  The sleep_epoch mutex is held across a whole definitive scan, so *)
(* it is a variable.  The 64-bit epoch is kept as the set of sleeping      *)
(* workers whose observed value it has left, and the sleepers counter as   *)
(* the set of workers that have incremented it.                            *)
(***************************************************************************)
EXTENDS Integers, Sequences, FiniteSets

CONSTANTS NumWorkers,   \* executor_worker_count()
          Externals,    \* threads outside the pool that spawn or wake tasks
          Copies,       \* runnable task copies; bounds the submissions
          NoOne         \* the sleep_epoch mutex is free

Workers  == 0 .. (NumWorkers - 1)
Injector == NumWorkers                  \* the index of the injector's queue
Queues   == 0 .. NumWorkers
Threads  == Workers \cup Externals

ASSUME PoolAssumption ==
    /\ NumWorkers \in Nat \ {0}
    /\ Workers \cap Externals = {}
    /\ NoOne \notin Workers

VARIABLES
    ready,        \* EXEC_READY
    queue,        \* Worker.queue of every worker, and Injector.queue
    next,         \* Executor.next, modulo the number of workers
    pc,           \* where each worker is in worker_loop / wait_for_task
    pos,          \* the next queue a scanning worker looks at
    current,      \* the copy a worker is polling
    epochLock,    \* the worker holding Injector.sleep_epoch across its scan
    sleepers,     \* the workers counted in Injector.sleepers
    moved,        \* sleeping workers whose observed epoch is out of date
    stage,        \* a submitting thread's progress through wake_one_sleeper
    fresh         \* copies not yet submitted

vars == <<ready, queue, next, pc, pos, current, epochLock, sleepers, moved,
          stage, fresh>>

LastPos == NumWorkers + 1

\* The queue a worker looks at in its i-th probe: its own, the injector, then
\* the siblings (id + offset) % workers.len() for offset = 1, 2, ...
QueueAt(w, i) ==
    CASE i = 1 -> w
      [] i = 2 -> Injector
      [] OTHER -> LET v == w + (i - 2)
                  IN  IF v < NumWorkers THEN v ELSE v - NumWorkers

\* The owner and the injector's clients pop the front; a thief pops the back.
Popped(w, i) ==
    LET q == queue[QueueAt(w, i)]
    IN  IF i <= 2 THEN Head(q) ELSE q[Len(q)]

\* Mutation: a thief reads the back of the victim's queue but removes the front.
Rest_StealFront(w, i) == Tail(queue[QueueAt(w, i)])

Rest(w, i) ==
    LET q == queue[QueueAt(w, i)]
    IN  IF i <= 2 THEN Tail(q) ELSE SubSeq(q, 1, Len(q) - 1)

Init ==
    /\ ready = FALSE
    /\ queue = [q \in Queues |-> <<>>]
    /\ next = 0
    /\ pc = [w \in Workers |-> "boot"]
    /\ pos = [w \in Workers |-> 1]
    /\ current = [w \in Workers |-> NoOne]
    /\ epochLock = NoOne
    /\ sleepers = {}
    /\ moved = {}
    /\ stage = [t \in Threads |-> "idle"]
    /\ fresh = Copies

-----------------------------------------------------------------------------
(* The submitting side: Executor::spawn, inject_marked, wake_one_sleeper.  *)

\* executor(): the first caller builds the pool, starts its threads and
\* publishes EXEC_READY.
ExecutorStart ==
    /\ ~ready
    /\ ready' = TRUE
    /\ UNCHANGED <<queue, next, pc, pos, current, epochLock, sleepers, moved,
                   stage, fresh>>

\* A thread may submit when it runs code of its own: an external thread at any
\* time, a worker while it polls a task.
CanSubmit(t) ==
    /\ ready
    /\ stage[t] = "idle"
    /\ t \in Workers => pc[t] = "run"

Push(t, c, q) ==
    /\ CanSubmit(t)
    /\ c \in fresh
    /\ fresh' = fresh \ {c}
    /\ queue' = [queue EXCEPT ![q] = Append(@, c)]
    /\ stage' = [stage EXCEPT ![t] = "load"]
    /\ UNCHANGED <<ready, pc, pos, current, epochLock, sleepers, moved>>

\* Executor::spawn: round robin over the workers' own queues.
Spawn(t, c) ==
    /\ Push(t, c, next)
    /\ next' = IF next + 1 = NumWorkers THEN 0 ELSE next + 1

\* Executor::inject_marked: the global injector.
InjectMarked(t, c) ==
    /\ Push(t, c, Injector)
    /\ UNCHANGED next

\* Mutation: a submitter wakes a sleeper only when every worker sleeps.
LoadSleepers_OnlyIfAllSleep(t) ==
    /\ stage[t] = "load"
    /\ stage' = [stage EXCEPT ![t] = IF sleepers # Workers THEN "idle" ELSE "bump"]
    /\ UNCHANGED <<ready, queue, next, pc, pos, current, epochLock, sleepers,
                   moved, fresh>>

\* wake_one_sleeper, first half: no sleeper is counted, so nobody is woken.
LoadSleepers(t) ==
    /\ stage[t] = "load"
    /\ stage' = [stage EXCEPT ![t] = IF sleepers = {} THEN "idle" ELSE "bump"]
    /\ UNCHANGED <<ready, queue, next, pc, pos, current, epochLock, sleepers,
                   moved, fresh>>

InWaitSet == {w \in Workers : pc[w] = "waiting"}

\* wake_one_sleeper, second half: under sleep_epoch, advance the epoch and
\* notify one waiter of the condition variable, if there is one.
BumpEpoch(t) ==
    /\ stage[t] = "bump"
    /\ epochLock = NoOne
    /\ stage' = [stage EXCEPT ![t] = "idle"]
    /\ moved' = moved \cup {w \in Workers : pc[w] \in {"waiting", "woken"}}
    /\ \/ InWaitSet = {} /\ UNCHANGED pc
       \/ \E w \in InWaitSet : pc' = [pc EXCEPT ![w] = "woken"]
    /\ UNCHANGED <<ready, queue, next, pos, current, epochLock, sleepers, fresh>>

-----------------------------------------------------------------------------
(* The worker side: worker_loop, wait_for_task, pop_task.                  *)

\* worker_loop spins until EXEC_READY is set, then enters wait_for_task.
WorkerReady(w) ==
    /\ pc[w] = "boot"
    /\ ready
    /\ pc' = [pc EXCEPT ![w] = "scan"]
    /\ UNCHANGED <<ready, queue, next, pos, current, epochLock, sleepers,
                   moved, stage, fresh>>

\* The worker leaves a scan with the copy it found and polls it.
TakeFrom(w) ==
    LET q == QueueAt(w, pos[w])
    IN  /\ queue[q] # <<>>
        /\ queue' = [queue EXCEPT ![q] = Rest(w, pos[w])]
        /\ current' = [current EXCEPT ![w] = Popped(w, pos[w])]
        /\ pos' = [pos EXCEPT ![w] = 1]
        /\ pc' = [pc EXCEPT ![w] = "run"]

\* pop_task finds work in the queue it probes.
PopTask(w) ==
    /\ pc[w] = "scan"
    /\ TakeFrom(w)
    /\ UNCHANGED <<ready, next, epochLock, sleepers, moved, stage, fresh>>

\* pop_task passes a queue: it is empty, or try_lock found its mutex taken.
PopTaskSkip(w) ==
    /\ pc[w] = "scan"
    /\ IF pos[w] < LastPos
       THEN pos' = [pos EXCEPT ![w] = @ + 1] /\ UNCHANGED pc
       ELSE pos' = [pos EXCEPT ![w] = 1] /\ pc' = [pc EXCEPT ![w] = "lock"]
    /\ UNCHANGED <<ready, queue, next, current, epochLock, sleepers, moved,
                   stage, fresh>>

\* Mutation: wait_for_task goes to sleep without the definitive rescan.
LockEpoch_NoRescan(w) ==
    /\ pc[w] = "lock"
    /\ epochLock = NoOne
    /\ sleepers' = sleepers \cup {w}
    /\ moved' = moved \ {w}
    /\ pc' = [pc EXCEPT ![w] = "waiting"]
    /\ UNCHANGED <<ready, queue, next, pos, current, epochLock, stage, fresh>>

\* wait_for_task locks sleep_epoch, counts itself as a sleeper, rescans.
LockEpoch(w) ==
    /\ pc[w] = "lock"
    /\ epochLock = NoOne
    /\ epochLock' = w
    /\ sleepers' = sleepers \cup {w}
    /\ pc' = [pc EXCEPT ![w] = "definitive"]
    /\ UNCHANGED <<ready, queue, next, pos, current, moved, stage, fresh>>

\* pop_task_definitive finds work: leave the sleepers, unlock, poll it.
PopDefinitive(w) ==
    /\ pc[w] = "definitive"
    /\ TakeFrom(w)
    /\ sleepers' = sleepers \ {w}
    /\ epochLock' = NoOne
    /\ UNCHANGED <<ready, next, moved, stage, fresh>>

\* pop_task_definitive passes an empty queue.  After the last one the worker
\* notes the epoch and waits, which releases sleep_epoch.
PopDefinitiveEmpty(w) ==
    /\ pc[w] = "definitive"
    /\ queue[QueueAt(w, pos[w])] = <<>>
    /\ IF pos[w] < LastPos
       THEN /\ pos' = [pos EXCEPT ![w] = @ + 1]
            /\ UNCHANGED <<pc, epochLock, moved>>
       ELSE /\ pos' = [pos EXCEPT ![w] = 1]
            /\ pc' = [pc EXCEPT ![w] = "waiting"]
            /\ epochLock' = NoOne
            /\ moved' = moved \ {w}
    /\ UNCHANGED <<ready, queue, next, current, sleepers, stage, fresh>>

\* Condvar::wait may return without a notification.
SpuriousWake(w) ==
    /\ pc[w] = "waiting"
    /\ pc' = [pc EXCEPT ![w] = "woken"]
    /\ UNCHANGED <<ready, queue, next, pos, current, epochLock, sleepers,
                   moved, stage, fresh>>

\* The woken worker has sleep_epoch again and re-tests the epoch it observed:
\* unchanged, it waits again; changed, it stops being a sleeper and rescans.
Reacquire(w) ==
    /\ pc[w] = "woken"
    /\ epochLock = NoOne
    /\ IF w \in moved
       THEN /\ pc' = [pc EXCEPT ![w] = "scan"]
            /\ sleepers' = sleepers \ {w}
            /\ moved' = moved \ {w}
       ELSE /\ pc' = [pc EXCEPT ![w] = "waiting"]
            /\ UNCHANGED <<sleepers, moved>>
    /\ UNCHANGED <<ready, queue, next, pos, current, epochLock, stage, fresh>>

\* poll_task returns and worker_loop asks for the next task.
FinishPoll(w) ==
    /\ pc[w] = "run"
    /\ stage[w] = "idle"
    /\ pc' = [pc EXCEPT ![w] = "scan"]
    /\ current' = [current EXCEPT ![w] = NoOne]
    /\ UNCHANGED <<ready, queue, next, pos, epochLock, sleepers, moved, stage,
                   fresh>>

-----------------------------------------------------------------------------
Submitting(t) ==
    \/ \E c \in Copies : Spawn(t, c) \/ InjectMarked(t, c)
    \/ LoadSleepers(t)
    \/ BumpEpoch(t)

Working(w) ==
    \/ WorkerReady(w)
    \/ PopTask(w)
    \/ PopTaskSkip(w)
    \/ LockEpoch(w)
    \/ PopDefinitive(w)
    \/ PopDefinitiveEmpty(w)
    \/ Reacquire(w)
    \/ FinishPoll(w)

Next ==
    \/ ExecutorStart
    \/ \E t \in Threads : Submitting(t)
    \/ \E w \in Workers : Working(w) \/ SpuriousWake(w)

Spec == Init /\ [][Next]_vars

\* The OS runs every thread that can run, grants a mutex that keeps becoming
\* free, and a poll returns.  Nobody is obliged to submit anything.
Fairness ==
    /\ \A t \in Threads : WF_vars(LoadSleepers(t)) /\ SF_vars(BumpEpoch(t))
    /\ \A w \in Workers :
         /\ WF_vars(WorkerReady(w) \/ PopTask(w) \/ PopTaskSkip(w)
                      \/ PopDefinitive(w) \/ PopDefinitiveEmpty(w)
                      \/ FinishPoll(w))
         /\ SF_vars(LockEpoch(w) \/ Reacquire(w))

FairSpec == Spec /\ Fairness

-----------------------------------------------------------------------------
(* Properties.                                                             *)

\* Queues, counters and program counters have their types: a scan never probes
\* past the last sibling and round robin never leaves the workers.
TypeOK ==
    /\ ready \in BOOLEAN
    /\ queue \in [Queues -> Seq(Copies)]
    /\ next \in Workers
    /\ pc \in [Workers -> {"boot", "scan", "lock", "definitive", "waiting",
                           "woken", "run"}]
    /\ pos \in [Workers -> 1 .. LastPos]
    /\ current \in [Workers -> Copies \cup {NoOne}]
    /\ epochLock \in Workers \cup {NoOne}
    /\ sleepers \in SUBSET Workers
    /\ moved \in SUBSET Workers
    /\ stage \in [Threads -> {"idle", "load", "bump"}]
    /\ fresh \in SUBSET Copies

\* A worker that will not look at any queue until somebody wakes it.
Asleep(w) == pc[w] = "waiting" \/ (pc[w] = "woken" /\ w \notin moved)

\* A thread that has pushed a copy and not yet finished wake_one_sleeper.
InFlight(t) == stage[t] # "idle"

\* No lost submission: while a copy sits in a queue, some worker is awake or
\* the submitter has still to run its half of the handshake.  This is what the
\* recheck under sleep_epoch in wait_for_task is for: a worker may not commit to
\* sleep between another thread's push and that thread's load of sleepers.
NoLostSubmission ==
    (\E q \in Queues : queue[q] # <<>>) =>
        \/ \E w \in Workers : ~Asleep(w)
        \/ \E t \in Threads : InFlight(t)

\* Work conservation: while some worker is parked in the condition variable, there are
\* at least as many workers on their way to a scan, plus pending notifications,
\* as there are queued copies.  One notify_one per push is enough.
Heading == {w \in Workers : pc[w] \in {"boot", "scan", "lock", "definitive"}
                               \/ (pc[w] = "woken" /\ w \in moved)}

QueuedCopies == UNION {{queue[q][i] : i \in DOMAIN queue[q]} : q \in Queues}

WorkConserving ==
    InWaitSet # {} =>
        Cardinality(QueuedCopies)
          <= Cardinality(Heading) + Cardinality({t \in Threads : InFlight(t)})

\* Each submitted copy is polled by one worker, once, and is never left
\* behind: the pool implements RunPool.  A copy dropped by a steal, popped
\* twice or stranded behind sleeping workers breaks it.
Pool == INSTANCE RunPool WITH
            waiting <- QueuedCopies,
            polling <- current

ImplementsRunPool == Pool!Spec
=============================================================================
