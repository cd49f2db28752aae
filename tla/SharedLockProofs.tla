-------------------------- MODULE SharedLockProofs --------------------------
(***************************************************************************)
(* Shared<T>, for any number of tasks and futures: mutual exclusion, and,  *)
(* until somebody is cancelled or gives up, a fair hand-off of the lock.   *)
(***************************************************************************)
EXTENDS SharedLock, TLAPS, SequenceTheorems

\* The part of the state the argument is about.
Shape ==
    /\ locked \in BOOLEAN
    /\ st \in [LockFutures -> {"init", "queued", "running", "done"}]
    /\ held \in [Tasks -> {0, 1}]
    /\ \A t \in Tasks : cur[t] \in Own(t) \cup {NoFut}
    /\ cur \in [Tasks -> LockFutures \cup {NoFut}]
    /\ alive \subseteq Tasks

\* A running body, awaited or abandoned, belongs to a task that holds the lock,
\* and to one future of it.
BodiesHold ==
    \A t \in alive : \A f \in Own(t) :
        st[f] = "running" =>
            /\ held[t] = 1
            /\ \A g \in Own(t) : st[g] = "running" => g = f

\* The flag is up exactly while one task holds the lock.
FlagMatches ==
    /\ \A t, u \in Tasks : held[t] = 1 /\ held[u] = 1 => t = u
    /\ locked <=> \E t \in Tasks : held[t] = 1

IInv == Shape /\ BodiesHold /\ FlagMatches

\* The futures of two tasks are different futures.
LEMMA OwnApart ==
    ASSUME NEW t \in Tasks, NEW u \in Tasks
    PROVE  /\ Own(t) \subseteq LockFutures
           /\ \A f \in Own(t) : f \in Own(u) => t = u
BY DEF Own, LockFutures

\* Taking a free lock keeps the invariant.
LEMMA AcquireStep ==
    ASSUME IInv, NEW t \in alive, cur[t] # NoFut, ~locked, NEW q, Acquire(t, q)
    PROVE  IInv'
<1> USE SharedAssumption DEF IInv
<1>1. t \in Tasks /\ cur[t] \in Own(t) /\ cur[t] \in LockFutures
  BY OwnApart DEF Shape
<1>2. \A u \in Tasks : held[u] = 0
  BY DEF Shape, FlagMatches
<1>3. Shape'
  BY <1>1, <1>2 DEF Shape, Acquire
<1>4. \A u \in alive : \A f \in Own(u) : st[f] # "running"
  BY <1>2 DEF Shape, BodiesHold
<1>5. BodiesHold'
  <2> SUFFICES ASSUME NEW u \in alive, NEW f \in Own(u), st'[f] = "running"
               PROVE  held'[u] = 1 /\ \A g \in Own(u) : st'[g] = "running" => g = f
    BY DEF BodiesHold, Acquire
  <2>1. u \in Tasks /\ f \in LockFutures
    BY OwnApart DEF Shape
  <2>2. f = cur[t]
    BY <1>1, <1>4, <2>1 DEF Acquire, Shape
  <2>3. u = t
    BY <1>1, <2>1, <2>2, OwnApart
  <2>4. held'[u] = 1
    BY <1>1, <1>2, <2>3 DEF Acquire, Shape
  <2>5. \A g \in Own(u) : st'[g] = "running" => g = f
    BY <1>1, <1>4, <2>1, <2>2, OwnApart DEF Acquire, Shape
  <2> QED  BY <2>4, <2>5
<1>6. FlagMatches'
  BY <1>1, <1>2 DEF FlagMatches, Acquire, Shape
<1> QED  BY <1>3, <1>5, <1>6

\* A step that changes neither the flag, the held sets nor which bodies run,
\* and revives no task, keeps the invariant.
LEMMA QuietStep ==
    ASSUME IInv, Shape', UNCHANGED <<locked, held>>, alive' \subseteq alive,
           \A f \in LockFutures : st'[f] = "running" => st[f] = "running"
    PROVE  IInv'
<1> USE DEF IInv
<1>1. BodiesHold'
  BY OwnApart DEF BodiesHold, Shape
<1>2. FlagMatches'
  BY DEF FlagMatches
<1> QED  BY <1>1, <1>2

\* A step that empties the lock of its one holder t keeps the invariant, when
\* t dies or stops running its body.
LEMMA ReleaseStep ==
    ASSUME IInv, Shape', NEW t \in Tasks, held[t] = 1, ~locked',
           held' = [held EXCEPT ![t] = 0], alive' \subseteq alive,
           \A f \in LockFutures : st'[f] = "running" => st[f] = "running",
           t \in alive' => \A f \in Own(t) : st'[f] # "running"
    PROVE  IInv'
<1> USE DEF IInv
<1>1. \A u \in Tasks : held'[u] = 0
  BY DEF Shape, FlagMatches
<1>2. BodiesHold'
  <2> SUFFICES ASSUME NEW u \in alive', NEW f \in Own(u), st'[f] = "running"
               PROVE  FALSE
    BY DEF BodiesHold
  <2>1. u \in Tasks /\ u \in alive /\ f \in LockFutures
    BY OwnApart DEF Shape
  <2>2. held[u] = 1
    BY <2>1 DEF BodiesHold
  <2>3. u = t
    BY <2>1, <2>2 DEF FlagMatches
  <2> QED  BY <2>3
<1>3. FlagMatches'
  BY <1>1 DEF FlagMatches
<1> QED  BY <1>2, <1>3

\* A task that dies, with or without its locks drained.
LEMMA DrainStep ==
    ASSUME IInv, NEW t \in alive, NEW live, Drain(t, live), Die(t),
           UNCHANGED st
    PROVE  IInv'
<1> USE SharedAssumption DEF IInv
<1>1. t \in Tasks
  BY DEF Shape
<1>2. Shape'
  BY <1>1 DEF Shape, Drain, Die, ReleaseInner
<1>3. CASE held[t] = 1
  <2>1. ~locked'
    BY <1>3 DEF Drain, ReleaseInner
  <2> QED  BY <1>1, <1>2, <1>3, <2>1, ReleaseStep DEF Drain, Die
<1>4. CASE held[t] # 1
  <2>1. held[t] = 0
    BY <1>1, <1>4 DEF Shape
  <2>2. held' = held /\ locked' = locked
    BY <1>1, <2>1 DEF Shape, Drain
  <2> QED  BY <1>2, <2>2, QuietStep DEF Die
<1> QED  BY <1>3, <1>4

\* Joining the queue disturbs nothing the invariant speaks of.
LEMMA EnqueueStep ==
    ASSUME IInv, NEW t \in alive, cur[t] # NoFut, NEW q, Enqueue(t, q)
    PROVE  IInv'
<1> USE SharedAssumption DEF IInv
<1>1. t \in Tasks /\ cur[t] \in LockFutures
  BY DEF Shape
<1>2. Shape'
  BY <1>1 DEF Shape, Enqueue, Pending
<1>3. \A f \in LockFutures : st'[f] = "running" => st[f] = "running"
  BY <1>1 DEF Shape, Enqueue
<1> QED  BY <1>2, <1>3, QuietStep DEF Enqueue

\* Every step of the cell keeps the invariant.
LEMMA IInvStep == IInv /\ [Next]_vars => IInv'
<1> SUFFICES ASSUME IInv, [Next]_vars  PROVE IInv'
  OBVIOUS
<1> USE SharedAssumption DEF IInv
<1>1. CASE UNCHANGED vars
  BY <1>1 DEF vars, Shape, BodiesHold, FlagMatches
<1>2. ASSUME NEW t \in Tasks, AdvanceInit(t)  PROVE IInv'
  BY <1>2, AcquireStep, EnqueueStep DEF AdvanceInit, Polls
<1>3. ASSUME NEW t \in Tasks, AdvanceQueued(t)  PROVE IInv'
  <2>1. t \in alive /\ cur[t] # NoFut
    BY <1>3 DEF AdvanceQueued, Polls
  <2>2. CASE ~locked /\ \E q : Acquire(t, q)
    BY <2>1, <2>2, AcquireStep
  <2>3. CASE Pending(t) /\ UNCHANGED <<locked, nextTicket, st, ticket, held, alive, calls>>
    <3>1. Shape'
      BY <2>3 DEF Shape, Pending
    <3> QED  BY <2>3, <3>1, QuietStep
  <2> QED  BY <1>3, <2>2, <2>3 DEF AdvanceQueued
<1>4. ASSUME NEW t \in Tasks, AdvanceMissing(t)  PROVE IInv'
  BY <1>4, AcquireStep, EnqueueStep DEF AdvanceMissing, Polls
<1>5. ASSUME NEW t \in Tasks, TryLock(t)  PROVE IInv'
  <2>1. t \in alive /\ cur[t] # NoFut /\ cur[t] \in LockFutures
    BY <1>5 DEF TryLock, Polls, Shape
  <2>2. CASE ~locked /\ queue = <<>>
    BY <1>5, <2>1, <2>2, AcquireStep DEF TryLock
  <2>3. CASE ~(~locked /\ queue = <<>>)
    <3>1. Shape'
      BY <1>5, <2>1, <2>3 DEF Shape, TryLock
    <3>2. \A f \in LockFutures : st'[f] = "running" => st[f] = "running"
      BY <1>5, <2>1, <2>3 DEF Shape, TryLock
    <3> QED  BY <1>5, <2>3, <3>1, <3>2, QuietStep DEF TryLock
  <2> QED  BY <2>2, <2>3
<1>6. ASSUME NEW t \in Tasks, FinishLocked(t)  PROVE IInv'
  <2>1. t \in alive /\ cur[t] \in Own(t) /\ cur[t] \in LockFutures
          /\ st[cur[t]] = "running"
    BY <1>6, OwnApart DEF FinishLocked, Shape
  <2>2. held[t] = 1 /\ \A f \in Own(t) : st[f] = "running" => f = cur[t]
    BY <2>1 DEF BodiesHold
  <2>3. held' = [held EXCEPT ![t] = 0] /\ locked' = FALSE /\ alive' = alive
    BY <1>6, <2>2 DEF Shape, FinishLocked, ReleaseInner
  <2>4. Shape'
    <3>1. st' = [st EXCEPT ![cur[t]] = "done"] /\ cur' = [cur EXCEPT ![t] = NoFut]
      BY <1>6 DEF FinishLocked
    <3> QED  BY <2>1, <2>3, <3>1 DEF Shape
  <2>5. \A f \in LockFutures : st'[f] = "running" => st[f] = "running"
    BY <1>6, <2>1 DEF Shape, FinishLocked
  <2>6. \A f \in Own(t) : st'[f] # "running"
    BY <1>6, <2>1, <2>2, OwnApart DEF Shape, FinishLocked
  <2> QED  BY <2>2, <2>3, <2>4, <2>5, <2>6, ReleaseStep
<1>7. ASSUME NEW t \in Tasks, TimeoutBody(t)  PROVE IInv'
  <2>1. Shape'
    BY <1>7 DEF Shape, TimeoutBody
  <2> QED  BY <1>7, <2>1, QuietStep DEF TimeoutBody
<1>8. ASSUME NEW t \in Tasks, CallWaker(t) \/ StaleWake(t)  PROVE IInv'
  <2>1. Shape'
    BY <1>8 DEF Shape, CallWaker, StaleWake
  <2> QED  BY <1>8, <2>1, QuietStep DEF CallWaker, StaleWake
<1>9. ASSUME NEW t \in Tasks, Panic(t) \/ CancelTask(t)  PROVE IInv'
  BY <1>9, DrainStep DEF Panic, CancelTask
<1>10. ASSUME NEW t \in Tasks, EndTask(t)  PROVE IInv'
  <2>1. Shape'
    BY <1>10 DEF Shape, EndTask, Die
  <2> QED  BY <1>10, <2>1, QuietStep DEF EndTask, Die
<1>11. ASSUME NEW t \in Tasks, NEW f \in LockFutures, Await(t, f)  PROVE IInv'
  <2>1. Shape'
    BY <1>11 DEF Shape, Await
  <2> QED  BY <1>11, <2>1, QuietStep DEF Await
<1> QED
  BY <1>1, <1>2, <1>3, <1>4, <1>5, <1>6, <1>7, <1>8, <1>9, <1>10, <1>11
     DEF Next, Poll

\* The lock starts free.
LEMMA IInvInit == Init => IInv
<1> SUFFICES ASSUME Init PROVE IInv
  OBVIOUS
<1>1. Shape
  BY DEF Init, Shape
<1>2. BodiesHold
  BY OwnApart DEF Init, BodiesHold
<1>3. FlagMatches
  BY DEF Init, FlagMatches
<1> QED  BY <1>1, <1>2, <1>3 DEF IInv

\* The invariant of the owner is inductive.
LEMMA SharedInvariant == Spec => []IInv
  BY IInvInit, IInvStep, PTL DEF Spec

\* Mutual exclusion of Shared<T>: the locked flag and the tasks' held sets
\* agree, and a body runs only in the task that holds the lock, however tasks
\* time out, panic, are cancelled or simply return.
THEOREM LockIsExclusive == Spec => []LockHeldByOne
<1>1. IInv => LockHeldByOne
  <2> SUFFICES ASSUME IInv PROVE LockHeldByOne
    OBVIOUS
  <2> USE DEF IInv
  <2>1. Holders = {t \in Tasks : held[t] = 1}
    BY DEF Holders, Shape
  <2>2. locked => \E t \in Tasks : Holders = {t}
    BY <2>1 DEF FlagMatches
  <2>3. ~locked => Holders = {}
    BY <2>1 DEF FlagMatches
  <2>4. \A t \in alive : InBody(t) => held[t] = 1
    BY DEF InBody, BodiesHold, Shape
  <2> QED  BY <2>2, <2>3, <2>4 DEF LockHeldByOne
<1> QED  BY <1>1, SharedInvariant, PTL

-----------------------------------------------------------------------------
(* The hand-off.  Until a task is cancelled or gives up on a lock future,  *)
(* the queue holds exactly the live waiters, in the order of their         *)
(* tickets; pruning finds nothing, no ticket goes missing, and whoever     *)
(* takes the lock was first.                                               *)

QueueTypes ==
    /\ queue \in Seq([task : Tasks, ticket : Nat])
    /\ nextTicket \in Nat /\ ticket \in [LockFutures -> Nat]
    /\ woken \subseteq Tasks /\ calls \subseteq Tasks /\ clean \in BOOLEAN

\* Every entry of the queue is a live task's that awaits that very ticket.
EntriesWait == \A i \in DOMAIN queue : RealWaiter(queue[i])

\* A live task's queued future is the one it awaits, and is in the queue.
WaitersQueued ==
    \A t \in alive : \A f \in Own(t) :
        st[f] = "queued" => cur[t] = f /\ \E i \in DOMAIN queue : queue[i].task = t

\* First come, first in the queue.
InOrder ==
    /\ \A i, j \in DOMAIN queue : i < j => queue[i].ticket < queue[j].ticket
    /\ \A i \in DOMAIN queue : queue[i].ticket < nextTicket

Handoff == QueueTypes /\ EntriesWait /\ WaitersQueued /\ InOrder /\ HeadIsWoken

Orderly == clean => Handoff

\* prune_dead_front finds a live head.
LEMMA NothingToPrune ==
    ASSUME QueueTypes, EntriesWait
    PROVE  Pruned(queue, alive) = queue
<1> DEFINE Front(i) == /\ \A j \in 1 .. i : queue[j].task \notin alive
                       /\ i < Len(queue) => queue[i + 1].task \in alive
<1>1. Len(queue) \in Nat /\ DOMAIN queue = 1 .. Len(queue)
  BY DEF QueueTypes
<1>2. \A i \in 1 .. Len(queue) : queue[i].task \in alive
  BY <1>1 DEF EntriesWait, RealWaiter
<1>3. 0 \in 0 .. Len(queue) /\ Front(0)
  BY <1>1, <1>2
<1>4. \A i \in 0 .. Len(queue) : Front(i) => i = 0
  BY <1>1, <1>2
<1>5. (CHOOSE i \in 0 .. Len(queue) : Front(i)) = 0
  <2> HIDE DEF Front
  <2> QED  BY <1>3, <1>4
<1>6. Pruned(queue, alive) = SubSeq(queue, 0 + 1, Len(queue))
  BY <1>5 DEF Pruned
<1>7. SubSeq(queue, 1, Len(queue)) = queue
  BY SubSeqFull DEF QueueTypes
<1> QED  BY <1>6, <1>7

\* A task that does not wait has no entry to remove.
LEMMA NothingToRemove ==
    ASSUME EntriesWait, NEW t, cur[t] = NoFut \/ st[cur[t]] # "queued"
    PROVE  /\ \A i \in DOMAIN queue : queue[i].task # t
           /\ WithoutTask(queue, t) = queue
<1>1. \A i \in DOMAIN queue : queue[i].task # t
  BY DEF EntriesWait, RealWaiter
<1> QED  BY <1>1 DEF WithoutTask

\* What an entry of the wait queue names.
LEMMA Entries ==
    ASSUME QueueTypes, NEW i \in DOMAIN queue
    PROVE  queue[i].task \in Tasks /\ queue[i].ticket \in Nat
<1>1. queue \in Seq([task : Tasks, ticket : Nat]) /\ i \in 1 .. Len(queue)
  BY DEF QueueTypes
<1>2. queue[i] \in [task : Tasks, ticket : Nat]
  BY <1>1, ElementOfSeq
<1> QED  BY <1>2

\* A step that takes nothing from the queue and the waiters keeps the order.
LEMMA OrderlyQuiet ==
    ASSUME QueueTypes, EntriesWait, WaitersQueued, InOrder,
           QueueTypes', UNCHANGED <<queue, nextTicket, ticket>>, alive' \subseteq alive,
           \A t \in alive : \A f \in Own(t) : st'[f] = "queued" <=> st[f] = "queued",
           \A t \in alive : Waits(t) => t \in alive' /\ UNCHANGED <<cur[t], st[cur[t]]>>,
           IInv
    PROVE  (EntriesWait /\ WaitersQueued /\ InOrder)'
<1>1. EntriesWait'
  BY DEF EntriesWait, RealWaiter, Waits
<1>2. WaitersQueued'
  BY SharedAssumption, OwnApart DEF WaitersQueued, Waits, IInv, Shape
<1>3. InOrder'
  BY DEF InOrder
<1> QED  BY <1>1, <1>2, <1>3

\* A new waiter goes behind the others, with a ticket after theirs.
LEMMA OrderlyEnqueue ==
    ASSUME IInv, Handoff, NEW t \in alive, cur[t] # NoFut, st[cur[t]] = "init",
           Enqueue(t, queue), clean, clean', locked \/ queue # <<>>
    PROVE  Handoff'
<1> USE SharedAssumption DEF Handoff
<1>1. /\ t \in Tasks /\ cur[t] \in Own(t) /\ cur[t] \in LockFutures
      /\ cur \in [Tasks -> LockFutures \cup {NoFut}]
      /\ st \in [LockFutures -> {"init", "queued", "running", "done"}]
      /\ alive \subseteq Tasks
  BY OwnApart DEF IInv, Shape
<1>2. /\ queue' = Append(queue, [task |-> t, ticket |-> nextTicket])
      /\ nextTicket' = nextTicket + 1
      /\ st' = [st EXCEPT ![cur[t]] = "queued"]
      /\ ticket' = [ticket EXCEPT ![cur[t]] = nextTicket]
      /\ UNCHANGED <<locked, alive, calls, cur>> /\ woken' = woken \ {t}
  BY DEF Enqueue, Pending
<1>3. QueueTypes'
  BY <1>1, <1>2 DEF QueueTypes
<1>4. /\ Len(queue) \in Nat /\ DOMAIN queue = 1 .. Len(queue)
      /\ DOMAIN queue' = 1 .. Len(queue) + 1
      /\ \A i \in 1 .. Len(queue) : queue'[i] = queue[i]
      /\ queue'[Len(queue) + 1] = [task |-> t, ticket |-> nextTicket]
  BY <1>2 DEF QueueTypes
<1>5. \A i \in 1 .. Len(queue) : /\ queue[i].task \in alive /\ queue[i].task # t
                                 /\ cur[queue[i].task] \in Own(queue[i].task)
  BY <1>1, <1>4 DEF EntriesWait, RealWaiter, IInv, Shape
<1>6. \A u \in alive \ {t} : cur[u] # NoFut => cur[u] # cur[t]
  BY <1>1, OwnApart DEF IInv, Shape
<1>7. EntriesWait'
  <2> SUFFICES ASSUME NEW i \in 1 .. Len(queue) + 1  PROVE RealWaiter(queue[i])'
    BY <1>4 DEF EntriesWait
  <2>1. CASE i \in 1 .. Len(queue)
    <3>1. RealWaiter(queue[i]) /\ queue[i].task \in alive \ {t} /\ queue'[i] = queue[i]
      BY <2>1, <1>4, <1>5 DEF EntriesWait
    <3> QED  BY <3>1, <1>1, <1>2, <1>6 DEF RealWaiter, QueueTypes
  <2>2. CASE i = Len(queue) + 1
    BY <2>2, <1>1, <1>2, <1>4 DEF RealWaiter, QueueTypes
  <2> QED  BY <2>1, <2>2, <1>4
<1>8. WaitersQueued'
  <2> SUFFICES ASSUME NEW u \in alive, NEW f \in Own(u), st'[f] = "queued"
               PROVE  cur[u] = f /\ \E i \in DOMAIN queue' : queue'[i].task = u
    BY <1>2 DEF WaitersQueued
  <2>1. CASE u = t /\ f = cur[t]
    BY <2>1, <1>4
  <2>2. CASE ~(u = t /\ f = cur[t])
    <3>1. u \in Tasks /\ f \in LockFutures /\ f # cur[t]
      BY <2>2, <1>1, OwnApart
    <3>2. st[f] = "queued"
      BY <3>1, <1>1, <1>2
    <3> QED  BY <3>2, <1>4 DEF WaitersQueued
  <2> QED  BY <2>1, <2>2
<1>9. InOrder'
  <2>1. nextTicket \in Nat /\ \A i \in 1 .. Len(queue) : queue[i].ticket \in Nat
    BY <1>4, Entries DEF QueueTypes
  <2>2. \A i \in 1 .. Len(queue) + 1 : i \in 1 .. Len(queue) \/ i = Len(queue) + 1
    BY <1>4
  <2>3. \A i \in 1 .. Len(queue) + 1 :
           queue'[i].ticket = IF i = Len(queue) + 1 THEN nextTicket ELSE queue[i].ticket
    BY <1>4, <2>2
  <2>4. \A i \in 1 .. Len(queue) : queue[i].ticket < nextTicket
    BY <1>4 DEF InOrder
  <2>5. \A i, j \in 1 .. Len(queue) + 1 : i < j => queue'[i].ticket < queue'[j].ticket
    BY <1>4, <2>1, <2>2, <2>3, <2>4 DEF InOrder
  <2>6. \A i \in 1 .. Len(queue) + 1 : queue'[i].ticket < nextTicket + 1
    BY <2>1, <2>2, <2>3, <2>4
  <2> QED  BY <1>2, <1>4, <2>5, <2>6 DEF InOrder
<1>10. HeadIsWoken'
  <2> SUFFICES ASSUME ~locked  PROVE Head(queue').task \in (alive \cap woken') \cup calls
    BY <1>2 DEF HeadIsWoken
  <2>1. 1 \in 1 .. Len(queue) /\ Head(queue) = queue[1] /\ Head(queue') = queue[1]
    BY <1>2, <1>4 DEF QueueTypes
  <2> QED  BY <2>1, <1>2, <1>5 DEF HeadIsWoken
<1> QED  BY <1>3, <1>7, <1>8, <1>9, <1>10

\* The head leaves the queue as it takes the lock.
LEMMA OrderlyServe ==
    ASSUME IInv, Handoff, NEW t \in alive, cur[t] # NoFut, st[cur[t]] = "queued",
           queue # <<>>, Head(queue).ticket = ticket[cur[t]],
           Acquire(t, Tail(queue))
    PROVE  Handoff'
<1> USE SharedAssumption DEF Handoff
<1>1. /\ t \in Tasks /\ cur[t] \in Own(t) /\ cur[t] \in LockFutures
      /\ cur \in [Tasks -> LockFutures \cup {NoFut}]
      /\ st \in [LockFutures -> {"init", "queued", "running", "done"}]
      /\ alive \subseteq Tasks
  BY OwnApart DEF IInv, Shape
<1>2. /\ queue' = Tail(queue) /\ locked' /\ st' = [st EXCEPT ![cur[t]] = "running"]
      /\ UNCHANGED <<nextTicket, ticket, cur, alive, woken, calls, clean>>
  BY DEF Acquire
<1>3. QueueTypes'
  BY <1>2 DEF QueueTypes
<1>4. /\ Len(queue) \in Nat /\ DOMAIN queue = 1 .. Len(queue)
      /\ DOMAIN queue' = 1 .. Len(queue) - 1 /\ Head(queue) = queue[1]
      /\ \A i \in 1 .. Len(queue) - 1 : i + 1 \in DOMAIN queue /\ queue'[i] = queue[i + 1]
  BY <1>2 DEF QueueTypes
<1>5. PICK k \in DOMAIN queue : queue[k].task = t
  BY <1>1 DEF WaitersQueued
<1>6. k = 1
  <2>1. queue[k].ticket = queue[1].ticket
    BY <1>4, <1>5 DEF EntriesWait, RealWaiter
  <2>2. \A i \in DOMAIN queue : queue[i].ticket \in Nat
    BY Entries
  <2> QED  BY <1>4, <1>5, <2>1, <2>2 DEF InOrder
<1>7. \A i \in 2 .. Len(queue) : queue[i].task # t
  <2> SUFFICES ASSUME NEW i \in 2 .. Len(queue), queue[i].task = t  PROVE FALSE
    OBVIOUS
  <2>1. queue[i].ticket = queue[1].ticket
    BY <1>4, <1>5, <1>6 DEF EntriesWait, RealWaiter
  <2>2. 1 \in DOMAIN queue /\ i \in DOMAIN queue /\ 1 < i
    BY <1>4
  <2>3. queue[1].ticket < queue[i].ticket /\ queue[1].ticket \in Nat
    BY <2>2, Entries DEF InOrder
  <2> QED  BY <2>1, <2>3
<1>8. \A u \in alive \ {t} : cur[u] # NoFut => cur[u] # cur[t]
  BY <1>1, OwnApart DEF IInv, Shape
<1>9. EntriesWait'
  <2> SUFFICES ASSUME NEW i \in 1 .. Len(queue) - 1  PROVE RealWaiter(queue[i])'
    BY <1>4 DEF EntriesWait
  <2>1. /\ RealWaiter(queue[i + 1]) /\ queue[i + 1].task \in alive \ {t}
        /\ queue'[i] = queue[i + 1]
    BY <1>4, <1>7 DEF EntriesWait, RealWaiter
  <2> QED  BY <2>1, <1>1, <1>2, <1>8 DEF RealWaiter
<1>10. WaitersQueued'
  <2> SUFFICES ASSUME NEW u \in alive, NEW f \in Own(u), st'[f] = "queued"
               PROVE  cur[u] = f /\ \E i \in DOMAIN queue' : queue'[i].task = u
    BY <1>2 DEF WaitersQueued
  <2>1. u \in Tasks /\ f \in LockFutures /\ f # cur[t] /\ st[f] = "queued"
    BY <1>1, <1>2, OwnApart
  <2>2. PICK i \in DOMAIN queue : cur[u] = f /\ queue[i].task = u
    BY <2>1 DEF WaitersQueued
  <2>3. i # 1
    BY <2>1, <2>2, <1>5, <1>6
  <2>4. i - 1 \in 1 .. Len(queue) - 1 /\ (i - 1) + 1 = i
    BY <2>3, <1>4
  <2> QED  BY <2>2, <2>4, <1>4
<1>11. InOrder'
  BY <1>2, <1>4 DEF InOrder
<1> QED  BY <1>2, <1>3, <1>9, <1>10, <1>11 DEF HeadIsWoken

\* Every step keeps the queue in order, until somebody is cancelled or gives up.
LEMMA OrderlyStep == IInv /\ Orderly /\ [Next]_vars => Orderly'
<1> SUFFICES ASSUME IInv, Orderly, [Next]_vars, clean'  PROVE Handoff'
  BY DEF Orderly
<1> USE SharedAssumption
<1>a. clean /\ Handoff
  BY DEF Orderly, vars, Next, Poll, AdvanceInit, AdvanceQueued, AdvanceMissing, TryLock,
         Acquire, Enqueue, Pending, FinishLocked, TimeoutBody, CallWaker, StaleWake,
         Panic, CancelTask, EndTask, Await
<1>b. QueueTypes /\ EntriesWait /\ WaitersQueued /\ InOrder /\ HeadIsWoken
  BY <1>a DEF Handoff
<1>c. Pruned(queue, alive) = queue
  BY <1>b, NothingToPrune
<1>d. \A t \in Tasks :
         /\ cur[t] # NoFut => cur[t] \in Own(t) /\ cur[t] \in LockFutures
         /\ \A u \in Tasks \ {t} : cur[t] # NoFut => cur[u] # cur[t]
  BY OwnApart DEF IInv, Shape
<1>e. queue # <<>> => 1 \in DOMAIN queue /\ Head(queue) = queue[1] /\ RealWaiter(queue[1])
  BY <1>b DEF QueueTypes, EntriesWait
<1>1. CASE UNCHANGED vars
  BY <1>1, <1>a DEF vars, Handoff, QueueTypes, EntriesWait, RealWaiter, WaitersQueued,
                    InOrder, HeadIsWoken
<1>2. ASSUME NEW t \in Tasks, Polls(t, "init"), Acquire(t, queue)  PROVE Handoff'
  <2>1. QueueTypes'
    BY <1>2, <1>b DEF Acquire, QueueTypes
  <2>2. (EntriesWait /\ WaitersQueued /\ InOrder)'
    BY <1>2, <1>b, <1>d, <2>1, OrderlyQuiet, OwnApart
       DEF Acquire, Polls, Waits, IInv, Shape
  <2> QED  BY <1>2, <2>1, <2>2 DEF Handoff, HeadIsWoken, Acquire
<1>3. ASSUME NEW t \in Tasks, AdvanceInit(t)  PROVE Handoff'
  <2>1. Polls(t, "init") /\ WithoutTask(queue, t) = queue
    BY <1>3, <1>b, NothingToRemove DEF AdvanceInit, Polls
  <2>2. CASE ~locked /\ queue = <<>>
    BY <1>3, <1>c, <2>1, <2>2, <1>2 DEF AdvanceInit
  <2>3. CASE ~(~locked /\ queue = <<>>)
    BY <1>3, <1>a, <1>c, <2>1, <2>3, OrderlyEnqueue DEF AdvanceInit, Polls
  <2> QED  BY <2>2, <2>3
<1>4. ASSUME NEW t \in Tasks, AdvanceQueued(t)  PROVE Handoff'
  <2>1. Polls(t, "queued") /\ queue # <<>>
    BY <1>4, <1>c DEF AdvanceQueued, HasTicket
  <2>2. CASE Head(queue).ticket = ticket[cur[t]] /\ Acquire(t, Tail(queue))
    BY <1>a, <2>1, <2>2, OrderlyServe DEF Polls
  <2>3. CASE /\ ~locked => Head(queue).ticket # ticket[cur[t]]
             /\ queue' = queue /\ Pending(t)
             /\ UNCHANGED <<locked, nextTicket, st, ticket, held, alive, calls>>
    <3>1. woken' = woken \ {t} /\ UNCHANGED cur
      BY <2>3, <1>a DEF Pending
    <3>2. QueueTypes'
      BY <2>3, <3>1, <1>b DEF QueueTypes
    <3>3. (EntriesWait /\ WaitersQueued /\ InOrder)'
      BY <1>b, <2>3, <3>1, <3>2, OrderlyQuiet
    <3>4. HeadIsWoken'
      BY <1>a, <1>b, <1>e, <2>1, <2>3, <3>1 DEF HeadIsWoken, RealWaiter
    <3> QED  BY <3>2, <3>3, <3>4 DEF Handoff
  <2> QED  BY <1>4, <1>c, <2>2, <2>3 DEF AdvanceQueued
<1>5. ASSUME NEW t \in Tasks, AdvanceMissing(t)  PROVE FALSE
  <2>1. t \in alive /\ cur[t] \in Own(t) /\ st[cur[t]] = "queued"
    BY <1>5, <1>d DEF AdvanceMissing, Polls
  <2>2. PICK i \in DOMAIN queue : queue[i].task = t
    BY <1>b, <2>1 DEF WaitersQueued
  <2>3. queue[i].ticket = ticket[cur[t]]
    BY <1>b, <2>2 DEF EntriesWait, RealWaiter
  <2> QED  BY <1>5, <1>c, <2>3 DEF AdvanceMissing, HasTicket
<1>6. ASSUME NEW t \in Tasks, TryLock(t)  PROVE Handoff'
  <2>1. CASE ~locked /\ queue = <<>>
    BY <1>6, <2>1, <1>2 DEF TryLock
  <2>2. CASE ~(~locked /\ queue = <<>>)
    <3>1. /\ Polls(t, "init") /\ st' = [st EXCEPT ![cur[t]] = "done"]
          /\ cur' = [cur EXCEPT ![t] = NoFut]
          /\ UNCHANGED <<locked, queue, nextTicket, ticket, alive, woken, calls, clean>>
      BY <1>6, <2>2 DEF TryLock
    <3>2. QueueTypes'
      BY <3>1, <1>b DEF QueueTypes
    <3>3. (EntriesWait /\ WaitersQueued /\ InOrder)'
      BY <1>b, <1>d, <3>1, <3>2, OrderlyQuiet, OwnApart DEF Polls, Waits, IInv, Shape
    <3>4. HeadIsWoken'
      BY <3>1, <1>b DEF HeadIsWoken
    <3> QED  BY <3>2, <3>3, <3>4 DEF Handoff
  <2> QED  BY <2>1, <2>2
<1>7. ASSUME NEW t \in Tasks, FinishLocked(t)  PROVE Handoff'
  <2>1. /\ t \in alive /\ cur[t] # NoFut /\ st[cur[t]] = "running"
        /\ st' = [st EXCEPT ![cur[t]] = "done"] /\ cur' = [cur EXCEPT ![t] = NoFut]
        /\ woken' = woken \cup {t} /\ queue' = queue
        /\ calls' = IF queue = <<>> THEN calls ELSE calls \cup {Head(queue).task}
        /\ UNCHANGED <<nextTicket, ticket, alive, clean>>
    BY <1>7, <1>c DEF FinishLocked, ReleaseInner
  <2>2. QueueTypes'
    BY <2>1, <1>b, <1>e, Entries DEF QueueTypes
  <2>3. (EntriesWait /\ WaitersQueued /\ InOrder)'
    BY <1>b, <1>d, <2>1, <2>2, OrderlyQuiet, OwnApart DEF Waits, IInv, Shape
  <2> QED  BY <2>1, <2>2, <2>3 DEF Handoff, HeadIsWoken
<1>8. ASSUME NEW t \in Tasks, CallWaker(t) \/ StaleWake(t)  PROVE Handoff'
  <2>1. QueueTypes'
    BY <1>8, <1>b DEF QueueTypes, CallWaker, StaleWake
  <2>2. (EntriesWait /\ WaitersQueued /\ InOrder)'
    BY <1>8, <1>b, <2>1, OrderlyQuiet DEF CallWaker, StaleWake
  <2>3. HeadIsWoken'
    BY <1>8, <1>a, <1>b, <1>e DEF HeadIsWoken, CallWaker, StaleWake, RealWaiter
  <2> QED  BY <2>1, <2>2, <2>3 DEF Handoff
<1>9. ASSUME NEW t \in Tasks, Panic(t) \/ EndTask(t)  PROVE Handoff'
  <2>1. t \in alive /\ ~Waits(t)
    BY <1>9 DEF Panic, EndTask, RunsCode, Waits
  <2>2. /\ alive' = alive \ {t} /\ woken' = woken \ {t}
        /\ cur' = [cur EXCEPT ![t] = NoFut] /\ UNCHANGED <<nextTicket, st, ticket, clean>>
    BY <1>9 DEF Panic, EndTask, Die
  <2>3. /\ queue' = queue
        /\ \/ UNCHANGED <<locked, calls>>
           \/ calls' = IF queue = <<>> THEN calls ELSE calls \cup {Head(queue).task}
    BY <1>9, <1>c DEF Panic, EndTask, Drain, ReleaseInner
  <2>4. QueueTypes'
    BY <2>2, <2>3, <1>b, <1>e, Entries DEF QueueTypes
  <2>5. (EntriesWait /\ WaitersQueued /\ InOrder)'
    BY <1>b, <1>d, <2>1, <2>2, <2>3, <2>4, OrderlyQuiet DEF Waits, IInv, Shape
  <2>6. HeadIsWoken'
    BY <1>a, <1>b, <1>e, <2>1, <2>2, <2>3 DEF HeadIsWoken, RealWaiter, Waits
  <2> QED  BY <2>4, <2>5, <2>6 DEF Handoff
<1>10. ASSUME NEW t \in Tasks, NEW f \in LockFutures, Await(t, f)  PROVE Handoff'
  <2>1. QueueTypes'
    BY <1>10, <1>b DEF QueueTypes, Await
  <2>2. (EntriesWait /\ WaitersQueued /\ InOrder)'
    BY <1>10, <1>b, <1>d, <2>1, OrderlyQuiet DEF Await, Waits, IInv, Shape
  <2>3. HeadIsWoken'
    BY <1>10, <1>b DEF HeadIsWoken, Await
  <2> QED  BY <2>1, <2>2, <2>3 DEF Handoff
<1>11. ASSUME NEW t \in Tasks, TimeoutBody(t) \/ CancelTask(t)  PROVE FALSE
  BY <1>11 DEF TimeoutBody, CancelTask
<1> QED
  BY <1>1, <1>3, <1>4, <1>5, <1>6, <1>7, <1>8, <1>9, <1>10, <1>11 DEF Next, Poll

\* The order of the queue is kept on every clean run.
LEMMA OrderlyInvariant == Spec => []Orderly
<1>1. Init => Orderly
  BY SharedAssumption, OwnApart, EmptySeq
     DEF Init, Orderly, Handoff, QueueTypes, EntriesWait, WaitersQueued, InOrder,
         HeadIsWoken
<1> QED  BY <1>1, OrderlyStep, SharedInvariant, PTL DEF Spec

\* release_inner hands the lock over: while nobody is cancelled or gives up, the
\* head of the queue of a free lock has been woken or is being woken, whichever
\* tasks release, panic or return meanwhile.
THEOREM FreeLockWakesHead == Spec => []HeadIsWoken
<1>1. Orderly => HeadIsWoken
  BY DEF Orderly, Handoff, HeadIsWoken
<1> QED  BY <1>1, OrderlyInvariant, PTL

\* Nobody overtakes a waiter: a step that takes the lock is of the task with the
\* smallest ticket in the queue, or finds the queue empty.
LEMMA TakesInTurn ==
    ASSUME IInv, Orderly, Next, clean, NEW t \in Tasks, held'[t] > held[t],
           NEW i \in DOMAIN queue, RealWaiter(queue[i]), queue[i].task # t
    PROVE  st[cur[t]] = "queued" /\ ticket[cur[t]] < queue[i].ticket
<1> USE SharedAssumption
<1>b. QueueTypes /\ EntriesWait /\ WaitersQueued /\ InOrder
  BY DEF Orderly, Handoff
<1>c. Pruned(queue, alive) = queue
  BY <1>b, NothingToPrune
<1>d. /\ queue # <<>> /\ 1 \in DOMAIN queue /\ Head(queue) = queue[1]
      /\ i \in 1 .. Len(queue)
  BY <1>b DEF QueueTypes
<1>e. held' # held /\ ~ \E u \in Tasks : \E v \in 0 .. held[u] : held' = [held EXCEPT ![u] = v]
  BY DEF IInv, Shape
<1>1. ASSUME NEW u \in Tasks, NEW q, Acquire(u, q)  PROVE u = t
  BY <1>1 DEF Acquire, IInv, Shape
<1>2. ASSUME NEW u \in Tasks, AdvanceQueued(u)
      PROVE  u = t /\ Polls(t, "queued") /\ Head(queue).ticket = ticket[cur[t]]
  <2>1. Acquire(u, Tail(queue)) /\ Head(queue).ticket = ticket[cur[u]]
    BY <1>2, <1>c, <1>e DEF AdvanceQueued
  <2> QED  BY <1>1, <1>2, <2>1 DEF AdvanceQueued
<1>3. ASSUME NEW u \in Tasks, AdvanceInit(u)  PROVE FALSE
  <2>1. WithoutTask(queue, u) = queue
    BY <1>3, <1>b, NothingToRemove DEF AdvanceInit, Polls
  <2> QED  BY <1>3, <1>c, <1>d, <1>e, <2>1 DEF AdvanceInit, Enqueue
<1>4. ASSUME NEW u \in Tasks, AdvanceMissing(u)  PROVE FALSE
  <2>1. u \in alive /\ cur[u] \in Own(u) /\ st[cur[u]] = "queued"
    BY <1>4 DEF AdvanceMissing, Polls, IInv, Shape
  <2>2. PICK j \in DOMAIN queue : queue[j].task = u
    BY <1>b, <2>1 DEF WaitersQueued
  <2>3. queue[j].ticket = ticket[cur[u]]
    BY <1>b, <2>2 DEF EntriesWait, RealWaiter
  <2> QED  BY <1>4, <1>c, <2>3 DEF AdvanceMissing, HasTicket
<1>5. ASSUME NEW u \in Tasks, TryLock(u)  PROVE FALSE
  BY <1>5, <1>d DEF TryLock, IInv, Shape
<1>6. ASSUME NEW u \in Tasks,
             FinishLocked(u) \/ Panic(u) \/ CancelTask(u)
      PROVE  FALSE
  <2>1. CASE FinishLocked(u)
    <3>1. held[u] = 1
      BY <2>1 DEF FinishLocked, IInv, Shape, BodiesHold
    <3>2. held' = [held EXCEPT ![u] = 0] /\ 0 \in 0 .. held[u]
      BY <2>1, <3>1 DEF FinishLocked
    <3> QED  BY <3>2, <1>e
  <2>2. CASE Panic(u) \/ CancelTask(u)
    <3>1. 0 \in 0 .. held[u]
      BY DEF IInv, Shape
    <3> QED  BY <2>2, <3>1, <1>e DEF Panic, CancelTask, Drain
  <2> QED  BY <1>6, <2>1, <2>2
<1>7. Polls(t, "queued") /\ Head(queue).ticket = ticket[cur[t]]
  BY <1>2, <1>3, <1>4, <1>5, <1>6, <1>e
     DEF Next, Poll, TimeoutBody, CallWaker, StaleWake, EndTask, Await
<1>8. PICK k \in DOMAIN queue : queue[k].task = t /\ queue[k].ticket = ticket[cur[t]]
  BY <1>7, <1>b DEF Polls, WaitersQueued, EntriesWait, RealWaiter, IInv, Shape
<1>9. k = 1
  <2>1. k \in 1 .. Len(queue) /\ 1 \in DOMAIN queue
    BY <1>8, <1>b, <1>d DEF QueueTypes
  <2>2. queue[1].ticket \in Nat
    BY <1>b, <2>1, Entries
  <2> QED  BY <2>1, <2>2, <1>7, <1>8, <1>b, <1>d DEF InOrder
<1> QED  BY <1>7, <1>8, <1>9, <1>b, <1>d DEF Polls, InOrder

\* While nobody is cancelled or gives up, acquisition is first come, first
\* served: who takes the lock passes no live waiter's ticket.
THEOREM AcquisitionIsFair == Spec => NoBarging
<1>1. IInv /\ Orderly /\ [Next]_vars =>
        [\A t \in Tasks :
            clean /\ held'[t] > held[t] =>
               \A i \in DOMAIN queue :
                   RealWaiter(queue[i]) /\ queue[i].task # t =>
                       /\ st[cur[t]] = "queued"
                       /\ ticket[cur[t]] < queue[i].ticket]_vars
  BY TakesInTurn
<1> QED  BY <1>1, SharedInvariant, OrderlyInvariant, PTL DEF Spec, NoBarging
=============================================================================
