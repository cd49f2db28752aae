--------------------------- MODULE ExecutorProofs ---------------------------
(***************************************************************************)
(* Both ends of the executor (threads.rs).  The worker pool: no submitted  *)
(* copy sleeps behind sleeping workers, and the queues implement RunPool.  *)
(* The handoff of an outcome (JoinHandle): its root has one owner at a     *)
(* time and keeps it alive until the first joiner has it.  For any number  *)
(* of workers, submitters, copies, joiners and collections.                *)
(***************************************************************************)
EXTENDS WorkerPool, JoinHandle, FiniteSetTheorems, TLAPS

\* The sleepers counter counts the workers between its fetch_add and fetch_sub.
SleepersExact ==
    \A w \in Workers :
        w \in sleepers <=> pc[w] \in {"definitive", "waiting", "woken"}

\* sleep_epoch is held exactly by the worker in its definitive scan.
LockHeld ==
    \A w \in Workers : pc[w] = "definitive" <=> epochLock = w

\* A scan starts at the worker's own queue.
ScanFromStart ==
    \A w \in Workers : pc[w] \notin {"scan", "definitive"} => pos[w] = 1

\* Somebody other than w will look after a queued copy.
Attended(w) ==
    \/ \E t \in Threads : InFlight(t)
    \/ \E v \in Workers \ {w} : ~Asleep(v)

\* A copy in a queue that a definitive scan has already passed was pushed
\* since, and its submitter cannot finish before the scanning worker waits.
ScanSound ==
    \A w \in Workers : pc[w] = "definitive" =>
        \A i \in 1 .. LastPos :
            i < pos[w] /\ queue[QueueAt(w, i)] # <<>> => Attended(w)

\* The inductive invariant behind NoLostSubmission.
IInv ==
    /\ TypeOK
    /\ SleepersExact
    /\ LockHeld
    /\ ScanFromStart
    /\ ScanSound
    /\ NoLostSubmission

-----------------------------------------------------------------------------
\* QueueAt yields an index of the executor's queues (pop_task's victim index
\* never leaves the worker vector).
LEMMA QueueAtType ==
    ASSUME NEW w \in Workers, NEW i \in 1 .. LastPos
    PROVE  QueueAt(w, i) \in Queues
  BY PoolAssumption DEF Workers, Queues, LastPos, QueueAt, Injector

\* A full scan of pop_task_definitive looks at every queue of the executor.
LEMMA ScanCoversAllQueues ==
    ASSUME NEW w \in Workers, NEW q \in Queues
    PROVE  \E i \in 1 .. LastPos : QueueAt(w, i) = q
  <1> USE PoolAssumption DEF Workers, Queues, LastPos, Injector
  <1>1. CASE q = w
    <2>1. 1 \in 1 .. LastPos /\ QueueAt(w, 1) = q
      BY <1>1 DEF QueueAt
    <2> QED  BY <2>1
  <1>2. CASE q = NumWorkers
    <2>1. 2 \in 1 .. LastPos /\ QueueAt(w, 2) = q
      BY <1>2 DEF QueueAt
    <2> QED  BY <2>1
  <1>3. CASE q # w /\ q # NumWorkers /\ q > w
    <2>1. q - w + 2 \in 1 .. LastPos /\ QueueAt(w, q - w + 2) = q
      BY <1>3 DEF QueueAt
    <2> QED  BY <2>1
  <1>4. CASE q # w /\ q # NumWorkers /\ q < w
    <2>1. q - w + NumWorkers + 2 \in 1 .. LastPos
      BY <1>4
    <2>2. QueueAt(w, q - w + NumWorkers + 2) = q
      BY <1>4 DEF QueueAt
    <2> QED  BY <2>1, <2>2
  <1> QED  BY <1>1, <1>2, <1>3, <1>4

\* Popping the front or the back of a non-empty run queue yields one of its copies
\* and leaves a queue of copies.
LEMMA PoppedType ==
    ASSUME TypeOK, NEW w \in Workers, NEW i \in 1 .. LastPos,
           queue[QueueAt(w, i)] # <<>>
    PROVE  /\ Popped(w, i) \in Copies
           /\ Rest(w, i) \in Seq(Copies)
  <1> DEFINE q == queue[QueueAt(w, i)]
  <1>1. q \in Seq(Copies) /\ q # <<>>
    BY QueueAtType DEF TypeOK
  <1>2. Len(q) \in Nat /\ Len(q) > 0
    BY <1>1
  <1>3. Head(q) \in Copies /\ Tail(q) \in Seq(Copies)
    BY <1>1
  <1>4. q[Len(q)] \in Copies /\ SubSeq(q, 1, Len(q) - 1) \in Seq(Copies)
    BY <1>1, <1>2
  <1> QED  BY <1>3, <1>4 DEF Popped, Rest

-----------------------------------------------------------------------------
\* Type correctness is inductive.
LEMMA TypeStep == TypeOK /\ [Next]_vars => TypeOK'
  <1> SUFFICES ASSUME TypeOK, [Next]_vars PROVE TypeOK'
    OBVIOUS
  <1> USE PoolAssumption
  <1>1. CASE ExecutorStart
    BY <1>1 DEF TypeOK, ExecutorStart
  <1>2. ASSUME NEW t \in Threads, NEW c \in Copies, Spawn(t, c) PROVE TypeOK'
    <2>1. next \in Queues
      BY DEF TypeOK, Workers, Queues
    <2>2. queue' \in [Queues -> Seq(Copies)]
      BY <1>2, <2>1 DEF TypeOK, Spawn, Push
    <2>3. next' \in Workers
      BY <1>2 DEF TypeOK, Spawn, Workers
    <2> QED  BY <1>2, <2>2, <2>3 DEF TypeOK, Spawn, Push
  <1>3. ASSUME NEW t \in Threads, NEW c \in Copies, InjectMarked(t, c) PROVE TypeOK'
    <2>1. Injector \in Queues
      BY DEF Injector, Queues
    <2>2. queue' \in [Queues -> Seq(Copies)]
      BY <1>3, <2>1 DEF TypeOK, InjectMarked, Push
    <2> QED  BY <1>3, <2>2 DEF TypeOK, InjectMarked, Push
  <1>4. ASSUME NEW t \in Threads, LoadSleepers(t) PROVE TypeOK'
    BY <1>4 DEF TypeOK, LoadSleepers
  <1>5. ASSUME NEW t \in Threads, BumpEpoch(t) PROVE TypeOK'
    BY <1>5 DEF TypeOK, BumpEpoch, InWaitSet
  <1>6. ASSUME NEW w \in Workers, WorkerReady(w) PROVE TypeOK'
    BY <1>6 DEF TypeOK, WorkerReady
  <1>7. ASSUME NEW w \in Workers, TakeFrom(w)
        PROVE  /\ queue' \in [Queues -> Seq(Copies)]
               /\ current' \in [Workers -> Copies \cup {NoOne}]
               /\ pos' \in [Workers -> 1 .. LastPos]
               /\ pc' \in [Workers -> {"boot", "scan", "lock", "definitive",
                                       "waiting", "woken", "run"}]
    <2>1. pos[w] \in 1 .. LastPos /\ 1 \in 1 .. LastPos
      BY DEF TypeOK, LastPos
    <2>2. Popped(w, pos[w]) \in Copies /\ Rest(w, pos[w]) \in Seq(Copies)
      BY <1>7, <2>1, PoppedType DEF TakeFrom
    <2>3. QueueAt(w, pos[w]) \in Queues
      BY <2>1, QueueAtType
    <2> QED  BY <1>7, <2>1, <2>2, <2>3 DEF TypeOK, TakeFrom
  <1>8. ASSUME NEW w \in Workers, PopTask(w) PROVE TypeOK'
    <2>1. TakeFrom(w)
      BY <1>8 DEF PopTask
    <2> QED  BY <1>7, <1>8, <2>1 DEF TypeOK, PopTask
  <1>9. ASSUME NEW w \in Workers, PopTaskSkip(w) PROVE TypeOK'
    <2>1. pos[w] \in 1 .. LastPos /\ 1 \in 1 .. LastPos /\ LastPos \in Nat
      BY DEF TypeOK, LastPos
    <2>2. pos' \in [Workers -> 1 .. LastPos]
      <3>1. CASE pos[w] < LastPos
        <4>1. pos[w] + 1 \in 1 .. LastPos
          BY <2>1, <3>1
        <4> QED  BY <1>9, <3>1, <4>1 DEF TypeOK, PopTaskSkip
      <3>2. CASE ~(pos[w] < LastPos)
        BY <1>9, <2>1, <3>2 DEF TypeOK, PopTaskSkip
      <3> QED  BY <3>1, <3>2
    <2> QED  BY <1>9, <2>2 DEF TypeOK, PopTaskSkip
  <1>10. ASSUME NEW w \in Workers, LockEpoch(w) PROVE TypeOK'
    BY <1>10 DEF TypeOK, LockEpoch
  <1>11. ASSUME NEW w \in Workers, PopDefinitive(w) PROVE TypeOK'
    <2>1. TakeFrom(w)
      BY <1>11 DEF PopDefinitive
    <2> QED  BY <1>7, <1>11, <2>1 DEF TypeOK, PopDefinitive
  <1>12. ASSUME NEW w \in Workers, PopDefinitiveEmpty(w) PROVE TypeOK'
    <2>1. pos[w] \in 1 .. LastPos /\ 1 \in 1 .. LastPos /\ LastPos \in Nat
      BY DEF TypeOK, LastPos
    <2>2. pos' \in [Workers -> 1 .. LastPos]
      <3>1. CASE pos[w] < LastPos
        <4>1. pos[w] + 1 \in 1 .. LastPos
          BY <2>1, <3>1
        <4> QED  BY <1>12, <3>1, <4>1 DEF TypeOK, PopDefinitiveEmpty
      <3>2. CASE ~(pos[w] < LastPos)
        <4>1. pos' = [pos EXCEPT ![w] = 1]
          BY <1>12, <3>2 DEF PopDefinitiveEmpty
        <4> QED  BY <2>1, <4>1 DEF TypeOK
      <3> QED  BY <3>1, <3>2
    <2> QED  BY <1>12, <2>2 DEF TypeOK, PopDefinitiveEmpty
  <1>13. ASSUME NEW w \in Workers, SpuriousWake(w) PROVE TypeOK'
    BY <1>13 DEF TypeOK, SpuriousWake
  <1>14. ASSUME NEW w \in Workers, Reacquire(w) PROVE TypeOK'
    BY <1>14 DEF TypeOK, Reacquire
  <1>15. ASSUME NEW w \in Workers, FinishPoll(w) PROVE TypeOK'
    BY <1>15 DEF TypeOK, FinishPoll
  <1>16. CASE UNCHANGED vars
    BY <1>16 DEF TypeOK, vars
  <1> QED
    BY <1>1, <1>2, <1>3, <1>4, <1>5, <1>6, <1>8, <1>9, <1>10, <1>11, <1>12,
       <1>13, <1>14, <1>15, <1>16
    DEF Next, Submitting, Working

\* WorkerPool's variables keep their types, whatever the number of workers.
THEOREM PoolTypeCorrect == Spec => []TypeOK
  <1>1. Init => TypeOK
    BY PoolAssumption DEF Init, TypeOK, Workers, LastPos
  <1> QED  BY <1>1, TypeStep, PTL DEF Spec

-----------------------------------------------------------------------------

\* Every action preserves the bookkeeping of sleepers, the mutex and the scan
\* position.
LEMMA BookkeepingStep ==
    TypeOK /\ SleepersExact /\ LockHeld /\ ScanFromStart /\ [Next]_vars
      => SleepersExact' /\ LockHeld' /\ ScanFromStart'
  <1> SUFFICES ASSUME TypeOK, SleepersExact, LockHeld, ScanFromStart, [Next]_vars
               PROVE  SleepersExact' /\ LockHeld' /\ ScanFromStart'
    OBVIOUS
  <1> USE PoolAssumption DEF TypeOK, SleepersExact, LockHeld, ScanFromStart
  <1>1. CASE ExecutorStart
    BY <1>1 DEF ExecutorStart
  <1>2. ASSUME NEW t \in Threads, NEW c \in Copies,
               Spawn(t, c) \/ InjectMarked(t, c)
        PROVE  SleepersExact' /\ LockHeld' /\ ScanFromStart'
    BY <1>2 DEF Spawn, InjectMarked, Push
  <1>3. ASSUME NEW t \in Threads, LoadSleepers(t)
        PROVE  SleepersExact' /\ LockHeld' /\ ScanFromStart'
    BY <1>3 DEF LoadSleepers
  <1>4. ASSUME NEW t \in Threads, BumpEpoch(t)
        PROVE  SleepersExact' /\ LockHeld' /\ ScanFromStart'
    BY <1>4 DEF BumpEpoch, InWaitSet
  <1>5. ASSUME NEW w \in Workers, WorkerReady(w) \/ PopTask(w) \/ FinishPoll(w)
        PROVE  SleepersExact' /\ LockHeld' /\ ScanFromStart'
    <2>1. CASE WorkerReady(w)
      BY <2>1 DEF WorkerReady
    <2>2. CASE PopTask(w)
      BY <2>2 DEF PopTask, TakeFrom
    <2>3. CASE FinishPoll(w)
      BY <2>3 DEF FinishPoll
    <2> QED  BY <1>5, <2>1, <2>2, <2>3
  <1>6. ASSUME NEW w \in Workers, PopTaskSkip(w)
        PROVE  SleepersExact' /\ LockHeld' /\ ScanFromStart'
    BY <1>6 DEF PopTaskSkip
  <1>7. ASSUME NEW w \in Workers, LockEpoch(w)
        PROVE  SleepersExact' /\ LockHeld' /\ ScanFromStart'
    BY <1>7 DEF LockEpoch
  <1>8. ASSUME NEW w \in Workers, PopDefinitive(w)
        PROVE  SleepersExact' /\ LockHeld' /\ ScanFromStart'
    BY <1>8 DEF PopDefinitive, TakeFrom
  <1>9. ASSUME NEW w \in Workers, PopDefinitiveEmpty(w)
        PROVE  SleepersExact' /\ LockHeld' /\ ScanFromStart'
    <2>1. CASE pos[w] < LastPos
      BY <1>9, <2>1 DEF PopDefinitiveEmpty
    <2>2. CASE ~(pos[w] < LastPos)
      <3>1. /\ pc' = [pc EXCEPT ![w] = "waiting"]
            /\ pos' = [pos EXCEPT ![w] = 1]
            /\ epochLock' = NoOne
            /\ sleepers' = sleepers
            /\ pc[w] = "definitive"
        BY <1>9, <2>2 DEF PopDefinitiveEmpty
      <3> QED  BY <3>1
    <2> QED  BY <2>1, <2>2
  <1>10. ASSUME NEW w \in Workers, SpuriousWake(w)
         PROVE  SleepersExact' /\ LockHeld' /\ ScanFromStart'
    BY <1>10 DEF SpuriousWake
  <1>11. ASSUME NEW w \in Workers, Reacquire(w)
         PROVE  SleepersExact' /\ LockHeld' /\ ScanFromStart'
    BY <1>11 DEF Reacquire
  <1>12. CASE UNCHANGED vars
    BY <1>12 DEF vars
  <1> QED
    BY <1>1, <1>2, <1>3, <1>4, <1>5, <1>6, <1>7, <1>8, <1>9, <1>10, <1>11, <1>12
    DEF Next, Submitting, Working

-----------------------------------------------------------------------------

\* The steps of submitting threads preserve ScanSound and NoLostSubmission.
LEMMA SubmitStep ==
    ASSUME IInv, TypeOK', LockHeld', NEW t \in Threads, Submitting(t)
    PROVE  ScanSound' /\ NoLostSubmission'
  <1> USE PoolAssumption
  <1>1. CASE \E c \in Copies : Spawn(t, c) \/ InjectMarked(t, c)
    <2>1. InFlight(t)'
      BY <1>1 DEF Spawn, InjectMarked, Push, InFlight, IInv, TypeOK
    <2> QED  BY <2>1 DEF NoLostSubmission, ScanSound, Attended
  <1>2. CASE LoadSleepers(t)
    <2>1. CASE sleepers = {}
      <3>1. \A v \in Workers : pc[v] \notin {"definitive", "waiting", "woken"}
        BY <2>1 DEF IInv, SleepersExact
      <3>2. pc' = pc
        BY <1>2 DEF LoadSleepers
      <3>3. 0 \in Workers
        BY DEF Workers
      <3>4. ~Asleep(0)'
        BY <3>1, <3>2, <3>3 DEF Asleep
      <3> QED  BY <3>1, <3>2, <3>3, <3>4 DEF ScanSound, NoLostSubmission
    <2>2. CASE sleepers # {}
      <3>1. InFlight(t)'
        BY <1>2, <2>2 DEF LoadSleepers, InFlight, IInv, TypeOK
      <3> QED  BY <3>1 DEF NoLostSubmission, ScanSound, Attended
    <2> QED  BY <2>1, <2>2
  <1>3. CASE BumpEpoch(t)
    <2>1. epochLock' = NoOne
      BY <1>3 DEF BumpEpoch
    <2>2. ScanSound'
      BY <2>1 DEF LockHeld, ScanSound
    <2>3. CASE InWaitSet = {}
      <3>1. 0 \in Workers
        BY DEF Workers
      <3>2. pc' = pc
        BY <1>3, <2>3 DEF BumpEpoch
      <3>3. pc[0] = "woken" => 0 \in moved'
        BY <1>3, <3>1 DEF BumpEpoch
      <3>4. pc[0] # "waiting"
        BY <2>3, <3>1 DEF InWaitSet
      <3>5. ~Asleep(0)'
        BY <3>2, <3>3, <3>4 DEF Asleep
      <3> QED  BY <2>2, <3>1, <3>5 DEF NoLostSubmission
    <2>4. ASSUME NEW w \in InWaitSet, pc' = [pc EXCEPT ![w] = "woken"]
          PROVE  NoLostSubmission'
      <3>1. w \in Workers /\ pc[w] = "waiting"
        BY <2>4 DEF InWaitSet
      <3>2. pc'[w] = "woken" /\ w \in moved'
        BY <1>3, <2>4, <3>1 DEF BumpEpoch, IInv, TypeOK
      <3>3. ~Asleep(w)'
        BY <3>2 DEF Asleep
      <3> QED  BY <3>1, <3>3 DEF NoLostSubmission
    <2> QED  BY <1>3, <2>2, <2>3, <2>4 DEF BumpEpoch
  <1> QED  BY <1>1, <1>2, <1>3 DEF Submitting

\* A step of a worker after which it is not asleep, made from a state in which it
\* was not asleep either, and which changes no other worker and adds to no
\* queue, preserves ScanSound for the others and NoLostSubmission.
LEMMA AwakeStep ==
    ASSUME IInv, TypeOK', NEW w \in Workers,
           pc[w] # "definitive", pc'[w] # "definitive",
           ~Asleep(w)',
           \A v \in Workers : v # w => pc'[v] = pc[v] /\ pos'[v] = pos[v]
    PROVE  ScanSound' /\ NoLostSubmission'
  <1>1. NoLostSubmission'
    BY DEF NoLostSubmission
  <1>2. \A v \in Workers : v # w => Attended(v)'
    BY DEF Attended
  <1> QED  BY <1>1, <1>2 DEF ScanSound

\* The steps of workers preserve ScanSound and NoLostSubmission.
LEMMA WorkStep ==
    ASSUME IInv, TypeOK', LockHeld', NEW w \in Workers,
           Working(w) \/ SpuriousWake(w)
    PROVE  ScanSound' /\ NoLostSubmission'
  <1> USE PoolAssumption
  <1>1. CASE WorkerReady(w) \/ PopTask(w) \/ PopTaskSkip(w) \/ FinishPoll(w)
    <2>1. /\ pc[w] # "definitive" /\ pc'[w] \in {"scan", "run", "lock"}
          /\ \A v \in Workers : v # w => pc'[v] = pc[v] /\ pos'[v] = pos[v]
      BY <1>1 DEF IInv, TypeOK, WorkerReady, PopTask, PopTaskSkip, FinishPoll,
                  TakeFrom
    <2>2. ~Asleep(w)'
      BY <2>1 DEF Asleep
    <2> QED  BY <2>1, <2>2, AwakeStep
  <1>2. CASE LockEpoch(w)
    <2>1. pc'[w] = "definitive" /\ epochLock' = w
      BY <1>2 DEF LockEpoch, IInv, TypeOK
    <2>2. pos[w] = 1 /\ pos' = pos
      BY <1>2 DEF LockEpoch, IInv, ScanFromStart
    <2>3. \A v \in Workers : pc'[v] = "definitive" => v = w
      BY <2>1 DEF LockHeld
    <2>4. ScanSound'
      BY <2>2, <2>3 DEF ScanSound, LastPos
    <2>5. ~Asleep(w)'
      BY <2>1 DEF Asleep
    <2> QED  BY <2>4, <2>5 DEF NoLostSubmission
  <1>3. CASE PopDefinitive(w)
    <2>1. pc'[w] = "run" /\ epochLock' = NoOne
      BY <1>3 DEF PopDefinitive, TakeFrom, IInv, TypeOK
    <2>2. ScanSound'
      BY <2>1 DEF ScanSound, LockHeld
    <2>3. ~Asleep(w)'
      BY <2>1 DEF Asleep
    <2> QED  BY <2>2, <2>3 DEF NoLostSubmission
  <1>4. CASE PopDefinitiveEmpty(w)
    <2>0. /\ pc[w] = "definitive" /\ queue' = queue /\ stage' = stage
          /\ queue[QueueAt(w, pos[w])] = <<>>
          /\ pos[w] \in 1 .. LastPos /\ LastPos \in Nat
      BY <1>4 DEF PopDefinitiveEmpty, IInv, TypeOK, LastPos
    <2>1. CASE pos[w] < LastPos
      <3>1. /\ pc' = pc /\ moved' = moved /\ epochLock' = epochLock
            /\ pos' = [pos EXCEPT ![w] = pos[w] + 1]
        BY <1>4, <2>1 DEF PopDefinitiveEmpty
      <3>2. ~Asleep(w)'
        BY <2>0, <3>1 DEF Asleep
      <3>3. \A v \in Workers : pc[v] = "definitive" => v = w
        BY <2>0 DEF IInv, LockHeld
      <3>4. Attended(w) => Attended(w)'
        BY <2>0, <3>1 DEF Attended, InFlight, Asleep
      <3>5. \A i \in 1 .. LastPos :
              i < pos'[w] /\ queue[QueueAt(w, i)] # <<>> => i < pos[w]
        BY <2>0, <3>1 DEF IInv, TypeOK
      <3>6. ScanSound'
        BY <2>0, <3>1, <3>3, <3>4, <3>5 DEF ScanSound, IInv
      <3> QED  BY <3>2, <3>6 DEF NoLostSubmission
    <2>2. CASE ~(pos[w] < LastPos)
      <3>1. /\ pc' = [pc EXCEPT ![w] = "waiting"] /\ moved' = moved \ {w}
            /\ epochLock' = NoOne
        BY <1>4, <2>2 DEF PopDefinitiveEmpty
      <3>2. ScanSound'
        BY <3>1 DEF ScanSound, LockHeld
      <3>3. ASSUME NEW q \in Queues, queue[q] # <<>> PROVE Attended(w)
        <4>1. PICK i \in 1 .. LastPos : QueueAt(w, i) = q
          BY ScanCoversAllQueues
        <4>2. i # pos[w]
          BY <2>0, <3>3, <4>1
        <4>3. i < pos[w]
          BY <2>0, <2>2, <4>1, <4>2
        <4> QED  BY <2>0, <3>3, <4>1, <4>3 DEF IInv, ScanSound
      <3>4. Attended(w) => Attended(w)'
        <4>1. \A v \in Workers \ {w} : ~Asleep(v) => ~Asleep(v)'
          BY <3>1 DEF Asleep, IInv, TypeOK
        <4> QED  BY <2>0, <4>1 DEF Attended, InFlight
      <3>5. NoLostSubmission'
        BY <2>0, <3>3, <3>4 DEF NoLostSubmission, Attended
      <3> QED  BY <3>2, <3>5
    <2> QED  BY <2>1, <2>2
  <1>5. CASE SpuriousWake(w)
    <2>1. /\ pc[w] = "waiting" /\ pc' = [pc EXCEPT ![w] = "woken"]
          /\ moved' = moved /\ queue' = queue /\ stage' = stage /\ pos' = pos
      BY <1>5 DEF SpuriousWake
    <2>2. \A v \in Workers : ~Asleep(v) => ~Asleep(v)'
      BY <2>1 DEF Asleep, IInv, TypeOK
    <2>3. \A t \in Threads : InFlight(t) => InFlight(t)'
      BY <2>1 DEF InFlight
    <2>4. \A v \in Workers : pc'[v] = "definitive" => pc[v] = "definitive"
      BY <2>1 DEF IInv, TypeOK
    <2>5. \A v \in Workers : Attended(v) => Attended(v)'
      BY <2>2, <2>3 DEF Attended
    <2>6. ScanSound'
      BY <2>1, <2>4, <2>5 DEF ScanSound, IInv
    <2>7. NoLostSubmission'
      BY <2>1, <2>2, <2>3 DEF NoLostSubmission, IInv
    <2> QED  BY <2>6, <2>7
  <1>6. CASE Reacquire(w)
    <2>1. /\ pc[w] = "woken" /\ epochLock' = NoOne
          /\ queue' = queue /\ stage' = stage
      BY <1>6 DEF Reacquire
    <2>2. ScanSound'
      BY <2>1 DEF ScanSound, LockHeld
    <2>3. \A v \in Workers : ~Asleep(v) => ~Asleep(v)'
      BY <1>6 DEF Reacquire, Asleep, IInv, TypeOK
    <2>4. NoLostSubmission'
      BY <2>1, <2>3 DEF NoLostSubmission, InFlight, IInv
    <2> QED  BY <2>2, <2>4
  <1> QED
    BY <1>1, <1>2, <1>3, <1>4, <1>5, <1>6 DEF Working

-----------------------------------------------------------------------------
\* The invariant is inductive.
LEMMA IInvStep == IInv /\ [Next]_vars => IInv'
  <1> SUFFICES ASSUME IInv, [Next]_vars PROVE IInv'
    OBVIOUS
  <1>1. TypeOK'
    BY TypeStep DEF IInv
  <1>2. SleepersExact' /\ LockHeld' /\ ScanFromStart'
    BY BookkeepingStep DEF IInv
  <1>3. ScanSound' /\ NoLostSubmission'
    <2>1. CASE ExecutorStart
      BY <2>1 DEF ExecutorStart, IInv, ScanSound, NoLostSubmission, Attended,
                  Asleep, InFlight
    <2>2. ASSUME NEW t \in Threads, Submitting(t)
          PROVE  ScanSound' /\ NoLostSubmission'
      BY <1>1, <1>2, <2>2, SubmitStep
    <2>3. ASSUME NEW w \in Workers, Working(w) \/ SpuriousWake(w)
          PROVE  ScanSound' /\ NoLostSubmission'
      BY <1>1, <1>2, <2>3, WorkStep
    <2>4. CASE UNCHANGED vars
      BY <2>4 DEF vars, IInv, ScanSound, NoLostSubmission, Attended, Asleep,
                  InFlight
    <2> QED  BY <2>1, <2>2, <2>3, <2>4 DEF Next
  <1> QED  BY <1>1, <1>2, <1>3 DEF IInv

\* The pool starts with every worker awake and the queues empty.
LEMMA IInvInit == Init => IInv
  <1> SUFFICES ASSUME Init PROVE IInv
    OBVIOUS
  <1>1. TypeOK
    BY PoolAssumption DEF Init, TypeOK, Workers, LastPos
  <1>2. SleepersExact /\ LockHeld /\ ScanFromStart /\ ScanSound
    BY PoolAssumption DEF Init, SleepersExact, LockHeld, ScanFromStart, ScanSound
  <1>3. NoLostSubmission
    BY DEF Init, NoLostSubmission
  <1> QED  BY <1>1, <1>2, <1>3 DEF IInv

\* wait_for_task and wake_one_sleeper lose no submission, whatever the number
\* of workers and submitters: a queued copy never waits for sleeping workers only.
THEOREM NoSubmissionIsLost == Spec => []NoLostSubmission
  <1>1. IInv => NoLostSubmission
    BY DEF IInv
  <1> QED  BY <1>1, IInvInit, IInvStep, PTL DEF Spec

-----------------------------------------------------------------------------
(* Every copy is in one place, so the pool implements the steps of RunPool *)
(* and one notification per push is enough.                                *)

InQueue(q) == {queue[q][i] : i \in DOMAIN queue[q]}

\* A submitted copy is in one queue, once, and a worker polls one copy at most.
OnePlace ==
    /\ \A q, r \in Queues : \A i \in DOMAIN queue[q], j \in DOMAIN queue[r] :
          queue[q][i] = queue[r][j] => q = r /\ i = j
    /\ QueuedCopies \cap fresh = {}
    /\ \A w \in Workers : pc[w] # "run" => current[w] = NoOne

Flying    == {t \in Threads : InFlight(t)}
Passed(w) == UNION {InQueue(QueueAt(w, i)) : i \in 1 .. (pos[w] - 1)}

\* The queues a definitive scan has passed hold only what was pushed since, by
\* threads that still have to wake a sleeper; and while a worker is asleep, the
\* others and the pending notifications are enough for what is queued.
Enough ==
    /\ IsFiniteSet(QueuedCopies) /\ IsFiniteSet(Flying)
    /\ \A w \in Workers : pc[w] = "definitive" =>
          Cardinality(Passed(w)) <= Cardinality(Flying)
    /\ (\E w \in Workers : Asleep(w)) =>
          Cardinality(QueuedCopies) <= Cardinality(Heading) + Cardinality(Flying)

\* What is in a queue, position by position.
LEMMA InQueueMembers ==
    ASSUME TypeOK, NEW q \in Queues
    PROVE  /\ Len(queue[q]) \in Nat /\ DOMAIN queue[q] = 1 .. Len(queue[q])
           /\ InQueue(q) \subseteq QueuedCopies
  BY DEF TypeOK, InQueue, QueuedCopies

\* A pop removes one end of the queue and keeps the order of the others.
LEMMA RestOf ==
    ASSUME TypeOK, NEW w \in Workers, NEW i \in 1 .. LastPos,
           queue[QueueAt(w, i)] # <<>>
    PROVE  LET q == queue[QueueAt(w, i)]
               r == Rest(w, i)
           IN  \E d \in {0, 1} :
                  /\ Len(q) \in Nat \ {0} /\ Len(r) = Len(q) - 1
                  /\ \A j \in 1 .. Len(r) : r[j] = q[j + d]
                  /\ Popped(w, i) = q[IF d = 1 THEN 1 ELSE Len(q)]
  <1> DEFINE q == queue[QueueAt(w, i)]
             r == Rest(w, i)
  <1>1. q \in Seq(Copies) /\ q # <<>>
    BY QueueAtType DEF TypeOK
  <1>2. Len(q) \in Nat /\ Len(q) > 0
    BY <1>1
  <1>3. CASE i <= 2
    <2>1. r = Tail(q) /\ Popped(w, i) = q[1]
      BY <1>1, <1>3 DEF Rest, Popped
    <2>2. Len(r) = Len(q) - 1 /\ \A j \in 1 .. Len(r) : r[j] = q[j + 1]
      BY <1>1, <1>2, <2>1
    <2> QED  BY <1>2, <2>1, <2>2
  <1>4. CASE ~(i <= 2)
    <2>1. r = SubSeq(q, 1, Len(q) - 1) /\ Popped(w, i) = q[Len(q)]
      BY <1>4 DEF Rest, Popped
    <2>2. Len(r) = Len(q) - 1 /\ \A j \in 1 .. Len(r) : r[j] = q[j + 0]
      BY <1>1, <1>2, <2>1
    <2> QED  BY <1>2, <2>1, <2>2
  <1> QED  BY <1>3, <1>4

\* Executor::spawn and inject_marked add one new copy.
LEMMA Pushed ==
    ASSUME IInv, OnePlace, NEW t \in Threads, NEW c \in Copies, NEW q \in Queues,
           Push(t, c, q)
    PROVE  /\ OnePlace'
           /\ c \notin QueuedCopies /\ QueuedCopies' = QueuedCopies \cup {c}
           /\ \A r \in Queues : InQueue(r)' \subseteq InQueue(r) \cup {c}
  <1>1. /\ c \in fresh /\ fresh' = fresh \ {c} /\ pc' = pc /\ current' = current
        /\ queue' = [queue EXCEPT ![q] = Append(queue[q], c)]
    BY DEF Push
  <1>2. TypeOK
    BY DEF IInv
  <1>3. c \notin QueuedCopies
    BY <1>1 DEF OnePlace
  <1>4. /\ queue[q] \in Seq(Copies) /\ Len(queue[q]) \in Nat
        /\ DOMAIN queue[q] = 1 .. Len(queue[q])
    BY <1>2, InQueueMembers DEF TypeOK
  <1>5. /\ DOMAIN queue'[q] = 1 .. (Len(queue[q]) + 1)
        /\ \A i \in 1 .. Len(queue[q]) : queue'[q][i] = queue[q][i]
        /\ queue'[q][Len(queue[q]) + 1] = c
        /\ \A r \in Queues : r # q => queue'[r] = queue[r]
    BY <1>1, <1>2, <1>4 DEF TypeOK
  <1>6. InQueue(q)' = InQueue(q) \cup {c}
    <2>1. \A x \in InQueue(q)' : x \in InQueue(q) \cup {c}
      BY <1>4, <1>5 DEF InQueue
    <2>2. \A x \in InQueue(q) : x \in InQueue(q)'
      BY <1>4, <1>5 DEF InQueue
    <2>3. c \in InQueue(q)'
      BY <1>4, <1>5 DEF InQueue
    <2> QED  BY <2>1, <2>2, <2>3
  <1>7. \A r \in Queues : r # q => InQueue(r)' = InQueue(r)
    BY <1>5 DEF InQueue
  <1>8. QueuedCopies' = QueuedCopies \cup {c}
    <2>1. QueuedCopies = UNION {InQueue(r) : r \in Queues}
      BY DEF QueuedCopies, InQueue
    <2>2. QueuedCopies' = UNION {InQueue(r)' : r \in Queues}
      BY DEF QueuedCopies, InQueue
    <2> QED  BY <1>6, <1>7, <2>1, <2>2
  <1>9. ASSUME NEW a \in Queues, NEW b \in Queues,
               NEW i \in DOMAIN queue'[a], NEW j \in DOMAIN queue'[b],
               queue'[a][i] = queue'[b][j]
        PROVE  a = b /\ i = j
    <2>1. ASSUME NEW r \in Queues, NEW k \in DOMAIN queue'[r]
          PROVE  \/ k \in DOMAIN queue[r] /\ queue'[r][k] = queue[r][k]
                                          /\ queue[r][k] # c
                 \/ r = q /\ k = Len(queue[q]) + 1 /\ queue'[r][k] = c
      BY <1>3, <1>4, <1>5 DEF QueuedCopies
    <2> QED  BY <1>9, <2>1 DEF OnePlace
  <1> QED  BY <1>1, <1>3, <1>6, <1>7, <1>8, <1>9 DEF OnePlace

\* A worker that pops takes one queued copy, and it is queued no more.
LEMMA Taken ==
    ASSUME IInv, OnePlace, NEW w \in Workers, TakeFrom(w), fresh' = fresh
    PROVE  LET c == Popped(w, pos[w])
           IN  /\ OnePlace'
               /\ c \in QueuedCopies /\ QueuedCopies' = QueuedCopies \ {c}
               /\ \A r \in Queues : InQueue(r)' \subseteq InQueue(r)
  <1>1. TypeOK /\ pos[w] \in 1 .. LastPos
    BY DEF IInv, TypeOK
  <1>2. PICK q \in Queues : q = QueueAt(w, pos[w])
    BY <1>1, QueueAtType
  <1>3. PICK c \in Copies : c = Popped(w, pos[w])
    BY <1>1, PoppedType DEF TakeFrom
  <1>4. queue[q] # <<>> /\ DOMAIN queue[q] = 1 .. Len(queue[q])
    BY <1>1, <1>2, InQueueMembers DEF TakeFrom
  <1>5. PICK d \in {0, 1} :
          /\ Len(queue[q]) \in Nat \ {0} /\ Len(Rest(w, pos[w])) = Len(queue[q]) - 1
          /\ \A j \in 1 .. Len(Rest(w, pos[w])) : Rest(w, pos[w])[j] = queue[q][j + d]
          /\ c = queue[q][IF d = 1 THEN 1 ELSE Len(queue[q])]
    <2>1. queue[QueueAt(w, pos[w])] # <<>>
      BY <1>2, <1>4, Zenon
    <2>2. LET s == queue[QueueAt(w, pos[w])]
          IN  \E d \in {0, 1} :
                 /\ Len(s) \in Nat \ {0} /\ Len(Rest(w, pos[w])) = Len(s) - 1
                 /\ \A j \in 1 .. Len(Rest(w, pos[w])) : Rest(w, pos[w])[j] = s[j + d]
                 /\ Popped(w, pos[w]) = s[IF d = 1 THEN 1 ELSE Len(s)]
      BY <1>1, <2>1, RestOf, Zenon
    <2> QED  BY <1>2, <1>3, <2>2, Zenon
  <1>6. Rest(w, pos[w]) \in Seq(Copies)
    BY <1>1, <1>2, <1>4, PoppedType
  <1>7. /\ DOMAIN queue'[q] = 1 .. (Len(queue[q]) - 1)
        /\ \A j \in 1 .. (Len(queue[q]) - 1) : queue'[q][j] = queue[q][j + d]
        /\ \A r \in Queues : r # q => queue'[r] = queue[r]
    BY <1>1, <1>2, <1>4, <1>5, <1>6 DEF TakeFrom, TypeOK
  <1> DEFINE e == IF d = 1 THEN 1 ELSE Len(queue[q])
  <1>8. e \in DOMAIN queue[q] /\ queue[q][e] = c
    BY <1>4, <1>5
  <1>9. ASSUME NEW j \in DOMAIN queue'[q]
        PROVE  j + d \in DOMAIN queue[q] /\ j + d # e /\ queue'[q][j] = queue[q][j + d]
    BY <1>4, <1>5, <1>7
  <1>10. ASSUME NEW k \in DOMAIN queue[q], k # e
        PROVE  k - d \in DOMAIN queue'[q] /\ queue'[q][k - d] = queue[q][k]
    <2>1. k \in 1 .. Len(queue[q]) /\ Len(queue[q]) \in Nat \ {0}
      BY <1>4, <1>5, <1>10
    <2>2. CASE d = 1
      <3>1. k - 1 \in 1 .. (Len(queue[q]) - 1) /\ (k - 1) + 1 = k
        BY <1>10, <2>1, <2>2
      <3> QED  BY <1>7, <2>2, <3>1
    <2>3. CASE d = 0
      <3>1. k - 0 \in 1 .. (Len(queue[q]) - 1) /\ (k - 0) + 0 = k
        BY <1>10, <2>1, <2>3
      <3> QED  BY <1>7, <2>3, <3>1
    <2> QED  BY <2>2, <2>3
  <1> HIDE DEF e
  <1>11. \A r \in Queues : InQueue(r)' = InQueue(r) \ {c}
    <2>1. InQueue(q)' \subseteq InQueue(q) \ {c}
      BY <1>2, <1>8, <1>9 DEF InQueue, OnePlace
    <2>2. InQueue(q) \ {c} \subseteq InQueue(q)'
      BY <1>8, <1>10 DEF InQueue
    <2>3. ASSUME NEW r \in Queues, r # q  PROVE InQueue(r)' = InQueue(r) /\ c \notin InQueue(r)
      BY <1>2, <1>7, <1>8, <2>3 DEF InQueue, OnePlace
    <2> QED  BY <2>1, <2>2, <2>3
  <1>12. c \in QueuedCopies /\ QueuedCopies' = QueuedCopies \ {c}
    <2>1. QueuedCopies = UNION {InQueue(r) : r \in Queues}
      BY DEF QueuedCopies, InQueue
    <2>2. QueuedCopies' = UNION {InQueue(r)' : r \in Queues}
      BY DEF QueuedCopies, InQueue
    <2>3. c \in InQueue(q)
      BY <1>8 DEF InQueue
    <2> QED  BY <1>2, <1>11, <2>1, <2>2, <2>3
  <1>13. ASSUME NEW a \in Queues, NEW b \in Queues,
                NEW i \in DOMAIN queue'[a], NEW j \in DOMAIN queue'[b],
                queue'[a][i] = queue'[b][j]
         PROVE  a = b /\ i = j
    <2>1. CASE a = q /\ b = q
      <3>1. i + d = j + d
        BY <1>2, <1>9, <1>13, <2>1 DEF OnePlace
      <3>2. i \in Int /\ j \in Int /\ d \in Int
        BY <1>7, <1>13, <2>1, <1>5
      <3>3. i = j
        BY <3>1, <3>2
      <3> QED  BY <2>1, <3>3, Zenon
    <2>2. CASE a = q /\ b # q
      <3>1. i + d \in DOMAIN queue[q] /\ queue[q][i + d] = queue'[a][i]
        BY <1>9, <1>13, <2>2
      <3>2. j \in DOMAIN queue[b] /\ queue[b][j] = queue'[b][j]
        BY <1>7, <1>13, <2>2
      <3> QED  BY <1>2, <1>13, <2>2, <3>1, <3>2 DEF OnePlace
    <2>3. CASE a # q /\ b = q
      <3>1. j + d \in DOMAIN queue[q] /\ queue[q][j + d] = queue'[b][j]
        BY <1>9, <1>13, <2>3
      <3>2. i \in DOMAIN queue[a] /\ queue[a][i] = queue'[a][i]
        BY <1>7, <1>13, <2>3
      <3> QED  BY <1>2, <1>13, <2>3, <3>1, <3>2 DEF OnePlace
    <2>4. CASE a # q /\ b # q
      BY <1>7, <1>13, <2>4 DEF OnePlace
    <2> QED  BY <2>1, <2>2, <2>3, <2>4
  <1>14. \A v \in Workers : pc'[v] # "run" => current'[v] = NoOne
    BY <1>1 DEF TakeFrom, TypeOK, OnePlace
  <1> QED  BY <1>3, <1>11, <1>12, <1>13, <1>14 DEF OnePlace

\* Only submitters push and only a worker's pop removes a copy.
LEMMA OnePlaceStep == IInv /\ OnePlace /\ [Next]_vars => OnePlace'
  <1> SUFFICES ASSUME IInv, OnePlace, [Next]_vars  PROVE OnePlace'
    OBVIOUS
  <1> USE PoolAssumption
  <1>1. ASSUME NEW t \in Threads, NEW c \in Copies, Spawn(t, c) \/ InjectMarked(t, c)
        PROVE  OnePlace'
    <2>1. next \in Queues /\ Injector \in Queues
      BY DEF IInv, TypeOK, Workers, Queues, Injector
    <2> QED  BY <1>1, <2>1, Pushed DEF Spawn, InjectMarked
  <1>2. ASSUME NEW w \in Workers, PopTask(w) \/ PopDefinitive(w)  PROVE OnePlace'
    BY <1>2, Taken DEF PopTask, PopDefinitive
  <1>3. ASSUME queue' = queue, fresh' = fresh, current' = current,
               \A w \in Workers : pc'[w] # "run" => pc[w] # "run"
        PROVE  OnePlace'
    BY <1>3 DEF OnePlace, QueuedCopies
  <1>4. CASE ExecutorStart \/ UNCHANGED vars
    BY <1>3, <1>4 DEF ExecutorStart, vars
  <1>5. ASSUME NEW t \in Threads, LoadSleepers(t) \/ BumpEpoch(t)  PROVE OnePlace'
    BY <1>3, <1>5 DEF LoadSleepers, BumpEpoch, InWaitSet, IInv, TypeOK
  <1>6. ASSUME NEW w \in Workers,
               WorkerReady(w) \/ PopTaskSkip(w) \/ LockEpoch(w)
                 \/ PopDefinitiveEmpty(w) \/ Reacquire(w) \/ SpuriousWake(w)
        PROVE  OnePlace'
    BY <1>3, <1>6 DEF WorkerReady, PopTaskSkip, LockEpoch, PopDefinitiveEmpty,
                      Reacquire, SpuriousWake, IInv, TypeOK
  <1>7. ASSUME NEW w \in Workers, FinishPoll(w)  PROVE OnePlace'
    BY <1>7 DEF FinishPoll, OnePlace, QueuedCopies, IInv, TypeOK
  <1> QED
    BY <1>1, <1>2, <1>4, <1>5, <1>6, <1>7 DEF Next, Submitting, Working

\* The two invariants of the places of a copy are inductive.
LEMMA PlacesInvariant == Spec => [](IInv /\ OnePlace)
  <1>1. Init => OnePlace
    BY DEF Init, OnePlace, QueuedCopies
  <1> QED  BY <1>1, IInvInit, IInvStep, OnePlaceStep, PTL DEF Spec

\* The run queues hand every submitted copy to one worker, once: each step of
\* spawn, inject_marked, pop_task, stealing and the definitive scan is a step of
\* RunPool or none of its business.  (RunPool's fairness is left to the runs.)
THEOREM QueuesImplementRunPool == Spec => Pool!Init /\ [][Pool!Next]_(Pool!vars)
  <1>1. Init => Pool!Init
    BY DEF Init, Pool!Init, QueuedCopies
  <1>2. IInv /\ OnePlace /\ [Next]_vars => [Pool!Next]_(Pool!vars)
    <2> SUFFICES ASSUME IInv, OnePlace, [Next]_vars
                 PROVE  Pool!Next \/ UNCHANGED Pool!vars
      OBVIOUS
    <2> USE PoolAssumption
    <2>1. ASSUME NEW t \in Threads, NEW c \in Copies, Spawn(t, c) \/ InjectMarked(t, c)
          PROVE  Pool!Submit(c)
      <3>1. next \in Queues /\ Injector \in Queues
        BY DEF IInv, TypeOK, Workers, Queues, Injector
      <3>2. QueuedCopies' = QueuedCopies \cup {c}
        BY <2>1, <3>1, Pushed DEF Spawn, InjectMarked
      <3> QED  BY <2>1, <3>2 DEF Pool!Submit, Spawn, InjectMarked, Push
    <2>2. ASSUME NEW w \in Workers, PopTask(w) \/ PopDefinitive(w)
          PROVE  \E c \in Copies : Pool!TakeSome(c)
      <3>1. TakeFrom(w) /\ fresh' = fresh /\ pc[w] # "run"
        BY <2>2 DEF PopTask, PopDefinitive
      <3>2. Popped(w, pos[w]) \in Copies
        BY <3>1, PoppedType DEF TakeFrom, IInv, TypeOK
      <3>3. Pool!Take(w, Popped(w, pos[w]))
        BY <3>1, Taken DEF Pool!Take, TakeFrom, OnePlace
      <3> QED  BY <3>2, <3>3 DEF Pool!TakeSome
    <2>3. ASSUME NEW w \in Workers, FinishPoll(w)
          PROVE  Pool!Finish(w) \/ UNCHANGED Pool!vars
      <3>1. QueuedCopies' = QueuedCopies
        BY <2>3 DEF FinishPoll, QueuedCopies
      <3>2. CASE current[w] = NoOne
        BY <2>3, <3>1, <3>2 DEF FinishPoll, Pool!vars, IInv, TypeOK
      <3>3. CASE current[w] # NoOne
        BY <2>3, <3>1, <3>3 DEF FinishPoll, Pool!Finish
      <3> QED  BY <3>2, <3>3
    <2>4. ASSUME queue' = queue, fresh' = fresh, current' = current
          PROVE  UNCHANGED Pool!vars
      BY <2>4 DEF Pool!vars, QueuedCopies
    <2>5. CASE ExecutorStart \/ UNCHANGED vars
      BY <2>4, <2>5 DEF ExecutorStart, vars
    <2>6. ASSUME NEW t \in Threads, LoadSleepers(t) \/ BumpEpoch(t)
          PROVE  UNCHANGED Pool!vars
      BY <2>4, <2>6 DEF LoadSleepers, BumpEpoch
    <2>7. ASSUME NEW w \in Workers,
                 WorkerReady(w) \/ PopTaskSkip(w) \/ LockEpoch(w)
                   \/ PopDefinitiveEmpty(w) \/ Reacquire(w) \/ SpuriousWake(w)
          PROVE  UNCHANGED Pool!vars
      BY <2>4, <2>7 DEF WorkerReady, PopTaskSkip, LockEpoch, PopDefinitiveEmpty,
                        Reacquire, SpuriousWake
    <2> QED
      BY <2>1, <2>2, <2>3, <2>5, <2>6, <2>7 DEF Next, Submitting, Working, Pool!Next
  <1> QED  BY <1>1, <1>2, PlacesInvariant, PTL DEF Spec

-----------------------------------------------------------------------------
\* The sets that are counted are finite, whatever the set of external threads.
LEMMA Countable ==
    ASSUME IInv, Enough
    PROVE  /\ Cardinality(QueuedCopies) \in Nat /\ Cardinality(Flying) \in Nat
           /\ IsFiniteSet(Heading) /\ Cardinality(Heading) \in Nat
           /\ IsFiniteSet(Heading') /\ Cardinality(Heading') \in Nat
           /\ \A w \in Workers : Passed(w) \subseteq QueuedCopies
           /\ \A w \in Workers : IsFiniteSet(Passed(w)) /\ Cardinality(Passed(w)) \in Nat
  <1>1. IsFiniteSet(Workers)
    BY PoolAssumption, FS_Interval DEF Workers
  <1>2. Heading \subseteq Workers /\ Heading' \subseteq Workers
    BY DEF Heading
  <1>3. ASSUME NEW w \in Workers  PROVE Passed(w) \subseteq QueuedCopies
    <2>1. ASSUME NEW i \in 1 .. (pos[w] - 1)  PROVE QueueAt(w, i) \in Queues
      <3>1. i \in 1 .. LastPos
        BY PoolAssumption DEF IInv, TypeOK, LastPos
      <3> QED  BY <3>1, QueueAtType
    <2> QED  BY <2>1 DEF Passed, InQueue, QueuedCopies
  <1>4. \A w \in Workers : IsFiniteSet(Passed(w))
    BY <1>3, FS_Subset DEF Enough
  <1>5. IsFiniteSet(Heading) /\ IsFiniteSet(Heading')
    BY <1>1, <1>2, FS_Subset
  <1> QED  BY <1>3, <1>4, <1>5, FS_CardinalityType DEF Enough

\* A step that moves no copy and no notification, and takes no worker off its
\* way to a scan.
LEMMA EnoughKept ==
    ASSUME IInv, Enough, queue' = queue, stage' = stage,
           Heading \subseteq Heading',
           (\E w \in Workers : Asleep(w)') => \E w \in Workers : Asleep(w),
           \A w \in Workers : pc'[w] = "definitive" =>
               \/ pc[w] = "definitive" /\ Passed(w)' \subseteq Passed(w)
               \/ Passed(w)' = {}
    PROVE  Enough'
  <1>1. QueuedCopies' = QueuedCopies /\ Flying' = Flying
    BY DEF QueuedCopies, Flying, InFlight
  <1>2. Cardinality(Heading) <= Cardinality(Heading')
    BY Countable, FS_Subset
  <1>3. ASSUME NEW w \in Workers, pc'[w] = "definitive"
        PROVE  Cardinality(Passed(w)') <= Cardinality(Flying)
    <2>1. CASE pc[w] = "definitive" /\ Passed(w)' \subseteq Passed(w)
      <3>1. /\ IsFiniteSet(Passed(w)') /\ Cardinality(Passed(w)') \in Nat
            /\ Cardinality(Passed(w)') <= Cardinality(Passed(w))
        BY <2>1, Countable, FS_Subset, FS_CardinalityType
      <3>2. Cardinality(Passed(w)) <= Cardinality(Flying)
        BY <2>1 DEF Enough
      <3> QED  BY <3>1, <3>2, Countable
    <2>2. CASE Passed(w)' = {}
      BY <2>2, Countable, FS_EmptySet
    <2> QED  BY <1>3, <2>1, <2>2
  <1>4. (\E w \in Workers : Asleep(w)') =>
            Cardinality(QueuedCopies) <= Cardinality(Heading') + Cardinality(Flying)
    BY <1>2, Countable DEF Enough
  <1> QED  BY <1>1, <1>3, <1>4 DEF Enough

\* A push adds one copy and one notification.
LEMMA EnoughPush ==
    ASSUME IInv, OnePlace, Enough, NEW t \in Threads, NEW c \in Copies,
           NEW q \in Queues, Push(t, c, q)
    PROVE  Enough'
  <1>1. pc' = pc /\ pos' = pos /\ moved' = moved
    BY DEF Push
  <1>2. t \notin Flying /\ Flying' = Flying \cup {t}
    BY DEF Push, CanSubmit, Flying, InFlight, IInv, TypeOK
  <1>3. /\ c \notin QueuedCopies /\ QueuedCopies' = QueuedCopies \cup {c}
        /\ \A r \in Queues : InQueue(r)' \subseteq InQueue(r) \cup {c}
    BY Pushed
  <1>4. /\ IsFiniteSet(Flying') /\ Cardinality(Flying') = Cardinality(Flying) + 1
        /\ IsFiniteSet(QueuedCopies')
        /\ Cardinality(QueuedCopies') = Cardinality(QueuedCopies) + 1
    BY <1>2, <1>3, FS_AddElement DEF Enough
  <1>5. ASSUME NEW w \in Workers, pc'[w] = "definitive"
        PROVE  Cardinality(Passed(w)') <= Cardinality(Flying')
    <2>1. Passed(w)' \subseteq Passed(w) \cup {c}
      <3>1. \A i \in 1 .. (pos[w] - 1) : i \in 1 .. LastPos
        BY PoolAssumption DEF IInv, TypeOK, LastPos
      <3>2. \A i \in 1 .. (pos[w] - 1) :
               InQueue(QueueAt(w, i))' \subseteq InQueue(QueueAt(w, i)) \cup {c}
        <4>1. ASSUME NEW i \in 1 .. (pos[w] - 1)
              PROVE  InQueue(QueueAt(w, i))' \subseteq InQueue(QueueAt(w, i)) \cup {c}
          BY <1>3, <3>1, QueueAtType DEF InQueue
        <4> QED  BY <4>1
      <3> QED  BY <1>1, <3>2 DEF Passed
    <2>2. /\ IsFiniteSet(Passed(w) \cup {c})
          /\ Cardinality(Passed(w) \cup {c}) \in Nat
          /\ Cardinality(Passed(w) \cup {c}) <= Cardinality(Passed(w)) + 1
      <3>1. IsFiniteSet(Passed(w)) /\ Cardinality(Passed(w)) \in Nat
        BY Countable
      <3>2. /\ IsFiniteSet(Passed(w) \cup {c})
            /\ Cardinality(Passed(w) \cup {c}) =
                  IF c \in Passed(w) THEN Cardinality(Passed(w))
                  ELSE Cardinality(Passed(w)) + 1
        BY <3>1, FS_AddElement
      <3> QED  BY <3>1, <3>2
    <2>3. /\ Cardinality(Passed(w)') <= Cardinality(Passed(w) \cup {c})
          /\ Cardinality(Passed(w)') \in Nat
      BY <2>1, <2>2, FS_Subset, FS_CardinalityType
    <2>4. Cardinality(Passed(w)) <= Cardinality(Flying)
      BY <1>1, <1>5 DEF Enough
    <2> QED  BY <1>4, <2>2, <2>3, <2>4, Countable
  <1>6. Heading' = Heading /\ \A w \in Workers : Asleep(w)' <=> Asleep(w)
    BY <1>1 DEF Heading, Asleep
  <1>7. (\E w \in Workers : Asleep(w)') =>
            Cardinality(QueuedCopies') <= Cardinality(Heading') + Cardinality(Flying')
    BY <1>4, <1>6, Countable DEF Enough
  <1> QED  BY <1>4, <1>5, <1>7 DEF Enough

\* A pop removes one copy and one worker from those on their way.
LEMMA EnoughTake ==
    ASSUME IInv, OnePlace, Enough, NEW w \in Workers, TakeFrom(w), fresh' = fresh,
           pc[w] \in {"scan", "definitive"}, moved' = moved, stage' = stage
    PROVE  Enough'
  <1>1. /\ pc' = [pc EXCEPT ![w] = "run"] /\ pos' = [pos EXCEPT ![w] = 1]
        /\ pc \in [Workers -> {"boot", "scan", "lock", "definitive", "waiting",
                               "woken", "run"}]
    BY DEF TakeFrom, IInv, TypeOK
  <1>2. PICK c : c \in QueuedCopies /\ QueuedCopies' = QueuedCopies \ {c}
    BY Taken
  <1>3. Flying' = Flying
    BY DEF Flying, InFlight
  <1>4. w \in Heading /\ Heading' = Heading \ {w}
    BY <1>1 DEF Heading
  <1>5. /\ Cardinality(QueuedCopies') = Cardinality(QueuedCopies) - 1
        /\ IsFiniteSet(QueuedCopies')
        /\ Cardinality(Heading') = Cardinality(Heading) - 1
    BY <1>2, <1>4, Countable, FS_RemoveElement DEF Enough
  <1>6. ASSUME NEW v \in Workers, pc'[v] = "definitive"
        PROVE  Cardinality(Passed(v)') <= Cardinality(Flying)
    <2>1. v # w /\ pc[v] = "definitive" /\ pos'[v] = pos[v]
      BY <1>1, <1>6 DEF IInv, TypeOK
    <2>2. Passed(v)' \subseteq Passed(v)
      <3>1. ASSUME NEW i \in 1 .. (pos[v] - 1)
            PROVE  InQueue(QueueAt(v, i))' \subseteq InQueue(QueueAt(v, i))
        <4>1. i \in 1 .. LastPos
          BY PoolAssumption DEF IInv, TypeOK, LastPos
        <4>2. QueueAt(v, i) \in Queues
          BY <4>1, QueueAtType
        <4>3. \A r \in Queues : InQueue(r)' \subseteq InQueue(r)
          BY Taken
        <4> QED  BY <4>2, <4>3 DEF InQueue
      <3> QED  BY <2>1, <3>1 DEF Passed
    <2>3. /\ Cardinality(Passed(v)') <= Cardinality(Passed(v))
          /\ Cardinality(Passed(v)') \in Nat
      BY <2>2, Countable, FS_Subset, FS_CardinalityType
    <2>4. Cardinality(Passed(v)) <= Cardinality(Flying)
      BY <2>1 DEF Enough
    <2> QED  BY <2>3, <2>4, Countable
  <1>7. (\E v \in Workers : Asleep(v)') => \E v \in Workers : Asleep(v)
    BY <1>1 DEF Asleep
  <1>8. (\E v \in Workers : Asleep(v)') =>
            Cardinality(QueuedCopies') <= Cardinality(Heading') + Cardinality(Flying)
    BY <1>5, <1>7, Countable DEF Enough
  <1> QED  BY <1>3, <1>5, <1>6, <1>8 DEF Enough

\* A submitter's notification is spent only when nobody sleeps, or on a worker
\* that then heads for a scan.
LEMMA EnoughNotify ==
    ASSUME IInv, Enough, NEW t \in Threads, LoadSleepers(t) \/ BumpEpoch(t)
    PROVE  Enough'
  <1>1. QueuedCopies' = QueuedCopies
    BY DEF LoadSleepers, BumpEpoch, QueuedCopies
  <1>2. CASE LoadSleepers(t) /\ sleepers = {}
    <2>1. Flying' = Flying \ {t}
      BY <1>2 DEF LoadSleepers, Flying, InFlight, IInv, TypeOK
    <2>2. IsFiniteSet(Flying')
      BY <2>1, FS_RemoveElement DEF Enough
    <2>3. \A w \in Workers : ~Asleep(w)' /\ pc'[w] # "definitive"
      BY <1>2 DEF LoadSleepers, Asleep, IInv, SleepersExact
    <2> QED  BY <1>1, <2>2, <2>3 DEF Enough
  <1>3. CASE LoadSleepers(t) /\ sleepers # {}
    <2>1. Flying' = Flying /\ pc' = pc /\ pos' = pos /\ moved' = moved /\ queue' = queue
      BY <1>3 DEF LoadSleepers, Flying, InFlight, IInv, TypeOK
    <2>2. /\ Heading' = Heading /\ \A w \in Workers : Asleep(w)' <=> Asleep(w)
          /\ \A w \in Workers : Passed(w)' = Passed(w)
      BY <2>1 DEF Heading, Asleep, Passed, InQueue
    <2> QED  BY <1>1, <2>1, <2>2 DEF Enough
  <1>4. CASE BumpEpoch(t)
    <2>1. t \in Flying /\ Flying' = Flying \ {t}
      BY <1>4 DEF BumpEpoch, Flying, InFlight, IInv, TypeOK
    <2>2. IsFiniteSet(Flying') /\ Cardinality(Flying') = Cardinality(Flying) - 1
      BY <2>1, FS_RemoveElement DEF Enough
    <2>3. \A w \in Workers : pc[w] # "definitive"
      BY <1>4, PoolAssumption DEF BumpEpoch, IInv, LockHeld
    <2>4. CASE InWaitSet = {} /\ pc' = pc
      <3>1. \A w \in Workers : ~Asleep(w)'
        BY <1>4, <2>4 DEF BumpEpoch, Asleep, InWaitSet
      <3> QED  BY <1>1, <2>2, <2>3, <2>4, <3>1 DEF Enough
    <2>5. ASSUME NEW w \in InWaitSet, pc' = [pc EXCEPT ![w] = "woken"]
          PROVE  Enough'
      <3>1. w \in Workers /\ pc[w] = "waiting" /\ Asleep(w)
        BY <2>5 DEF InWaitSet, Asleep
      <3>2. w \notin Heading /\ Heading \cup {w} \subseteq Heading'
        BY <1>4, <2>5, <3>1 DEF BumpEpoch, Heading, IInv, TypeOK
      <3>3. /\ IsFiniteSet(Heading \cup {w})
            /\ Cardinality(Heading \cup {w}) = Cardinality(Heading) + 1
        BY <3>2, Countable, FS_AddElement
      <3>4. Cardinality(Heading \cup {w}) <= Cardinality(Heading')
        BY <3>2, Countable, FS_Subset
      <3>5. Cardinality(QueuedCopies) <= Cardinality(Heading') + Cardinality(Flying')
        BY <2>2, <3>1, <3>3, <3>4, Countable DEF Enough
      <3>6. \A v \in Workers : pc'[v] # "definitive"
        BY <2>3, <2>5, <3>1 DEF IInv, TypeOK
      <3> QED  BY <1>1, <2>2, <3>5, <3>6 DEF Enough
    <2> QED  BY <1>4, <2>4, <2>5 DEF BumpEpoch
  <1> QED  BY <1>2, <1>3, <1>4

\* A worker that goes to sleep has passed every queue, and what is queued now
\* has a notification on its way.
LEMMA EnoughSleep ==
    ASSUME IInv, Enough, LockHeld', NEW w \in Workers, PopDefinitiveEmpty(w)
    PROVE  Enough'
  <1> USE PoolAssumption
  <1>0. /\ pc[w] = "definitive" /\ queue' = queue /\ stage' = stage
        /\ queue[QueueAt(w, pos[w])] = <<>>
        /\ pos[w] \in 1 .. LastPos /\ LastPos \in Nat
    BY DEF PopDefinitiveEmpty, IInv, TypeOK, LastPos
  <1>1. InQueue(QueueAt(w, pos[w])) = {}
    BY <1>0 DEF InQueue
  <1>2. CASE pos[w] < LastPos
    <2>1. pc' = pc /\ moved' = moved /\ pos' = [pos EXCEPT ![w] = pos[w] + 1]
      BY <1>2 DEF PopDefinitiveEmpty
    <2>2. Heading' = Heading /\ \A v \in Workers : Asleep(v)' <=> Asleep(v)
      BY <2>1 DEF Heading, Asleep
    <2>3. Passed(w)' \subseteq Passed(w)
      <3>1. pos'[w] - 1 = pos[w]
        BY <1>0, <2>1 DEF IInv, TypeOK
      <3>2. \A i \in 1 .. pos[w] : i \in 1 .. (pos[w] - 1) \/ i = pos[w]
        BY <1>0
      <3>3. Passed(w)' = UNION {InQueue(QueueAt(w, i)) : i \in 1 .. pos[w]}
        BY <1>0, <3>1 DEF Passed, InQueue
      <3> QED  BY <1>1, <3>2, <3>3 DEF Passed
    <2>4. \A v \in Workers : pc'[v] = "definitive" => v = w
      BY <1>0, <2>1 DEF IInv, LockHeld
    <2> QED  BY <1>0, <2>1, <2>2, <2>3, <2>4, EnoughKept
  <1>3. CASE ~(pos[w] < LastPos)
    <2>1. /\ pc' = [pc EXCEPT ![w] = "waiting"] /\ moved' = moved \ {w}
          /\ epochLock' = NoOne
      BY <1>3 DEF PopDefinitiveEmpty
    <2>2. \A v \in Workers : pc'[v] # "definitive"
      BY <2>1 DEF LockHeld
    <2>3. QueuedCopies \subseteq Passed(w)
      <3>1. ASSUME NEW q \in Queues  PROVE InQueue(q) \subseteq Passed(w)
        <4>1. PICK i \in 1 .. LastPos : QueueAt(w, i) = q
          BY ScanCoversAllQueues
        <4>2. CASE i = pos[w]
          BY <1>1, <4>1, <4>2
        <4>3. CASE i # pos[w]
          <5>1. i \in 1 .. (pos[w] - 1)
            BY <1>0, <1>3, <4>1, <4>3
          <5> QED  BY <4>1, <5>1 DEF Passed
        <4> QED  BY <4>2, <4>3
      <3> QED  BY <3>1 DEF QueuedCopies, InQueue
    <2>4. Cardinality(QueuedCopies) <= Cardinality(Flying)
      <3>1. Cardinality(Passed(w)) <= Cardinality(Flying)
        BY <1>0 DEF Enough
      <3>2. Cardinality(QueuedCopies) <= Cardinality(Passed(w))
        BY <2>3, Countable, FS_Subset
      <3> QED  BY <3>1, <3>2, Countable
    <2>5. QueuedCopies' = QueuedCopies /\ Flying' = Flying
      BY <1>0 DEF QueuedCopies, Flying, InFlight
    <2> QED  BY <2>2, <2>4, <2>5, Countable DEF Enough
  <1> QED  BY <1>2, <1>3

\* Every step keeps enough workers awake, or enough notifications under way, for
\* what is queued.
LEMMA EnoughStep == IInv /\ IInv' /\ OnePlace /\ Enough /\ [Next]_vars => Enough'
  <1> SUFFICES ASSUME IInv, IInv', OnePlace, Enough, [Next]_vars  PROVE Enough'
    OBVIOUS
  <1> USE PoolAssumption
  <1>1. ASSUME NEW t \in Threads, NEW c \in Copies, Spawn(t, c) \/ InjectMarked(t, c)
        PROVE  Enough'
    <2>1. next \in Queues /\ Injector \in Queues
      BY DEF IInv, TypeOK, Workers, Queues, Injector
    <2> QED  BY <1>1, <2>1, EnoughPush DEF Spawn, InjectMarked
  <1>2. ASSUME NEW t \in Threads, LoadSleepers(t) \/ BumpEpoch(t)  PROVE Enough'
    BY <1>2, EnoughNotify
  <1>3. ASSUME NEW w \in Workers, PopTask(w) \/ PopDefinitive(w)  PROVE Enough'
    BY <1>3, EnoughTake DEF PopTask, PopDefinitive
  <1>4. ASSUME NEW w \in Workers, PopDefinitiveEmpty(w)  PROVE Enough'
    BY <1>4, EnoughSleep DEF IInv
  <1>5. CASE ExecutorStart \/ UNCHANGED vars
    BY <1>5, EnoughKept DEF ExecutorStart, vars, Heading, Asleep, Passed, InQueue
  <1>6. ASSUME NEW w \in Workers,
               WorkerReady(w) \/ PopTaskSkip(w) \/ FinishPoll(w)
                 \/ SpuriousWake(w) \/ Reacquire(w) \/ LockEpoch(w)
        PROVE  Enough'
    <2>1. queue' = queue /\ stage' = stage
      BY <1>6 DEF WorkerReady, PopTaskSkip, FinishPoll, SpuriousWake, Reacquire, LockEpoch
    <2>2. Heading \subseteq Heading'
      BY <1>6 DEF WorkerReady, PopTaskSkip, FinishPoll, SpuriousWake, Reacquire,
                  LockEpoch, Heading, IInv, TypeOK
    <2>3. (\E v \in Workers : Asleep(v)') => \E v \in Workers : Asleep(v)
      BY <1>6 DEF WorkerReady, PopTaskSkip, FinishPoll, SpuriousWake, Reacquire,
                  LockEpoch, Asleep, IInv, TypeOK
    <2>4. \A v \in Workers : pc'[v] = "definitive" =>
             \/ pc[v] = "definitive" /\ pos'[v] = pos[v]
             \/ pos'[v] = 1
      BY <1>6 DEF WorkerReady, PopTaskSkip, FinishPoll, SpuriousWake, Reacquire,
                  LockEpoch, IInv, TypeOK, ScanFromStart
    <2>5. ASSUME NEW v \in Workers
          PROVE  /\ pos'[v] = pos[v] => Passed(v)' = Passed(v)
                 /\ pos'[v] = 1 => Passed(v)' = {}
      <3>1. pos'[v] = pos[v] => Passed(v)' = Passed(v)
        BY <2>1 DEF Passed, InQueue
      <3>2. 1 .. (1 - 1) = {}
        OBVIOUS
      <3>3. pos'[v] = 1 => Passed(v)' = {}
        BY <3>2 DEF Passed
      <3> QED  BY <3>1, <3>3
    <2>6. \A v \in Workers : pc'[v] = "definitive" =>
             \/ pc[v] = "definitive" /\ Passed(v)' \subseteq Passed(v)
             \/ Passed(v)' = {}
      BY <2>4, <2>5
    <2> QED  BY <2>1, <2>2, <2>3, <2>6, EnoughKept
  <1> QED
    BY <1>1, <1>2, <1>3, <1>4, <1>5, <1>6 DEF Next, Submitting, Working

\* One notify_one per push is enough: while a worker is parked, every queued
\* copy has a worker on its way to a scan or a notification still to come
\* (wake_one_sleeper, wait_for_task), whatever the number of either.
THEOREM OneWakePerPush == Spec => []WorkConserving
  <1>1. Init => Enough
    <2> SUFFICES ASSUME Init  PROVE Enough
      OBVIOUS
    <2>1. QueuedCopies = {} /\ Flying = {}
      BY DEF Init, QueuedCopies, Flying, InFlight
    <2>2. \A w \in Workers : ~Asleep(w) /\ pc[w] # "definitive"
      BY DEF Init, Asleep
    <2> QED  BY <2>1, <2>2, FS_EmptySet DEF Enough
  <1>2. IInv /\ Enough => WorkConserving
    BY DEF Enough, WorkConserving, InWaitSet, Asleep, Flying
  <1>3. (IInv /\ OnePlace) /\ (IInv /\ OnePlace)' /\ Enough /\ [Next]_vars => Enough'
    BY EnoughStep
  <1> QED  BY <1>1, <1>2, <1>3, PlacesInvariant, PTL DEF Spec
-----------------------------------------------------------------------------
(* The handoff of an outcome.                                              *)

\* What the worker has published so far, and the root of its input.
Stages ==
    /\ done <=> wpc \in {"wake", "gone"}
    /\ wpc \in {"idle", "body"} => hand = "none"
    /\ wpc = "ended" => hand \in {"value", "panic"}
    /\ outcome = IF ~done THEN "none" ELSE IF hand = "none" THEN "cancelled" ELSE hand
    /\ inRoots = IF outcome = "cancelled" \/ wpc = "gone" THEN 0 ELSE 1

\* An OS thread cannot be stopped between its return and its publication.
Stops ==
    /\ wstop => wpc \in {"ended", "wake"}
    /\ wstop /\ wpc = "ended" => kind # "thread"
    /\ stop => cycles < MaxGC

\* The outcome is pinned for a joiner exactly when there can be one, and one
\* joiner, or detach, takes it.
Takers ==
    /\ detached <=> ~registered
    /\ taken => done
    /\ pinned => outcome = "value" /\ isPtr
    /\ outcome = "value" /\ isPtr /\ (~detached \/ first # {}) => pinned
    /\ \A j \in first : /\ taken
                        /\ jpc[j] \in {"join", "box", "unpin", "ready", "raised"}
                        /\ \A i \in first : i = j

\* Nothing has freed the outcome before it is published, but for a collection
\* that met a task's worker with the result in hand.
AliveBefore ==
    /\ wpc \in {"idle", "body"} => alive
    /\ wpc = "ended" => alive \/ caught
    /\ caught => kind # "thread" /\ hand = "value"

JoinInv == JoinTypeOK /\ Stages /\ Stops /\ Takers /\ RootOwned /\ AliveBefore /\ HandoffAlive

\* The invariant of the handoff holds before anything is spawned.
LEMMA JoinStarts == JoinInit => JoinInv
<1> SUFFICES ASSUME JoinInit  PROVE JoinInv
  OBVIOUS
<1>1. JoinTypeOK
  <2>1. kind \in Kinds /\ isPtr \in BOOLEAN /\ os \in BOOLEAN
    BY DEF JoinInit
  <2>2. 0 \in 0 .. MaxGC
    BY JoinAssumption
  <2> QED  BY <2>1, <2>2 DEF JoinInit, JoinTypeOK
<1>2. Stages /\ Stops /\ Takers
  BY DEF JoinInit, Stages, Stops, Takers
<1>3. RootOwned /\ AliveBefore /\ HandoffAlive
  BY DEF JoinInit, RootOwned, AliveBefore, HandoffAlive, Expected, Managed
<1> QED  BY <1>1, <1>2, <1>3 DEF JoinInv

\* Every step keeps the invariant: a root is dropped by whoever owns it, and a
\* collection finds either a root or a joiner's frame.
LEMMA JoinStep == JoinInv /\ [JoinNext]_joinVars => JoinInv'
<1> SUFFICES ASSUME JoinInv, [JoinNext]_joinVars  PROVE JoinInv'
  OBVIOUS
<1> USE JoinAssumption
    DEF JoinInv, JoinTypeOK, Stages, Stops, Takers, RootOwned, AliveBefore, HandoffAlive, Expected,
        Managed, ctl, worker, heap, joins, gc
<1>0. CASE UNCHANGED joinVars
  BY <1>0 DEF joinVars
<1>1. CASE BeginBody
  BY <1>1 DEF BeginBody
<1>2. CASE Suspend
  BY <1>2 DEF Suspend
<1>3. CASE SeeCancel
  BY <1>3 DEF SeeCancel, PublishCancelled, Publish
<1>4. ASSUME NEW o \in {"value", "panic"}, EndBody(o)  PROVE JoinInv'
  BY <1>4 DEF EndBody
<1>5. CASE FinishWorker
  BY <1>5 DEF FinishWorker, Publish
<1>6. ASSUME NEW j \in Joiners, WakeJoiner(j)  PROVE JoinInv'
  BY <1>6 DEF WakeJoiner
<1>7. CASE DropInput
  BY <1>7 DEF DropInput
<1>8. CASE Cancel
  <2>1. CASE wpc = "idle" /\ kind # "closure"
    BY <1>8, <2>1 DEF Cancel, PublishCancelled, Publish
  <2>2. CASE ~(wpc = "idle" /\ kind # "closure")
    BY <1>8, <2>2 DEF Cancel
  <2> QED  BY <2>1, <2>2
<1>9. CASE Detach
  <2>1. CASE done /\ ~taken
    <3>1. /\ taken' = TRUE /\ first = {}
          /\ roots' = 0 /\ registered' = FALSE /\ detached' = TRUE /\ os' = FALSE
      BY <1>9, <2>1 DEF Detach
    <3>2. JoinTypeOK'
      <4>1. UNCHANGED <<kind, isPtr, done, outcome, pinned, waiters, worker,
                        inRoots, alive, joins, gc>>
        BY <1>9 DEF Detach
      <4>2. (/\ registered \in BOOLEAN /\ taken \in BOOLEAN /\ detached \in BOOLEAN
             /\ os \in BOOLEAN /\ roots \in Nat)'
        BY <3>1
      <4>3. (kind \in Kinds /\ isPtr \in BOOLEAN /\ done \in BOOLEAN /\ pinned \in BOOLEAN)'
        BY <4>1
      <4> HIDE DEF Stages, Stops, Takers, RootOwned, AliveBefore, HandoffAlive, Expected
      <4> QED  BY <4>1, <4>2, <4>3
    <3>3. (Stages /\ Stops)'
      BY <1>9, <3>1 DEF Detach
    <3>4. Takers'
      BY <1>9, <2>1, <3>1 DEF Detach
    <3>5. (RootOwned /\ AliveBefore /\ HandoffAlive)'
      BY <1>9, <2>1, <3>1 DEF Detach
    <3> QED  BY <3>2, <3>3, <3>4, <3>5
  <2>2. CASE ~(done /\ ~taken)
    <3>1. JoinTypeOK'
      BY <1>9, <2>2 DEF Detach
    <3>2. (Stages /\ Stops)'
      BY <1>9, <2>2 DEF Detach
    <3>3. Takers'
      BY <1>9, <2>2 DEF Detach
    <3>4. (RootOwned /\ AliveBefore /\ HandoffAlive)'
      BY <1>9, <2>2 DEF Detach
    <3> QED  BY <3>1, <3>2, <3>3, <3>4
  <2> QED  BY <2>1, <2>2
<1>10. ASSUME NEW j \in Joiners, PollUnknown(j)  PROVE JoinInv'
  BY <1>10 DEF PollUnknown, JGoto
<1>11. ASSUME NEW j \in Joiners, PollPending(j)  PROVE JoinInv'
  BY <1>11 DEF PollPending, JGoto
<1>12. ASSUME NEW j \in Joiners, PollAgain(j)  PROVE JoinInv'
  BY <1>12 DEF PollAgain, JGoto
<1>13. ASSUME NEW j \in Joiners, PollReady(j)  PROVE JoinInv'
  BY <1>13 DEF PollReady, JGoto
<1>14. ASSUME NEW j \in Joiners, OsJoin(j)  PROVE JoinInv'
  BY <1>14 DEF OsJoin, JGoto
<1>15. ASSUME NEW j \in Joiners, Box(j)  PROVE JoinInv'
  BY <1>15 DEF Box, JGoto
<1>16. ASSUME NEW j \in Joiners, Unpin(j)  PROVE JoinInv'
  BY <1>16 DEF Unpin, JGoto
<1>17. ASSUME NEW j \in Joiners, Forget(j)  PROVE JoinInv'
  BY <1>17 DEF Forget
<1>18. CASE RequestGC
  BY <1>18 DEF RequestGC
<1>19. CASE StopWorker
  BY <1>19 DEF StopWorker
<1>20. CASE Collect
  <2>1. JoinTypeOK'
    <3>1. (stop \in BOOLEAN /\ wstop \in BOOLEAN /\ alive \in BOOLEAN /\ caught \in BOOLEAN)'
      BY <1>20 DEF Collect
    <3>2. cycles' \in 0 .. MaxGC
      BY <1>20 DEF Collect
    <3> QED  BY <1>20, <3>1, <3>2 DEF Collect
  <2>2. Stages'
    BY <1>20 DEF Collect, Quiescent
  <2>3. Stops'
    BY <1>20 DEF Collect, Quiescent
  <2>4. Takers'
    BY <1>20 DEF Collect, Quiescent
  <2>5. RootOwned'
    BY <1>20 DEF Collect, Quiescent
  <2>6. AliveBefore'
    BY <1>20 DEF Collect, Quiescent
  <2>7. HandoffAlive'
    BY <1>20 DEF Collect, Quiescent
  <2> QED  BY <2>1, <2>2, <2>3, <2>4, <2>5, <2>6, <2>7
<1> HIDE DEF JoinInv
<1> QED
  BY <1>0, <1>1, <1>2, <1>3, <1>4, <1>5, <1>6, <1>7, <1>8, <1>9, <1>10,
     <1>11, <1>12, <1>13, <1>14, <1>15, <1>16, <1>17, <1>18, <1>19, <1>20
     DEF JoinNext, WorkerStep, JoinerStep

\* It is inductive.
LEMMA JoinInvariant == JoinSpec => []JoinInv
  BY JoinStarts, JoinStep, PTL DEF JoinSpec

\* The extra root of a result or panic message has one owner at a time: the
\* worker, the handle, the first joiner, and then nobody; no order of finish,
\* join, cancel and detach drops it twice or keeps it, but for spawn_poll's
\* raised panic.
THEOREM RootHasOneOwner == JoinSpec => []RootOwned
<1>1. JoinInv => RootOwned
  BY DEF JoinInv
<1> QED  BY <1>1, JoinInvariant, PTL

\* From the end of the body to the first joiner's box, no collection frees the
\* message of a panic or the result of an OS thread, and none frees a task's
\* result once it is published: only one that finds it still in the worker's hand
\* does.
THEOREM OutcomeSurvivesHandoff == JoinSpec => []HandoffAlive
<1>1. JoinInv => HandoffAlive
  BY DEF JoinInv
<1> QED  BY <1>1, JoinInvariant, PTL
=============================================================================
