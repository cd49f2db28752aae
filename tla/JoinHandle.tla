----------------------------- MODULE JoinHandle -----------------------------
(***************************************************************************)
(* One JoinHandle (crates/runtime/src/threads.rs): the worker that         *)
(* publishes its outcome in a ThreadCtl, the join and spawn futures that   *)
(* wait for it, cancel and detach, and the extra roots that keep the       *)
(* worker's input and its result or panic message alive until a joiner has *)
(* boxed it.                                                               *)
(*                                                                         *)
(* A critical section of ThreadCtl.inner is one step.  What comes after    *)
(* the unlock (waking, joining the OS thread, boxing, unpinning) is a step *)
(* of its own.  A collection is a request that waits until every thread    *)
(* here is where it may stop, and then frees what nothing reaches.         *)
(***************************************************************************)
EXTENDS Integers, FiniteSets

CONSTANTS Joiners,    \* tasks that await the handle, each with its own future
          Kinds,      \* how the worker may have been started
          MaxGC       \* bound on the collections

\* Thread.spawn, Task.spawn of a closure, Task.spawn of an async closure,
\* spawn EXPR.
AllKinds == {"thread", "closure", "async", "spawn"}

ASSUME JoinAssumption ==
    /\ Joiners # {} /\ Kinds # {} /\ Kinds \subseteq AllKinds
    /\ MaxGC \in Nat

VARIABLES
    kind,
    isPtr,         \* result_is_ptr
    registered,    \* the id is in registry()
    done, taken, outcome, pinned, detached, waiters, os,   \* ThreadInner
    cancelReq,     \* cancel_requested
    wpc,           \* the worker: "idle", "body", "ended", "wake", "gone"
    wstop,         \* the worker is parked for a collection, or is native and
                   \* waits for it to end
    hand,          \* the outcome the worker has not published yet
    calls,         \* joiners whose waker the publisher has yet to call
    roots,         \* extra roots of the result or message
    inRoots,       \* extra roots of the worker's input
    alive,         \* the result or message has not been freed
    jpc,           \* a joiner: "poll", "wait", "join", "box", "unpin",
                   \* "ready", "raised", "aborted"
    first,         \* joiners whose poll was the first Ready one
    held,          \* joiners whose frames reach the result or message
    stop, cycles,  \* a collection is wanted; collections so far
    caught         \* history: a collection came after the body had returned an
                   \* object and before it was published

ctl    == <<registered, done, taken, outcome, pinned, detached, waiters, os>>
worker == <<wpc, wstop, hand, calls, cancelReq>>
heap   == <<roots, inRoots, alive>>
joins  == <<jpc, first, held>>
gc     == <<stop, cycles, caught>>
joinVars   == <<kind, isPtr, ctl, worker, heap, joins, gc>>

\* The four spawns: the input is pinned before it is handed over, the id is
\* returned with the OS handle stored.  new_ctl() takes every OS thread's
\* result for a pointer.
JoinInit ==
    /\ kind \in Kinds
    /\ isPtr \in (IF kind = "thread" THEN {TRUE} ELSE BOOLEAN)
    /\ registered = TRUE
    /\ done = FALSE /\ taken = FALSE /\ outcome = "none"
    /\ pinned = FALSE /\ detached = FALSE /\ waiters = {}
    /\ os = (kind = "thread")
    /\ cancelReq = FALSE /\ wpc = "idle" /\ wstop = FALSE
    /\ hand = "none" /\ calls = {}
    /\ roots = 0 /\ inRoots = 1 /\ alive = TRUE
    /\ jpc = [j \in Joiners |-> "poll"]
    /\ first = {} /\ held = {}
    /\ stop = FALSE /\ cycles = 0 /\ caught = FALSE

-----------------------------------------------------------------------------
(* The worker.                                                             *)

\* publish_*: the outcome is final and the waiters are taken, in one section.
Publish(o) ==
    /\ done' = TRUE /\ outcome' = o
    /\ waiters' = {} /\ calls' = calls \cup waiters

\* poll_task, or the OS thread's start: the body runs.
BeginBody ==
    /\ wpc = "idle"
    /\ wpc' = "body"
    /\ UNCHANGED <<kind, isPtr, ctl, wstop, hand, calls, cancelReq, heap,
                   joins, gc>>

\* The body suspends; only a future's can.
Suspend ==
    /\ wpc = "body" /\ kind \in {"async", "spawn"} /\ ~cancelReq
    /\ wpc' = "idle"
    /\ UNCHANGED <<kind, isPtr, ctl, wstop, hand, calls, cancelReq, heap,
                   joins, gc>>

\* publish_cancelled by whoever ends the task; the input is unpinned first.
PublishCancelled ==
    /\ inRoots' = inRoots - 1
    /\ Publish("cancelled")
    /\ UNCHANGED <<registered, taken, pinned, detached, os, roots, alive>>

\* poll_task meets the request when the poll has suspended.
SeeCancel ==
    /\ wpc = "body" /\ kind \in {"async", "spawn"} /\ cancelReq
    /\ PublishCancelled
    /\ wpc' = "wake"
    /\ UNCHANGED <<kind, isPtr, wstop, hand, cancelReq, joins, gc>>

\* The body returns, or unwinds to the boundary, which pins its message.  The
\* worker of a task goes on to unregister its waker before it publishes.
EndBody(o) ==
    /\ wpc = "body"
    /\ wpc' = "ended" /\ hand' = o
    /\ roots' = IF o = "panic" THEN roots + 1 ELSE roots
    /\ UNCHANGED <<kind, isPtr, ctl, wstop, calls, cancelReq, inRoots, alive,
                   joins, gc>>

\* Mutation: publish_done leaves the pinning to the joiner.
FinishWorker_NoPin ==
    /\ wpc = "ended" /\ ~wstop
    /\ Publish(hand)
    /\ pinned' = FALSE
    /\ roots' = roots - (IF hand = "panic" /\ detached THEN 1 ELSE 0)
    /\ wpc' = "wake"
    /\ UNCHANGED <<kind, isPtr, registered, taken, detached, os, wstop, hand,
                   cancelReq, inRoots, alive, joins, gc>>

\* finish_worker: publish_done pins a pointer result unless detached,
\* publish_panic unpins the message if detached.
FinishWorker ==
    /\ wpc = "ended" /\ ~wstop
    /\ Publish(hand)
    /\ pinned' = (hand = "value" /\ isPtr /\ ~detached)
    /\ roots' = roots + (IF pinned' THEN 1 ELSE 0)
                      - (IF hand = "panic" /\ detached THEN 1 ELSE 0)
    /\ wpc' = "wake"
    /\ UNCHANGED <<kind, isPtr, registered, taken, detached, os, wstop, hand,
                   cancelReq, inRoots, alive, joins, gc>>

\* Mutation: the publisher wakes one waiter and forgets the others.
WakeJoiner_One(j) ==
    /\ j \in calls /\ ~wstop
    /\ calls' = {}
    /\ jpc' = [jpc EXCEPT ![j] = IF @ = "wait" THEN "poll" ELSE @]
    /\ UNCHANGED <<kind, isPtr, ctl, wpc, wstop, hand, cancelReq, heap, first,
                   held, gc>>

\* The publisher calls the wakers it took, one by one.
WakeJoiner(j) ==
    /\ j \in calls /\ ~wstop
    /\ calls' = calls \ {j}
    /\ jpc' = [jpc EXCEPT ![j] = IF @ = "wait" THEN "poll" ELSE @]
    /\ UNCHANGED <<kind, isPtr, ctl, wpc, wstop, hand, cancelReq, heap, first,
                   held, gc>>

\* finish_worker's last line; a cancelled task's input went before.
DropInput ==
    /\ wpc = "wake" /\ calls = {} /\ ~wstop
    /\ inRoots' = inRoots - (IF outcome = "cancelled" THEN 0 ELSE 1)
    /\ wpc' = "gone"
    /\ UNCHANGED <<kind, isPtr, ctl, wstop, hand, calls, cancelReq, roots,
                   alive, joins, gc>>

-----------------------------------------------------------------------------
(* cancel and detach.                                                      *)

\* cancel_task_by_id: nothing once the task is done.  The request is recorded;
\* a suspended future is ended here, by the canceller.  OS threads have no
\* cancel.
Cancel ==
    /\ registered /\ ~done /\ kind # "thread"
    /\ cancelReq' = TRUE
    /\ IF wpc = "idle" /\ kind # "closure"
       THEN PublishCancelled /\ wpc' = "wake"
       ELSE UNCHANGED <<ctl, calls, heap, wpc>>
    /\ UNCHANGED <<kind, isPtr, wstop, hand, joins, gc>>

\* Mutation: detach leaves the root to the worker even when it is done.
Detach_KeepRoot ==
    /\ registered /\ kind # "spawn"
    /\ registered' = FALSE /\ detached' = TRUE /\ os' = FALSE
    /\ taken' = (taken \/ done)
    /\ UNCHANGED <<kind, isPtr, done, outcome, pinned, waiters, worker, heap,
                   joins, gc>>

\* lang_thread_detach: out of the registry; a finished outcome nobody took is
\* taken and unpinned.
Detach ==
    /\ registered /\ kind # "spawn"
    /\ registered' = FALSE /\ detached' = TRUE /\ os' = FALSE
    /\ IF done /\ ~taken
       THEN /\ taken' = TRUE
            /\ roots' = roots - (IF outcome = "panic" \/ pinned THEN 1 ELSE 0)
       ELSE UNCHANGED <<taken, roots>>
    /\ UNCHANGED <<kind, isPtr, done, outcome, pinned, waiters, worker,
                   inRoots, alive, joins, gc>>

-----------------------------------------------------------------------------
(* thread_join_poll and spawn_poll.                                        *)

JGoto(j, label) == jpc' = [jpc EXCEPT ![j] = label]

\* The registry has no such id: expect() ends the process.
PollUnknown(j) ==
    /\ jpc[j] = "poll" /\ ~registered
    /\ JGoto(j, "aborted")
    /\ UNCHANGED <<kind, isPtr, ctl, worker, heap, first, held, gc>>

\* Not done: the waker is registered, once, in the same section.
PollPending(j) ==
    /\ jpc[j] = "poll" /\ registered /\ ~done
    /\ waiters' = waiters \cup {j}
    /\ JGoto(j, "wait")
    /\ UNCHANGED <<kind, isPtr, registered, done, taken, outcome, pinned,
                   detached, os, worker, heap, first, held, gc>>

\* The task is polled again for some other wake-up.
PollAgain(j) ==
    /\ jpc[j] = "wait"
    /\ JGoto(j, "poll")
    /\ UNCHANGED <<kind, isPtr, ctl, worker, heap, first, held, gc>>

\* Done: the first poll takes the outcome over and the OS handle with it.
PollReady(j) ==
    /\ jpc[j] = "poll" /\ registered /\ done
    /\ taken' = TRUE
    /\ first' = IF taken THEN first ELSE first \cup {j}
    /\ os' = (os /\ taken)
    /\ JGoto(j, IF os /\ ~taken THEN "join" ELSE "box")
    /\ UNCHANGED <<kind, isPtr, registered, done, outcome, pinned, detached,
                   waiters, worker, heap, held, gc>>

\* os.join(), as RUNNING: it returns when the OS thread has ended.
OsJoin(j) ==
    /\ jpc[j] = "join" /\ wpc = "gone"
    /\ JGoto(j, "box")
    /\ UNCHANGED <<kind, isPtr, ctl, worker, heap, first, held, gc>>

\* The outcome is an object, and a joiner's box points to it.
Managed(o) == o = "panic" \/ (o = "value" /\ isPtr)

\* ready_join_box or ready_value_box, under gc::pause.  spawn_poll raises a
\* panic or a cancellation again instead, and leaves the roots as they are.
Box(j) ==
    /\ jpc[j] = "box"
    /\ IF kind = "spawn" /\ outcome # "value"
       THEN JGoto(j, "raised") /\ UNCHANGED held
       ELSE /\ JGoto(j, "unpin")
            /\ held' = IF Managed(outcome) THEN held \cup {j} ELSE held
    /\ UNCHANGED <<kind, isPtr, ctl, worker, heap, first, gc>>

\* The box is traced from here on; the first poll drops the handoff root.
Unpin(j) ==
    /\ jpc[j] = "unpin"
    /\ roots' = roots - (IF j \in first /\ (outcome = "panic" \/ pinned)
                         THEN 1 ELSE 0)
    /\ JGoto(j, "ready")
    /\ UNCHANGED <<kind, isPtr, ctl, worker, inRoots, alive, first, held, gc>>

\* The task is done with what it was given.
Forget(j) ==
    /\ jpc[j] = "ready" /\ j \in held
    /\ held' = held \ {j}
    /\ UNCHANGED <<kind, isPtr, ctl, worker, heap, jpc, first, gc>>

-----------------------------------------------------------------------------
(* Collections.                                                            *)

\* Some other thread wants to collect (stop_the_world).
RequestGC ==
    /\ ~stop /\ cycles < MaxGC
    /\ stop' = TRUE
    /\ UNCHANGED <<kind, isPtr, ctl, worker, heap, joins, cycles, caught>>

\* The worker meets a contended runtime lock while the world is being stopped:
\* in unregister_task_waker (tasks only), or in a waker it calls.
StopWorker ==
    /\ stop /\ ~wstop
    /\ \/ wpc = "ended" /\ kind # "thread"
       \/ wpc = "wake" /\ calls # {}
    /\ wstop' = TRUE
    /\ UNCHANGED <<kind, isPtr, ctl, wpc, hand, calls, cancelReq, heap, joins,
                   gc>>

\* Generated code and the pause's end are safepoints; a blocked os.join() and
\* the rest of a poll or a publication are not.
Quiescent ==
    /\ wstop \/ wpc \in {"idle", "body", "gone"}
    /\ \A j \in Joiners : jpc[j] \notin {"join", "box"}

\* Mark and sweep, then resume.  A result that the worker has in hand is in a
\* Rust frame, which is not scanned: no root, so it is freed.
Collect ==
    /\ stop /\ Quiescent
    /\ stop' = FALSE /\ wstop' = FALSE /\ cycles' = cycles + 1
    /\ caught' = (caught \/ (wpc = "ended" /\ hand = "value" /\ isPtr))
    /\ alive' = (alive /\ (Managed(hand) => roots > 0 \/ held # {}))
    /\ UNCHANGED <<kind, isPtr, ctl, wpc, hand, calls, cancelReq, roots,
                   inRoots, joins>>

-----------------------------------------------------------------------------

WorkerStep == \/ BeginBody \/ Suspend \/ SeeCancel
              \/ \E o \in {"value", "panic"} : EndBody(o)
              \/ FinishWorker \/ DropInput
              \/ \E j \in Joiners : WakeJoiner(j)

JoinerStep(j) == \/ PollUnknown(j) \/ PollPending(j) \/ PollReady(j)
                 \/ OsJoin(j) \/ Box(j) \/ Unpin(j)

JoinNext == \/ WorkerStep \/ Cancel \/ Detach
        \/ \E j \in Joiners : JoinerStep(j) \/ PollAgain(j) \/ Forget(j)
        \/ RequestGC \/ StopWorker \/ Collect

JoinSpec == JoinInit /\ [][JoinNext]_joinVars

\* The OS schedules every thread, a body ends, and a task that was woken is
\* polled (TaskExec); nobody is obliged to cancel, detach or collect, but a
\* collection that was asked for and may run, runs.
JoinFairSpec ==
    /\ JoinSpec /\ WF_joinVars(BeginBody)
    /\ SF_joinVars(\E o \in {"value", "panic"} : EndBody(o))
    /\ WF_joinVars(FinishWorker) /\ WF_joinVars(DropInput) /\ WF_joinVars(Collect)
    /\ WF_joinVars(\E j \in Joiners : WakeJoiner(j))
    /\ \A j \in Joiners : WF_joinVars(JoinerStep(j))

-----------------------------------------------------------------------------
(* Properties.                                                             *)

JoinTypeOK ==
    /\ kind \in Kinds /\ isPtr \in BOOLEAN
    /\ registered \in BOOLEAN /\ done \in BOOLEAN /\ taken \in BOOLEAN
    /\ outcome \in {"none", "value", "panic", "cancelled"}
    /\ pinned \in BOOLEAN /\ detached \in BOOLEAN
    /\ waiters \subseteq Joiners /\ os \in BOOLEAN /\ cancelReq \in BOOLEAN
    /\ wpc \in {"idle", "body", "ended", "wake", "gone"}
    /\ wstop \in BOOLEAN /\ hand \in {"none", "value", "panic"}
    /\ calls \subseteq Joiners
    /\ roots \in Nat /\ inRoots \in Nat /\ alive \in BOOLEAN
    /\ jpc \in [Joiners -> {"poll", "wait", "join", "box", "unpin", "ready",
                            "raised", "aborted"}]
    /\ first \subseteq Joiners /\ held \subseteq Joiners
    /\ stop \in BOOLEAN /\ cycles \in 0 .. MaxGC /\ caught \in BOOLEAN

\* The outcome's root is owned by exactly one party at a time: the worker until
\* it publishes, the handle until a joiner or detach takes it, that joiner
\* until it has boxed it, and nobody after that.  The exception is spawn_poll,
\* which raises a panic again and never unpins its message.
RootOwned ==
    LET owed == \/ wpc = "ended" /\ hand = "panic"
                \/ /\ outcome = "panic" \/ pinned
                   /\ \/ ~taken /\ ~detached
                      \/ \E j \in first : jpc[j] \in {"join", "box", "unpin",
                                                      "raised"}
    IN roots = IF owed THEN 1 ELSE 0

\* A joiner can still be given the outcome, or has been.
Expected ==
    \/ ~taken /\ ~detached
    \/ \E j \in first : jpc[j] \in {"join", "box", "unpin"} \/ j \in held

\* The outcome is alive until the first joiner has it in its own frames, whatever
\* detach, cancel and the collector do in between.  The one gap in the handoff is
\* a task's: a collection between the return of the body and publish_done
\* (threads.rs:849-852) finds nothing that roots the result.  A panic's message
\* and an OS thread's result are never in it.
HandoffAlive ==
    Managed(outcome) /\ Expected =>
        alive \/ (caught /\ kind # "thread" /\ outcome = "value")

\* What threads.rs:84-86 and 258-260 say without that gap: a result that is an
\* object is kept for its joiner by the handoff root.  It does not hold
\* (MCJoinKept.cfg).
ResultKept == Managed(outcome) /\ Expected => alive

\* The collector waits for a joiner blocked in os.join(), which waits for a
\* worker that is stopped for the collection.
Hung == stop /\ wstop /\ \E j \in Joiners : jpc[j] = "join"

\* Every joiner gets an answer once the worker is done; only the hang stands in
\* the way.
JoinersAnswered ==
    \A j \in Joiners : done ~> \/ jpc[j] \in {"ready", "raised", "aborted"}
                               \/ Hung
=============================================================================
