------------------------------ MODULE TaskExec ------------------------------
(***************************************************************************)
(* The life of an executor task (crates/runtime/src/threads.rs): the       *)
(* flags queued, polling, reschedule, done and cancel_requested, the       *)
(* poll_lock, and the three functions that race on them: poll_task on the  *)
(* pool's workers, task_wake from anywhere, cancel_task_by_id from any     *)
(* thread with a handle.  One step is one atomic operation, one critical   *)
(* section or one call into code that only this thread can see.            *)
(*                                                                         *)
(* The run queues are the promise WorkerPool is shown to keep (RunPool):   *)
(* a number of runnable copies, each popped once.                          *)
(***************************************************************************)
EXTENDS Integers, FiniteSets

CONSTANTS Futures,     \* tasks whose work is TaskWork::Future
          Closures,    \* tasks whose work is TaskWork::OrdinaryClosure
          Workers,     \* executor worker threads
          Externals,   \* other threads: the root driver, timers, I/O helpers
          NoOne,       \* poll_lock is free; no task
          MaxWakes     \* bound on the calls of task_wake for one task

Tasks   == Futures \cup Closures
Threads == Workers \cup Externals

ASSUME TaskAssumption ==
    /\ Futures \cap Closures = {}
    /\ Workers \cap Externals = {}
    /\ NoOne \notin Threads \cup Tasks
    /\ MaxWakes \in Nat

VARIABLES
    queued, polling, reschedule, done, cancelReq,   \* the Task's atomics
    pollLock,     \* the thread holding Task.poll_lock
    registered,   \* tasks in the task waker registry
    copies,       \* runnable copies in the run queues
    pins,         \* extra roots held for the task's input (future or env)
    held,         \* tasks holding Shared locks while suspended
    outcome,      \* ThreadInner.done / panicked / cancelled
    pc, on,       \* where each worker is in poll_task, and for which task
    requeue,      \* poll_task's local of that name
    op, target,   \* task_wake / cancel_task_by_id / the ending of a task
    verdict,      \* the outcome an ending thread will publish
    begun,        \* history: tasks polled at least once (so wakers exist)
    owed,         \* history: tasks woken and not polled since
    wakes         \* calls of task_wake so far

flags == <<queued, polling, reschedule, done, cancelReq>>
vars  == <<queued, polling, reschedule, done, cancelReq, pollLock, registered,
           copies, pins, held, outcome, pc, on, requeue, op, target, verdict,
           begun, owed, wakes>>

\* lang_async_spawn / lang_task_spawn: pin the input, register the waker, hand
\* one copy to the executor with queued set.
Init ==
    /\ queued = Tasks
    /\ polling = {} /\ reschedule = {} /\ done = {} /\ cancelReq = {}
    /\ pollLock = [t \in Tasks |-> NoOne]
    /\ registered = Tasks
    /\ copies = [t \in Tasks |-> 1]
    /\ pins = [t \in Tasks |-> 1]
    /\ held = {}
    /\ outcome = [t \in Tasks |-> "none"]
    /\ pc = [w \in Workers |-> "idle"]
    /\ on = [w \in Workers |-> NoOne]
    /\ requeue = {}
    /\ op = [h \in Threads |-> "none"]
    /\ target = [h \in Threads |-> NoOne]
    /\ verdict = [h \in Threads |-> "none"]
    /\ begun = {} /\ owed = {}
    /\ wakes = [t \in Tasks |-> 0]

Goto(w, label) == pc' = [pc EXCEPT ![w] = label]

Return(w) ==
    /\ pc' = [pc EXCEPT ![w] = "idle"]
    /\ on' = [on EXCEPT ![w] = NoOne]

\* A thread calls into the runtime when it runs code of its own.
Free(h) == op[h] = "none" /\ (h \in Workers => pc[h] = "body")

-----------------------------------------------------------------------------
(* poll_task, up to the poll itself.                                       *)

\* worker_loop pops a copy and calls poll_task.
PopCopy(w, t) ==
    /\ pc[w] = "idle"
    /\ copies[t] > 0
    /\ copies' = [copies EXCEPT ![t] = @ - 1]
    /\ on' = [on EXCEPT ![w] = t]
    /\ Goto(w, "entry")
    /\ UNCHANGED <<flags, pollLock, registered, pins, held, outcome, requeue,
                   op, target, verdict, begun, owed, wakes>>

\* The first test of done.
EntryDone(w) ==
    /\ pc[w] = "entry"
    /\ IF on[w] \in done THEN Return(w) ELSE Goto(w, "lock") /\ UNCHANGED on
    /\ UNCHANGED <<flags, pollLock, registered, copies, pins, held, outcome,
                   requeue, op, target, verdict, begun, owed, wakes>>

\* Mutation: the poll goes ahead when poll_lock is taken.
TryPollLock_Barge(w) ==
    /\ pc[w] = "lock"
    /\ pollLock' = [pollLock EXCEPT ![on[w]] = w]
    /\ Goto(w, "recheck")
    /\ UNCHANGED <<flags, registered, copies, pins, held, outcome, on, requeue,
                   op, target, verdict, begun, owed, wakes>>

\* runtime_try_lock(&task.poll_lock).
TryPollLock(w) ==
    /\ pc[w] = "lock"
    /\ IF pollLock[on[w]] = NoOne
       THEN /\ pollLock' = [pollLock EXCEPT ![on[w]] = w]
            /\ Goto(w, "recheck")
       ELSE Goto(w, "busy") /\ UNCHANGED pollLock
    /\ UNCHANGED <<flags, registered, copies, pins, held, outcome, on, requeue,
                   op, target, verdict, begun, owed, wakes>>

\* The lock was taken: leave a note for the poll in flight and return.
PollBusy(w) ==
    /\ pc[w] = "busy"
    /\ reschedule' = reschedule \cup {on[w]}
    /\ Return(w)
    /\ UNCHANGED <<queued, polling, done, cancelReq, pollLock, registered,
                   copies, pins, held, outcome, requeue, op, target, verdict,
                   begun, owed, wakes>>

\* Mutation: done is not tested again under the lock.
RecheckDone_Skip(w) ==
    /\ pc[w] = "recheck"
    /\ Goto(w, "unqueue")
    /\ UNCHANGED <<flags, pollLock, on, registered, copies, pins, held,
                   outcome, requeue, op, target, verdict, begun, owed, wakes>>

\* The second test of done, under the lock.
RecheckDone(w) ==
    /\ pc[w] = "recheck"
    /\ IF on[w] \in done
       THEN Return(w) /\ pollLock' = [pollLock EXCEPT ![on[w]] = NoOne]
       ELSE Goto(w, "unqueue") /\ UNCHANGED <<on, pollLock>>
    /\ UNCHANGED <<flags, registered, copies, pins, held, outcome, requeue, op,
                   target, verdict, begun, owed, wakes>>

ClearQueued(w) ==
    /\ pc[w] = "unqueue"
    /\ queued' = queued \ {on[w]}
    /\ Goto(w, "mark")
    /\ UNCHANGED <<polling, reschedule, done, cancelReq, pollLock, registered,
                   copies, pins, held, outcome, on, requeue, op, target,
                   verdict, begun, owed, wakes>>

SetPolling(w) ==
    /\ pc[w] = "mark"
    /\ polling' = polling \cup {on[w]}
    /\ Goto(w, "check")
    /\ UNCHANGED <<queued, reschedule, done, cancelReq, pollLock, registered,
                   copies, pins, held, outcome, on, requeue, op, target,
                   verdict, begun, owed, wakes>>

\* A cancelled future is not polled: polling is cleared and the task ended.
\* Otherwise the body starts, and serves every wake so far.
CheckCancel(w) ==
    /\ pc[w] = "check"
    /\ IF on[w] \in cancelReq /\ on[w] \in Futures
       THEN /\ polling' = polling \ {on[w]}
            /\ verdict' = [verdict EXCEPT ![w] = "cancelled"]
            /\ Goto(w, "finish")
            /\ UNCHANGED <<begun, owed>>
       ELSE /\ begun' = begun \cup {on[w]}
            /\ owed' = owed \ {on[w]}
            /\ Goto(w, "body")
            /\ UNCHANGED <<polling, verdict>>
    /\ UNCHANGED <<queued, reschedule, done, cancelReq, pollLock, registered,
                   copies, pins, held, outcome, on, requeue, op, target, wakes>>

-----------------------------------------------------------------------------
(* The poll and what follows it.                                           *)

\* What a poll may report: a closure runs to its end, a future may suspend.
Results(t) == {"joined", "panicked"} \cup (IF t \in Futures THEN {"pending"} ELSE {})

\* The body returns and polling is cleared.  Of the Shared locks the task holds,
\* only a panic releases them all, at the boundary (release_all); a body that
\* suspends or returns leaves those it has not released itself.
EndBody(w, r) ==
    /\ pc[w] = "body" /\ op[w] = "none"
    /\ r \in Results(on[w])
    /\ polling' = polling \ {on[w]}
    /\ verdict' = [verdict EXCEPT ![w] = r]
    /\ \/ held' = held \ {on[w]}
       \/ r # "panicked" /\ held' \in {held, held \cup {on[w]}}
    /\ Goto(w, "settle")
    /\ UNCHANGED <<queued, reschedule, done, cancelReq, pollLock, registered,
                   copies, pins, outcome, on, requeue, op, target, begun, owed,
                   wakes>>

\* match outcome: Pending looks at cancel_requested, the others end the task.
Settle(w) ==
    /\ pc[w] = "settle"
    /\ IF verdict[w] = "pending" /\ on[w] \notin cancelReq
       THEN Goto(w, "swap") /\ UNCHANGED verdict
       ELSE /\ Goto(w, "finish")
            /\ verdict' = [verdict EXCEPT ![w] = IF @ = "pending" THEN "cancelled" ELSE @]
    /\ UNCHANGED <<flags, pollLock, registered, copies, pins, held, outcome,
                   on, requeue, op, target, begun, owed, wakes>>

\* requeue = reschedule.swap(false), before the unlock.
SwapReschedule(w) ==
    /\ pc[w] = "swap"
    /\ requeue' = IF on[w] \in reschedule THEN requeue \cup {w} ELSE requeue \ {w}
    /\ reschedule' = reschedule \ {on[w]}
    /\ Goto(w, "unlock")
    /\ UNCHANGED <<queued, polling, done, cancelReq, pollLock, registered,
                   copies, pins, held, outcome, on, op, target, verdict, begun,
                   owed, wakes>>

\* drop(_poll_guard).
DropPollGuard(w) ==
    /\ pc[w] = "unlock"
    /\ pollLock' = [pollLock EXCEPT ![on[w]] = NoOne]
    /\ verdict' = [verdict EXCEPT ![w] = "none"]
    /\ Goto(w, "tail")
    /\ UNCHANGED <<flags, registered, copies, pins, held, outcome, on, requeue,
                   op, target, begun, owed, wakes>>

\* !task.done.load(..), the first half of the post-unlock condition.
TailDone(w) ==
    /\ pc[w] = "tail"
    /\ Goto(w, IF on[w] \in done THEN "requeue" ELSE "drain")
    /\ UNCHANGED <<flags, pollLock, registered, copies, pins, held, outcome,
                   on, requeue, op, target, verdict, begun, owed, wakes>>

\* && task.reschedule.swap(false, ..): the bits set since the first swap.
TailDrain(w) ==
    /\ pc[w] = "drain"
    /\ requeue' = IF on[w] \in reschedule THEN requeue \cup {w} ELSE requeue
    /\ reschedule' = reschedule \ {on[w]}
    /\ Goto(w, "requeue")
    /\ UNCHANGED <<queued, polling, done, cancelReq, pollLock, registered,
                   copies, pins, held, outcome, on, op, target, verdict, begun,
                   owed, wakes>>

\* Executor::inject, first half: mark the task queued.
Requeue(w) ==
    /\ pc[w] = "requeue"
    /\ IF w \in requeue
       THEN Goto(w, "push") /\ queued' = queued \cup {on[w]} /\ UNCHANGED on
       ELSE Return(w) /\ UNCHANGED queued
    /\ UNCHANGED <<polling, reschedule, done, cancelReq, pollLock, registered,
                   copies, pins, held, outcome, requeue, op, target, verdict,
                   begun, owed, wakes>>

\* inject_marked: push the copy.
PushCopy(w) ==
    /\ pc[w] = "push"
    /\ copies' = [copies EXCEPT ![on[w]] = @ + 1]
    /\ requeue' = requeue \ {w}
    /\ Return(w)
    /\ UNCHANGED <<flags, pollLock, registered, pins, held, outcome, op,
                   target, verdict, begun, owed, wakes>>

\* done.store(true), under poll_lock; the rest of the ending follows.
Finish(w) ==
    /\ pc[w] = "finish"
    /\ done' = done \cup {on[w]}
    /\ op' = [op EXCEPT ![w] = "unregister"]
    /\ target' = [target EXCEPT ![w] = on[w]]
    /\ Goto(w, "ending")
    /\ UNCHANGED <<queued, polling, reschedule, cancelReq, pollLock, registered,
                   copies, pins, held, outcome, on, requeue, verdict, begun,
                   owed, wakes>>

-----------------------------------------------------------------------------
(* The ending of a task, by its last poll or by a canceller.  A cancelled  *)
(* task is cleaned up and then published; a finished one is published and  *)
(* then loses its input root (finish_worker).                              *)

\* Threads inside task_wake's read of the registry; a writer waits for them.
Reading(t) == {h \in Threads : target[h] = t /\ op[h] \in
                  {"w_done", "w_polling", "w_queued", "w_note"}}

Unregister(h) ==
    /\ op[h] = "unregister"
    /\ Reading(target[h]) = {}
    /\ registered' = registered \ {target[h]}
    /\ op' = [op EXCEPT ![h] = IF verdict[h] = "cancelled" THEN "release" ELSE "publish"]
    /\ UNCHANGED <<flags, pollLock, copies, pins, held, outcome, pc, on,
                   requeue, target, verdict, begun, owed, wakes>>

\* Mutation: a cancelled task keeps the locks it holds.
ReleaseInput_KeepLocks(h) ==
    /\ op[h] = "release"
    /\ pins' = [pins EXCEPT ![target[h]] = @ - 1]
    /\ op' = [op EXCEPT ![h] = IF verdict[h] = "cancelled" THEN "publish" ELSE "leave"]
    /\ UNCHANGED <<flags, pollLock, registered, copies, held, outcome, pc, on,
                   requeue, target, verdict, begun, owed, wakes>>

\* remove_extra_root(input); a cancelled task is relieved of its locks first
\* (release_task_held), a finished one is not.
ReleaseInput(h) ==
    /\ op[h] = "release"
    /\ pins' = [pins EXCEPT ![target[h]] = @ - 1]
    /\ held' = IF verdict[h] = "cancelled" THEN held \ {target[h]} ELSE held
    /\ op' = [op EXCEPT ![h] = IF verdict[h] = "cancelled" THEN "publish" ELSE "leave"]
    /\ UNCHANGED <<flags, pollLock, registered, copies, outcome, pc, on,
                   requeue, target, verdict, begun, owed, wakes>>

\* publish_done, publish_panic, publish_cancelled; only the last tests done.
Publish(h) ==
    /\ op[h] = "publish"
    /\ outcome' = [outcome EXCEPT ![target[h]] =
                      IF verdict[h] = "cancelled" /\ @ # "none" THEN @ ELSE verdict[h]]
    /\ op' = [op EXCEPT ![h] = IF verdict[h] = "cancelled" THEN "leave" ELSE "release"]
    /\ UNCHANGED <<flags, pollLock, registered, copies, pins, held, pc, on,
                   requeue, target, verdict, begun, owed, wakes>>

\* The guard of poll_lock is dropped on the way out.
Leave(h) ==
    /\ op[h] = "leave"
    /\ pollLock' = [pollLock EXCEPT ![target[h]] = NoOne]
    /\ op' = [op EXCEPT ![h] = "none"]
    /\ target' = [target EXCEPT ![h] = NoOne]
    /\ verdict' = [verdict EXCEPT ![h] = "none"]
    /\ IF h \in Workers /\ pc[h] = "ending" THEN Return(h) ELSE UNCHANGED <<pc, on>>
    /\ UNCHANGED <<flags, registered, copies, pins, held, outcome, requeue,
                   begun, owed, wakes>>

-----------------------------------------------------------------------------
(* task_wake.                                                              *)

\* The waker looks the task up; the read lock is held until it is done with
\* the flags.  A task that is gone needs no wake.
WakeLookup(h, t) ==
    /\ Free(h)
    /\ t \in Futures \cap begun \cap registered
    /\ wakes[t] < MaxWakes
    /\ wakes' = [wakes EXCEPT ![t] = @ + 1]
    /\ owed' = owed \cup {t}
    /\ op' = [op EXCEPT ![h] = "w_done"]
    /\ target' = [target EXCEPT ![h] = t]
    /\ UNCHANGED <<flags, pollLock, registered, copies, pins, held, outcome,
                   pc, on, requeue, verdict, begun>>

\* done: only the registry entry is left to remove.
WakeDone(h) ==
    /\ op[h] = "w_done"
    /\ op' = [op EXCEPT ![h] = IF target[h] \in done THEN "w_remove" ELSE "w_polling"]
    /\ UNCHANGED <<flags, pollLock, registered, copies, pins, held, outcome,
                   pc, on, requeue, target, verdict, begun, owed, wakes>>

WakePolling(h) ==
    /\ op[h] = "w_polling"
    /\ op' = [op EXCEPT ![h] = IF target[h] \in polling THEN "w_note" ELSE "w_queued"]
    /\ UNCHANGED <<flags, pollLock, registered, copies, pins, held, outcome,
                   pc, on, requeue, target, verdict, begun, owed, wakes>>

\* queued.swap(true): the thread that sets it pushes the copy.
WakeQueued(h) ==
    /\ op[h] = "w_queued"
    /\ op' = [op EXCEPT ![h] = IF target[h] \in queued THEN "w_note" ELSE "w_inject"]
    /\ queued' = queued \cup {target[h]}
    /\ UNCHANGED <<polling, reschedule, done, cancelReq, pollLock, registered,
                   copies, pins, held, outcome, pc, on, requeue, target,
                   verdict, begun, owed, wakes>>

OpReturn(h) ==
    /\ op' = [op EXCEPT ![h] = "none"]
    /\ target' = [target EXCEPT ![h] = NoOne]

\* Mutation: the wake of a busy task is dropped.
WakeNote_Forget(h) ==
    /\ op[h] = "w_note"
    /\ OpReturn(h)
    /\ UNCHANGED <<flags, pollLock, registered, copies, pins, held, outcome,
                   pc, on, requeue, verdict, begun, owed, wakes>>

\* reschedule.store(true), on either busy branch.
WakeNote(h) ==
    /\ op[h] = "w_note"
    /\ reschedule' = reschedule \cup {target[h]}
    /\ OpReturn(h)
    /\ UNCHANGED <<queued, polling, done, cancelReq, pollLock, registered,
                   copies, pins, held, outcome, pc, on, requeue, verdict,
                   begun, owed, wakes>>

WakeInject(h) ==
    /\ op[h] = "w_inject"
    /\ copies' = [copies EXCEPT ![target[h]] = @ + 1]
    /\ OpReturn(h)
    /\ UNCHANGED <<flags, pollLock, registered, pins, held, outcome, pc, on,
                   requeue, verdict, begun, owed, wakes>>

WakeRemove(h) ==
    /\ op[h] = "w_remove"
    /\ Reading(target[h]) = {}
    /\ registered' = registered \ {target[h]}
    /\ OpReturn(h)
    /\ UNCHANGED <<flags, pollLock, copies, pins, held, outcome, pc, on,
                   requeue, verdict, begun, owed, wakes>>

-----------------------------------------------------------------------------
(* cancel_task_by_id.                                                      *)

\* A handle whose ThreadInner is already done has nothing to cancel.
CancelLookup(h, t) ==
    /\ Free(h)
    /\ outcome[t] = "none"
    /\ op' = [op EXCEPT ![h] = "c_request"]
    /\ target' = [target EXCEPT ![h] = t]
    /\ UNCHANGED <<flags, pollLock, registered, copies, pins, held, outcome,
                   pc, on, requeue, verdict, begun, owed, wakes>>

CancelRequest(h) ==
    /\ op[h] = "c_request"
    /\ cancelReq' = cancelReq \cup {target[h]}
    /\ op' = [op EXCEPT ![h] = "c_lock"]
    /\ UNCHANGED <<queued, polling, reschedule, done, pollLock, registered,
                   copies, pins, held, outcome, pc, on, requeue, target,
                   verdict, begun, owed, wakes>>

\* runtime_try_lock(&cancel.poll_lock): a busy future gets a note, a busy
\* closure nothing.
CancelTryLock(h) ==
    /\ op[h] = "c_lock"
    /\ \/ /\ pollLock[target[h]] = NoOne
          /\ pollLock' = [pollLock EXCEPT ![target[h]] = h]
          /\ op' = [op EXCEPT ![h] = "c_held"]
          /\ UNCHANGED target
       \/ /\ pollLock[target[h]] # NoOne /\ target[h] \in Futures
          /\ op' = [op EXCEPT ![h] = "c_note"]
          /\ UNCHANGED <<target, pollLock>>
       \/ /\ pollLock[target[h]] # NoOne /\ target[h] \in Closures
          /\ OpReturn(h)
          /\ UNCHANGED pollLock
    /\ UNCHANGED <<flags, registered, copies, pins, held, outcome, pc, on,
                   requeue, verdict, begun, owed, wakes>>

\* Mutation: a parked future is left to its next poll, like a busy one.
CancelHeld_Defer(h) ==
    /\ op[h] = "c_held"
    /\ op' = [op EXCEPT ![h] = "leave"]
    /\ UNCHANGED <<flags, pollLock, registered, copies, pins, held, outcome,
                   pc, on, requeue, target, verdict, begun, owed, wakes>>

\* Under the lock, a parked future is ended here unless it already was
\* (done.swap(true)); a closure is left to run.
CancelHeld(h) ==
    /\ op[h] = "c_held"
    /\ IF target[h] \in Futures \ done
       THEN /\ done' = done \cup {target[h]}
            /\ verdict' = [verdict EXCEPT ![h] = "cancelled"]
            /\ op' = [op EXCEPT ![h] = "unregister"]
       ELSE /\ op' = [op EXCEPT ![h] = "leave"]
            /\ UNCHANGED <<done, verdict>>
    /\ UNCHANGED <<queued, polling, reschedule, cancelReq, pollLock, registered,
                   copies, pins, held, outcome, pc, on, requeue, target, begun,
                   owed, wakes>>

CancelNote(h) ==
    /\ op[h] = "c_note"
    /\ reschedule' = reschedule \cup {target[h]}
    /\ OpReturn(h)
    /\ UNCHANGED <<queued, polling, done, cancelReq, pollLock, registered,
                   copies, pins, held, outcome, pc, on, requeue, verdict,
                   begun, owed, wakes>>

-----------------------------------------------------------------------------
PollStep(w) ==
    \/ EntryDone(w) \/ TryPollLock(w) \/ PollBusy(w) \/ RecheckDone(w)
    \/ ClearQueued(w) \/ SetPolling(w) \/ CheckCancel(w)
    \/ \E r \in {"pending", "joined", "panicked"} : EndBody(w, r)
    \/ Settle(w) \/ SwapReschedule(w) \/ DropPollGuard(w) \/ TailDone(w)
    \/ TailDrain(w) \/ Requeue(w) \/ PushCopy(w) \/ Finish(w)

OpStep(h) ==
    \/ Unregister(h) \/ ReleaseInput(h) \/ Publish(h) \/ Leave(h)
    \/ WakeDone(h) \/ WakePolling(h) \/ WakeQueued(h) \/ WakeNote(h)
    \/ WakeInject(h) \/ WakeRemove(h)
    \/ CancelRequest(h) \/ CancelTryLock(h) \/ CancelHeld(h) \/ CancelNote(h)

Call(h, t) == WakeLookup(h, t) \/ CancelLookup(h, t)

Next ==
    \/ \E w \in Workers : PollStep(w) \/ \E t \in Tasks : PopCopy(w, t)
    \/ \E h \in Threads : OpStep(h) \/ \E t \in Tasks : Call(h, t)

Spec == Init /\ [][Next]_vars

\* Every thread keeps running, a copy in the pool is eventually popped
\* (WorkerPool), and a body makes finitely many calls before it returns.  Nobody
\* is obliged to wake or cancel.
Fairness ==
    /\ \A w \in Workers : SF_vars(PollStep(w))
    /\ \A h \in Threads : WF_vars(OpStep(h))
    /\ \A t \in Tasks : SF_vars(\E w \in Workers : PopCopy(w, t))

FairSpec == Spec /\ Fairness

-----------------------------------------------------------------------------
(* Properties.                                                             *)

PollLabels == {"idle", "entry", "lock", "busy", "recheck", "unqueue", "mark",
               "check", "body", "settle", "swap", "unlock", "tail", "drain",
               "requeue", "push", "finish", "ending"}

OpLabels == {"none", "unregister", "release", "publish", "leave", "w_done",
             "w_polling", "w_queued", "w_note", "w_inject", "w_remove",
             "c_request", "c_lock", "c_held", "c_note"}

Outcomes == {"none", "joined", "panicked", "cancelled"}

\* The flags, the locks and the program counters have their types; in particular
\* a task's input is pinned at most once, and never unpinned twice
\* (remove_extra_root by a canceller and by the last poll).
TypeOK ==
    /\ queued \subseteq Tasks /\ polling \subseteq Tasks
    /\ reschedule \subseteq Tasks /\ done \subseteq Tasks
    /\ cancelReq \subseteq Tasks /\ registered \subseteq Tasks
    /\ held \subseteq Tasks /\ begun \subseteq Tasks /\ owed \subseteq Tasks
    /\ pollLock \in [Tasks -> Threads \cup {NoOne}]
    /\ copies \in [Tasks -> Nat]
    /\ pins \in [Tasks -> {0, 1}]
    /\ outcome \in [Tasks -> Outcomes]
    /\ pc \in [Workers -> PollLabels]
    /\ on \in [Workers -> Tasks \cup {NoOne}]
    /\ requeue \subseteq Workers
    /\ op \in [Threads -> OpLabels]
    /\ target \in [Threads -> Tasks \cup {NoOne}]
    /\ verdict \in [Threads -> Outcomes \cup {"pending"}]
    /\ wakes \in [Tasks -> 0 .. MaxWakes]

\* A body runs only on a live task: its input is rooted, nobody has ended it,
\* and no other worker is inside the same body.  A canceller and a poller meet
\* here through poll_lock and the second test of done.
PollsLiveInput ==
    \A w \in Workers :
        pc[w] = "body" =>
            /\ pins[on[w]] = 1 /\ on[w] \notin done
            /\ \A v \in Workers \ {w} : pc[v] = "body" => on[v] # on[w]

\* Ending(t): some thread is between done.store(true) and its return.
Ending(t) == \E h \in Threads : target[h] = t /\ op[h] \in
                 {"unregister", "release", "publish", "leave"}

\* An ended task has published one outcome, dropped its input root exactly once
\* and left the registry, whichever thread ended it, and it holds no lock if it
\* panicked or was cancelled; a task that has not ended keeps its root and its
\* registry entry.  A normal return is promised nothing about locks: nothing
\* drains held_locks there (SharedLock, DeadHoldNothing).
EndsCleanly ==
    \A t \in Tasks : ~Ending(t) =>
        IF t \in done
        THEN /\ outcome[t] # "none" /\ pins[t] = 0 /\ t \notin registered
             /\ outcome[t] \in {"cancelled", "panicked"} => t \notin held
        ELSE outcome[t] = "none" /\ pins[t] = 1 /\ t \in registered

\* Some thread still has poll_task's or task_wake's work to do for t.
InFlight(t) ==
    \/ \E w \in Workers : on[w] = t
    \/ \E h \in Threads : target[h] = t

\* A wake leaves a trace: until the next poll starts there is a copy of the
\* task, a thread at work on it, or its reschedule bit.
WakeRecorded ==
    \A t \in owed \ done : copies[t] > 0 \/ InFlight(t) \/ t \in reschedule

\* Abstractly, a task is polled, suspends and ends as TaskLife says.
Life == INSTANCE TaskLife WITH
            phase <- [t \in Tasks |->
                        IF t \in done THEN "ended"
                        ELSE IF \E w \in Workers : pc[w] = "body" /\ on[w] = t
                             THEN "polled" ELSE "suspended"],
            requested <- cancelReq,
            Cancellable <- Futures

ImplementsTaskLife == Life!Spec

\* A note that a stale copy, a wake or a canceller's lock left after the last
\* swap of reschedule: no copy of the task and no thread at work on it is left to
\* read it.
Stranded(t) == t \in reschedule /\ copies[t] = 0 /\ ~InFlight(t)

\* Every wake is followed by a poll unless the task ends, whatever the workers
\* that poll it and the bodies that wake and cancel it do in between; the one
\* thing that can stop it is a task stranded for ever (threads.rs:765-768).
WokenIsPolled == \A t \in Futures : t \in owed ~> t \notin owed \/ t \in done \/ []Stranded(t)

\* In the same way a cancelled future reaches an outcome, and so does every
\* closure, which nothing can cancel.
CancelledEnds ==
    /\ \A t \in Futures : t \in cancelReq ~> outcome[t] # "none" \/ []Stranded(t)
    /\ \A t \in Closures : <>(outcome[t] # "none" \/ []Stranded(t))
=============================================================================
