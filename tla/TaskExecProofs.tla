--------------------------- MODULE TaskExecProofs ---------------------------
(***************************************************************************)
(* A task's body runs on a live input, the task ends once and cleanly, a   *)
(* wake leaves a trace, and the executor implements TaskLife: for any      *)
(* number of tasks, workers and other threads.                             *)
(***************************************************************************)
EXTENDS TaskExec, TLAPS

\* Where a worker holds the poll_lock of its task.
LockedPcs == {"recheck", "unqueue", "mark", "check", "body", "settle", "swap",
              "unlock", "finish", "ending"}

\* Where it has seen, under the lock, that the task has not ended.
LivePcs == {"unqueue", "mark", "check", "body", "settle", "swap", "unlock",
            "finish"}

\* The ending of a task, before and with the return.
EndOps  == {"unregister", "release", "publish"}
HeldOps == EndOps \cup {"c_held", "leave"}

\* A thread is on a task exactly while it has something to do for it.  A worker
\* calls into the runtime from a body, or ends the task it polled.
Placed ==
    /\ \A w \in Workers :
          /\ pc[w] # "idle" <=> on[w] # NoOne
          /\ op[w] # "none" => pc[w] \in {"body", "ending"}
          /\ pc[w] = "ending" => op[w] \in EndOps \cup {"leave"} /\ target[w] = on[w]
          /\ w \in requeue => pc[w] \in {"unlock", "tail", "drain", "requeue", "push"}
    /\ \A h \in Threads : op[h] # "none" <=> target[h] # NoOne

\* Who works on a task under its poll_lock holds it, by the poll or by the call
\* it makes, and not by both.
LocksHeld ==
    /\ \A w \in Workers :
          /\ pc[w] \in LockedPcs => pollLock[on[w]] = w
          /\ pc[w] = "body" /\ op[w] \in HeldOps => target[w] # on[w]
    /\ \A h \in Threads : op[h] \in HeldOps => pollLock[target[h]] = h

\* done is stable under poll_lock for all but its holder.
DoneKnown ==
    /\ \A w \in Workers : pc[w] \in LivePcs => on[w] \notin done
    /\ \A h \in Threads :
          /\ op[h] \in EndOps \cup {"w_remove"} => target[h] \in done
          /\ op[h] = "leave" => target[h] \in done \cup Closures
          /\ op[h] \in {"c_lock", "c_held"} => target[h] \in cancelReq

\* The outcome to be published; a task ends as cancelled only on request, and as
\* panicked with its locks released.
VerdictKnown ==
    /\ \A w \in Workers :
          /\ pc[w] = "settle" =>
                /\ verdict[w] \in {"pending", "joined", "panicked"}
                /\ verdict[w] = "pending" => on[w] \in Futures
                /\ verdict[w] = "panicked" => on[w] \notin held
          /\ pc[w] = "finish" =>
                /\ verdict[w] \in {"joined", "panicked", "cancelled"}
                /\ verdict[w] = "cancelled" => on[w] \in cancelReq \cap Futures
                /\ verdict[w] = "panicked" => on[w] \notin held
    /\ \A h \in Threads : op[h] \in EndOps =>
          /\ verdict[h] \in {"joined", "panicked", "cancelled"}
          /\ verdict[h] = "panicked" => target[h] \notin held
          /\ verdict[h] = "cancelled" => target[h] \in cancelReq \cap Futures

\* What each stage of the ending has done so far, in the order of its kind.
EndingStage ==
    \A h \in Threads :
        /\ op[h] = "unregister" => pins[target[h]] = 1 /\ outcome[target[h]] = "none"
        /\ op[h] = "release" =>
              /\ pins[target[h]] = 1 /\ target[h] \notin registered
              /\ outcome[target[h]] = IF verdict[h] = "cancelled" THEN "none" ELSE verdict[h]
        /\ op[h] = "publish" =>
              /\ outcome[target[h]] = "none" /\ target[h] \notin registered
              /\ IF verdict[h] = "cancelled"
                 THEN pins[target[h]] = 0 /\ target[h] \notin held
                 ELSE pins[target[h]] = 1

\* A task that nobody is ending has not ended, or has ended completely.
EndedOrLive ==
    \A t \in Tasks :
        /\ t \notin done => outcome[t] = "none" /\ pins[t] = 1 /\ t \in registered
        /\ \/ t \notin done
           \/ \E h \in Threads : target[h] = t /\ op[h] \in EndOps
           \/ /\ outcome[t] # "none" /\ pins[t] = 0 /\ t \notin registered
              /\ outcome[t] \in {"cancelled", "panicked"} => t \notin held

\* The traces of a wake: a copy, a note, a worker on its way to the next poll, to
\* the push of a copy or to the end of the task, or the waker itself.
Trace(t) ==
    \/ copies[t] > 0 \/ t \in reschedule
    \/ \E w \in Workers : on[w] = t /\
          \/ w \in requeue
          \/ pc[w] \in {"entry", "lock", "busy", "recheck", "unqueue", "mark",
                       "check", "finish"}
    \/ \E h \in Threads : target[h] = t /\ op[h] \in
          {"w_done", "w_polling", "w_queued", "w_note", "w_inject"}

Traced == owed \subseteq Futures /\ \A t \in owed \ done : Trace(t)

IInv ==
    /\ TypeOK /\ Placed /\ LocksHeld /\ DoneKnown /\ VerdictKnown
    /\ EndingStage /\ EndedOrLive /\ Traced

\* The invariant holds when every task has been spawned and none polled.
LEMMA TaskInit == Init => IInv
  BY TaskAssumption
     DEF Init, IInv, Tasks, Threads, TypeOK, PollLabels, OpLabels, Outcomes,
         Placed, LocksHeld, DoneKnown, VerdictKnown, EndingStage, EndedOrLive,
         Traced, Trace, LockedPcs, LivePcs, HeldOps, EndOps

\* Every step keeps the invariant.  What matters is poll_lock: who sets done,
\* unpins the input or publishes has it, and nobody else does meanwhile.
LEMMA TaskStep == IInv /\ [Next]_vars => IInv'
<1> SUFFICES ASSUME IInv, [Next]_vars  PROVE IInv'
  OBVIOUS
<1> USE TaskAssumption
    DEF IInv, Tasks, Threads, flags, TypeOK, PollLabels, OpLabels, Outcomes,
        Placed, LocksHeld, DoneKnown, VerdictKnown, EndingStage, EndedOrLive,
        Traced, Trace, LockedPcs, LivePcs, HeldOps, EndOps
<1>0. CASE UNCHANGED vars
  BY <1>0 DEF vars
<1>1. ASSUME NEW w \in Workers, NEW t \in Tasks, PopCopy(w, t)  PROVE IInv'
  BY <1>1 DEF PopCopy, Goto
<1>2. ASSUME NEW w \in Workers, EntryDone(w)  PROVE IInv'
  <2>1. CASE on[w] \in done
    <3>1. TypeOK'
      BY <1>2, <2>1 DEF EntryDone, Return
    <3>2. (Placed /\ LocksHeld)'
      BY <1>2, <2>1 DEF EntryDone, Return
    <3>3. (DoneKnown /\ VerdictKnown)'
      BY <1>2, <2>1 DEF EntryDone, Return
    <3>4. (EndingStage /\ EndedOrLive)'
      BY <1>2, <2>1 DEF EntryDone, Return
    <3>5. Traced'
      BY <1>2, <2>1 DEF EntryDone, Return
    <3> QED  BY <3>1, <3>2, <3>3, <3>4, <3>5
  <2>2. CASE on[w] \notin done
    <3>1. TypeOK'
      BY <1>2, <2>2 DEF EntryDone, Goto
    <3>2. (Placed /\ LocksHeld)'
      BY <1>2, <2>2 DEF EntryDone, Goto
    <3>3. (DoneKnown /\ VerdictKnown)'
      BY <1>2, <2>2 DEF EntryDone, Goto
    <3>4. (EndingStage /\ EndedOrLive)'
      BY <1>2, <2>2 DEF EntryDone, Goto
    <3>5. Traced'
      BY <1>2, <2>2 DEF EntryDone, Goto
    <3> QED  BY <3>1, <3>2, <3>3, <3>4, <3>5
  <2> QED  BY <2>1, <2>2
<1>3. ASSUME NEW w \in Workers, TryPollLock(w)  PROVE IInv'
  BY <1>3 DEF TryPollLock, Goto
<1>4. ASSUME NEW w \in Workers, PollBusy(w)  PROVE IInv'
  BY <1>4 DEF PollBusy, Return
<1>5. ASSUME NEW w \in Workers, RecheckDone(w)  PROVE IInv'
  <2>1. CASE on[w] \in done
    <3>1. TypeOK'
      BY <1>5, <2>1 DEF RecheckDone, Return
    <3>2. (Placed /\ LocksHeld)'
      BY <1>5, <2>1 DEF RecheckDone, Return
    <3>3. (DoneKnown /\ VerdictKnown)'
      BY <1>5, <2>1 DEF RecheckDone, Return
    <3>4. EndingStage'
      BY <1>5, <2>1 DEF RecheckDone, Return
    <3>5. EndedOrLive'
      BY <1>5, <2>1 DEF RecheckDone, Return
    <3>6. Traced'
      BY <1>5, <2>1 DEF RecheckDone, Return
    <3> QED  BY <3>1, <3>2, <3>3, <3>4, <3>5, <3>6
  <2>2. CASE on[w] \notin done
    BY <1>5, <2>2 DEF RecheckDone, Goto
  <2> QED  BY <2>1, <2>2
<1>6. ASSUME NEW w \in Workers, ClearQueued(w)  PROVE IInv'
  BY <1>6 DEF ClearQueued, Goto
<1>7. ASSUME NEW w \in Workers, SetPolling(w)  PROVE IInv'
  BY <1>7 DEF SetPolling, Goto
<1>8. ASSUME NEW w \in Workers, CheckCancel(w)  PROVE IInv'
  BY <1>8 DEF CheckCancel, Goto
<1>9. ASSUME NEW w \in Workers, NEW r \in {"pending", "joined", "panicked"}, EndBody(w, r)
      PROVE  IInv'
  BY <1>9 DEF EndBody, Results, Goto
<1>10. ASSUME NEW w \in Workers, Settle(w)  PROVE IInv'
  BY <1>10 DEF Settle, Goto
<1>11. ASSUME NEW w \in Workers, SwapReschedule(w)  PROVE IInv'
  BY <1>11 DEF SwapReschedule, Goto
<1>12. ASSUME NEW w \in Workers, DropPollGuard(w)  PROVE IInv'
  BY <1>12 DEF DropPollGuard, Goto
<1>13. ASSUME NEW w \in Workers, TailDone(w)  PROVE IInv'
  BY <1>13 DEF TailDone, Goto
<1>14. ASSUME NEW w \in Workers, TailDrain(w)  PROVE IInv'
  BY <1>14 DEF TailDrain, Goto
<1>15. ASSUME NEW w \in Workers, Requeue(w)  PROVE IInv'
  <2>1. CASE w \in requeue
    BY <1>15, <2>1 DEF Requeue, Goto
  <2>2. CASE w \notin requeue
    <3>1. TypeOK'
      BY <1>15, <2>2 DEF Requeue, Return
    <3>2. (Placed /\ LocksHeld)'
      BY <1>15, <2>2 DEF Requeue, Return
    <3>3. (DoneKnown /\ VerdictKnown)'
      BY <1>15, <2>2 DEF Requeue, Return
    <3>4. EndingStage'
      BY <1>15, <2>2 DEF Requeue, Return
    <3>5. EndedOrLive'
      BY <1>15, <2>2 DEF Requeue, Return
    <3>6. Traced'
      BY <1>15, <2>2 DEF Requeue, Return
    <3> QED  BY <3>1, <3>2, <3>3, <3>4, <3>5, <3>6
  <2> QED  BY <2>1, <2>2
<1>16. ASSUME NEW w \in Workers, PushCopy(w)  PROVE IInv'
  BY <1>16 DEF PushCopy, Return
<1>17. ASSUME NEW w \in Workers, Finish(w)  PROVE IInv'
  BY <1>17, SMTT(20) DEF Finish, Goto
<1>18. ASSUME NEW h \in Threads, Unregister(h)  PROVE IInv'
  BY <1>18 DEF Unregister
<1>19. ASSUME NEW h \in Threads, ReleaseInput(h)  PROVE IInv'
  BY <1>19 DEF ReleaseInput
<1>20. ASSUME NEW h \in Threads, Publish(h)  PROVE IInv'
  BY <1>20 DEF Publish
<1>21. ASSUME NEW h \in Threads, Leave(h)  PROVE IInv'
  <2>1. CASE h \in Workers /\ pc[h] = "ending"
    <3>1. TypeOK'
      <4>1. (pc \in [Workers -> PollLabels] /\ on \in [Workers -> Tasks \cup {NoOne}])'
        BY <1>21, <2>1 DEF Leave, Return
      <4>2. (pollLock \in [Tasks -> Threads \cup {NoOne}])'
        BY <1>21 DEF Leave
      <4>3. (/\ op \in [Threads -> OpLabels] /\ target \in [Threads -> Tasks \cup {NoOne}]
             /\ verdict \in [Threads -> Outcomes \cup {"pending"}])'
        BY <1>21 DEF Leave
      <4> QED  BY <1>21, <4>1, <4>2, <4>3 DEF Leave
    <3>2. (Placed /\ LocksHeld)'
      BY <1>21, <2>1 DEF Leave, Return
    <3>3. (DoneKnown /\ VerdictKnown)'
      BY <1>21, <2>1 DEF Leave, Return
    <3>4. EndingStage'
      BY <1>21, <2>1 DEF Leave, Return
    <3>5. EndedOrLive'
      BY <1>21, <2>1 DEF Leave, Return
    <3>6. Traced'
      BY <1>21, <2>1 DEF Leave, Return
    <3> QED  BY <3>1, <3>2, <3>3, <3>4, <3>5, <3>6
  <2>2. CASE ~(h \in Workers /\ pc[h] = "ending")
    BY <1>21, <2>2 DEF Leave
  <2> QED  BY <2>1, <2>2
<1>22. ASSUME NEW h \in Threads, WakeDone(h)  PROVE IInv'
  BY <1>22 DEF WakeDone
<1>23. ASSUME NEW h \in Threads, WakePolling(h)  PROVE IInv'
  BY <1>23 DEF WakePolling
<1>24. ASSUME NEW h \in Threads, WakeQueued(h)  PROVE IInv'
  BY <1>24 DEF WakeQueued
<1>25. ASSUME NEW h \in Threads, WakeNote(h)  PROVE IInv'
  BY <1>25 DEF WakeNote, OpReturn
<1>26. ASSUME NEW h \in Threads, WakeInject(h)  PROVE IInv'
  BY <1>26 DEF WakeInject, OpReturn
<1>27. ASSUME NEW h \in Threads, WakeRemove(h)  PROVE IInv'
  BY <1>27 DEF WakeRemove, OpReturn
<1>28. ASSUME NEW h \in Threads, CancelRequest(h)  PROVE IInv'
  BY <1>28 DEF CancelRequest
<1>29. ASSUME NEW h \in Threads, CancelTryLock(h)  PROVE IInv'
  <2>1. CASE pollLock[target[h]] = NoOne
    <3>1. TypeOK'
      BY <1>29, <2>1 DEF CancelTryLock
    <3>2. (Placed /\ LocksHeld)'
      BY <1>29, <2>1 DEF CancelTryLock
    <3>3. (DoneKnown /\ VerdictKnown)'
      BY <1>29, <2>1 DEF CancelTryLock
    <3>4. (EndingStage /\ EndedOrLive)'
      BY <1>29, <2>1 DEF CancelTryLock
    <3>5. Traced'
      BY <1>29, <2>1 DEF CancelTryLock
    <3> QED  BY <3>1, <3>2, <3>3, <3>4, <3>5
  <2>2. CASE pollLock[target[h]] # NoOne
    <3>1. CASE op' = [op EXCEPT ![h] = "c_note"] /\ UNCHANGED target
      BY <1>29, <2>2, <3>1 DEF CancelTryLock
    <3>2. CASE OpReturn(h)
      BY <1>29, <2>2, <3>2 DEF CancelTryLock, OpReturn
    <3> QED  BY <1>29, <2>2, <3>1, <3>2 DEF CancelTryLock
  <2> QED  BY <2>1, <2>2
<1>30. ASSUME NEW h \in Threads, CancelHeld(h)  PROVE IInv'
  BY <1>30 DEF CancelHeld
<1>31. ASSUME NEW h \in Threads, CancelNote(h)  PROVE IInv'
  BY <1>31 DEF CancelNote, OpReturn
<1>32. ASSUME NEW h \in Threads, NEW t \in Tasks, WakeLookup(h, t)  PROVE IInv'
  BY <1>32 DEF WakeLookup, Free
<1>33. ASSUME NEW h \in Threads, NEW t \in Tasks, CancelLookup(h, t)  PROVE IInv'
  BY <1>33 DEF CancelLookup, Free
<1> HIDE DEF IInv
<1> QED
  BY <1>0, <1>1, <1>2, <1>3, <1>4, <1>5, <1>6, <1>7, <1>8, <1>9, <1>10, <1>11,
     <1>12, <1>13, <1>14, <1>15, <1>16, <1>17, <1>18, <1>19, <1>20, <1>21,
     <1>22, <1>23, <1>24, <1>25, <1>26, <1>27, <1>28, <1>29, <1>30, <1>31,
     <1>32, <1>33
     DEF Next, PollStep, OpStep, Call

\* It is inductive.
LEMMA TaskInvariant == Spec => []IInv
  BY TaskInit, TaskStep, PTL DEF Spec

\* poll_task runs a body only on a task that has not ended and whose input is
\* rooted, and one worker at a time, however stale the copies it pops.
THEOREM BodyRunsOnLiveInput == Spec => []PollsLiveInput
<1>1. IInv => PollsLiveInput
  BY TaskAssumption
     DEF IInv, TypeOK, Placed, LocksHeld, DoneKnown, EndedOrLive, PollsLiveInput,
         LockedPcs, LivePcs, Tasks, Threads, PollLabels
<1> QED  BY <1>1, TaskInvariant, PTL

\* Whether its last poll, its next poll or a canceller ends it, a task that is
\* not being ended has either all of its ending behind it or none.
THEOREM TasksEndCleanly == Spec => []EndsCleanly
<1>1. IInv => EndsCleanly
  BY DEF IInv, EndedOrLive, EndsCleanly, Ending, EndOps
<1> QED  BY <1>1, TaskInvariant, PTL

\* No interleaving of task_wake with poll_task loses a wake without a trace.
THEOREM WakesLeaveATrace == Spec => []WakeRecorded
<1>1. IInv => WakeRecorded
  BY DEF IInv, Traced, Trace, WakeRecorded, InFlight
<1> QED  BY <1>1, TaskInvariant, PTL

-----------------------------------------------------------------------------
(* The executor implements TaskLife.                                       *)

\* What TaskLife sees of a task, the phase of the refinement mapping.
PhaseOf(t) ==
    IF t \in done THEN "ended"
    ELSE IF \E w \in Workers : pc[w] = "body" /\ on[w] = t THEN "polled" ELSE "suspended"

Phase == [t \in Tasks |-> PhaseOf(t)]

\* The initial states of the executor are initial states of the life cycle.
LEMMA LifeInit == Init => Life!Init
  BY DEF Init, Life!Init

\* A poll begins and suspends under poll_lock, and so do the endings; the other
\* steps change nothing that TaskLife sees.
LEMMA LifeStep == IInv /\ [Next]_vars => [Life!Next]_(Life!vars)
<1> SUFFICES ASSUME IInv, [Next]_vars  PROVE [Life!Next]_(Life!vars)
  OBVIOUS
<1> DEFINE Seen == <<Phase, cancelReq, outcome>>
<1>a. UNCHANGED Seen => UNCHANGED Life!vars
  BY DEF Phase, PhaseOf, Life!vars
<1>b. ASSUME NEW t \in Tasks, Phase[t] = "suspended", UNCHANGED <<cancelReq, outcome>>,
             \/ Phase' = [Phase EXCEPT ![t] = "polled"]
             \/ Phase' = [Phase EXCEPT ![t] = "ended"]
      PROVE  Life!Next
  BY <1>b DEF Phase, PhaseOf, Life!Next, Life!Begin, Life!End
<1>c. ASSUME NEW t \in Tasks, Phase[t] = "polled", UNCHANGED <<cancelReq, outcome>>,
             Phase' = [Phase EXCEPT ![t] = "suspended"]
      PROVE  Life!Next
  BY <1>c DEF Phase, PhaseOf, Life!Next, Life!Suspend
<1>d. ASSUME NEW t \in Tasks, cancelReq' = cancelReq \cup {t}, UNCHANGED <<Phase, outcome>>
      PROVE  Life!Next
  BY <1>d DEF Phase, PhaseOf, Life!Next, Life!RequestCancel
<1>e. ASSUME NEW t \in Tasks, NEW v \in {"joined", "panicked", "cancelled"},
             Phase[t] = "ended", outcome[t] = "none",
             v = "cancelled" => t \in cancelReq \cap Futures,
             outcome' = [outcome EXCEPT ![t] = v], UNCHANGED <<Phase, cancelReq>>
      PROVE  Life!Next
  BY <1>e DEF Phase, PhaseOf, Life!Next, Life!Publish
<1>p. ASSUME NEW t \in Tasks, NEW v, PhaseOf(t)' = v,
             \A u \in Tasks \ {t} : PhaseOf(u)' = PhaseOf(u)
      PROVE  Phase' = [Phase EXCEPT ![t] = v]
  BY <1>p DEF Phase
<1> USE TaskAssumption
    DEF IInv, Tasks, Threads, flags, TypeOK, PollLabels, OpLabels, Outcomes,
        Placed, LocksHeld, DoneKnown, VerdictKnown, EndingStage,
        LockedPcs, LivePcs, HeldOps, EndOps
<1>q. ASSUME UNCHANGED <<done, cancelReq, outcome>>,
             \A t \in Tasks : (\E w \in Workers : pc[w] = "body" /\ on[w] = t) <=>
                               (\E w \in Workers : pc'[w] = "body" /\ on'[w] = t)
      PROVE  UNCHANGED Life!vars
  BY <1>a, <1>q DEF Phase, PhaseOf
<1>0. CASE UNCHANGED vars
  BY <1>0, <1>q DEF vars
<1>1. ASSUME NEW w \in Workers, NEW t \in Tasks, PopCopy(w, t)  PROVE UNCHANGED Life!vars
  BY <1>1, <1>q DEF PopCopy, Goto
<1>2. ASSUME NEW w \in Workers, EntryDone(w)  PROVE UNCHANGED Life!vars
  BY <1>2, <1>q DEF EntryDone, Return, Goto
<1>3. ASSUME NEW w \in Workers, TryPollLock(w)  PROVE UNCHANGED Life!vars
  BY <1>3, <1>q DEF TryPollLock, Goto
<1>4. ASSUME NEW w \in Workers, PollBusy(w)  PROVE UNCHANGED Life!vars
  BY <1>4, <1>q DEF PollBusy, Return
<1>5. ASSUME NEW w \in Workers, RecheckDone(w)  PROVE UNCHANGED Life!vars
  BY <1>5, <1>q DEF RecheckDone, Return, Goto
<1>6. ASSUME NEW w \in Workers, ClearQueued(w)  PROVE UNCHANGED Life!vars
  BY <1>6, <1>q DEF ClearQueued, Goto
<1>7. ASSUME NEW w \in Workers, SetPolling(w)  PROVE UNCHANGED Life!vars
  BY <1>7, <1>q DEF SetPolling, Goto
<1>8. ASSUME NEW w \in Workers, Settle(w)  PROVE UNCHANGED Life!vars
  BY <1>8, <1>q DEF Settle, Goto
<1>9. ASSUME NEW w \in Workers, SwapReschedule(w)  PROVE UNCHANGED Life!vars
  BY <1>9, <1>q DEF SwapReschedule, Goto
<1>10. ASSUME NEW w \in Workers, DropPollGuard(w)  PROVE UNCHANGED Life!vars
  BY <1>10, <1>q DEF DropPollGuard, Goto
<1>11. ASSUME NEW w \in Workers, TailDone(w)  PROVE UNCHANGED Life!vars
  BY <1>11, <1>q DEF TailDone, Goto
<1>12. ASSUME NEW w \in Workers, TailDrain(w)  PROVE UNCHANGED Life!vars
  BY <1>12, <1>q DEF TailDrain, Goto
<1>13. ASSUME NEW w \in Workers, Requeue(w)  PROVE UNCHANGED Life!vars
  BY <1>13, <1>q DEF Requeue, Return, Goto
<1>14. ASSUME NEW w \in Workers, PushCopy(w)  PROVE UNCHANGED Life!vars
  BY <1>14, <1>q DEF PushCopy, Return
<1>15. ASSUME NEW h \in Threads, Unregister(h)  PROVE UNCHANGED Life!vars
  BY <1>15, <1>q DEF Unregister
<1>16. ASSUME NEW h \in Threads, ReleaseInput(h)  PROVE UNCHANGED Life!vars
  BY <1>16, <1>q DEF ReleaseInput
<1>17. ASSUME NEW h \in Threads, Leave(h)  PROVE UNCHANGED Life!vars
  BY <1>17, <1>q DEF Leave, Return
<1>18. ASSUME NEW h \in Threads, WakeDone(h)  PROVE UNCHANGED Life!vars
  BY <1>18, <1>q DEF WakeDone
<1>19. ASSUME NEW h \in Threads, WakePolling(h)  PROVE UNCHANGED Life!vars
  BY <1>19, <1>q DEF WakePolling
<1>20. ASSUME NEW h \in Threads, WakeQueued(h)  PROVE UNCHANGED Life!vars
  BY <1>20, <1>q DEF WakeQueued
<1>21. ASSUME NEW h \in Threads, WakeNote(h)  PROVE UNCHANGED Life!vars
  BY <1>21, <1>q DEF WakeNote, OpReturn
<1>22. ASSUME NEW h \in Threads, WakeInject(h)  PROVE UNCHANGED Life!vars
  BY <1>22, <1>q DEF WakeInject, OpReturn
<1>23. ASSUME NEW h \in Threads, WakeRemove(h)  PROVE UNCHANGED Life!vars
  BY <1>23, <1>q DEF WakeRemove, OpReturn
<1>24. ASSUME NEW h \in Threads, CancelTryLock(h)  PROVE UNCHANGED Life!vars
  BY <1>24, <1>q DEF CancelTryLock, OpReturn
<1>25. ASSUME NEW h \in Threads, CancelNote(h)  PROVE UNCHANGED Life!vars
  BY <1>25, <1>q DEF CancelNote, OpReturn
<1>26. ASSUME NEW h \in Threads, NEW t \in Tasks, WakeLookup(h, t)  PROVE UNCHANGED Life!vars
  BY <1>26, <1>q DEF WakeLookup, Free
<1>27. ASSUME NEW h \in Threads, NEW t \in Tasks, CancelLookup(h, t)  PROVE UNCHANGED Life!vars
  BY <1>27, <1>q DEF CancelLookup, Free
<1>28. ASSUME NEW w \in Workers, CheckCancel(w)  PROVE [Life!Next]_(Life!vars)
  <2>1. CASE on[w] \in cancelReq \cap Futures
    BY <1>28, <2>1, <1>q DEF CheckCancel, Goto
  <2>2. CASE on[w] \notin cancelReq \cap Futures
    <3>0. PICK t \in Tasks : t = on[w]
      BY <1>28 DEF CheckCancel
    <3>1. Phase[t] = "suspended"
      BY <1>28, <3>0 DEF CheckCancel, Phase, PhaseOf
    <3>2. Phase' = [Phase EXCEPT ![t] = "polled"]
      <4>1. PhaseOf(t)' = "polled"
        BY <1>28, <2>2, <3>0 DEF CheckCancel, Goto, PhaseOf
      <4>2. \A u \in Tasks \ {t} : PhaseOf(u)' = PhaseOf(u)
        BY <1>28, <2>2, <3>0 DEF CheckCancel, Goto, PhaseOf
      <4> QED  BY <4>1, <4>2, <1>p
    <3>3. UNCHANGED <<cancelReq, outcome>>
      BY <1>28 DEF CheckCancel
    <3> QED  BY <3>1, <3>2, <3>3, <1>b
  <2> QED  BY <2>1, <2>2
<1>29. ASSUME NEW w \in Workers, NEW r \in {"pending", "joined", "panicked"}, EndBody(w, r)
      PROVE  Life!Next
  <2>0. PICK t \in Tasks : t = on[w]
    BY <1>29 DEF EndBody
  <2>1. Phase[t] = "polled"
    BY <1>29, <2>0 DEF EndBody, Phase, PhaseOf
  <2>2. Phase' = [Phase EXCEPT ![t] = "suspended"]
    <3>1. PhaseOf(t)' = "suspended"
      BY <1>29, <2>0 DEF EndBody, Goto, PhaseOf
    <3>2. \A u \in Tasks \ {t} : PhaseOf(u)' = PhaseOf(u)
      BY <1>29, <2>0 DEF EndBody, Goto, PhaseOf
    <3> QED  BY <3>1, <3>2, <1>p
  <2>3. UNCHANGED <<cancelReq, outcome>>
    BY <1>29 DEF EndBody
  <2> QED  BY <2>1, <2>2, <2>3, <1>c
<1>30. ASSUME NEW w \in Workers, Finish(w)  PROVE Life!Next
  <2>0. PICK t \in Tasks : t = on[w]
    BY <1>30 DEF Finish
  <2>1. Phase[t] = "suspended"
    BY <1>30, <2>0 DEF Finish, Phase, PhaseOf
  <2>2. Phase' = [Phase EXCEPT ![t] = "ended"]
    <3>1. PhaseOf(t)' = "ended"
      BY <1>30, <2>0 DEF Finish, Goto, PhaseOf
    <3>2. \A u \in Tasks \ {t} : PhaseOf(u)' = PhaseOf(u)
      BY <1>30, <2>0 DEF Finish, Goto, PhaseOf
    <3> QED  BY <3>1, <3>2, <1>p
  <2>3. UNCHANGED <<cancelReq, outcome>>
    BY <1>30 DEF Finish
  <2> QED  BY <2>1, <2>2, <2>3, <1>b
<1>31. ASSUME NEW h \in Threads, CancelHeld(h)  PROVE [Life!Next]_(Life!vars)
  <2>1. CASE target[h] \notin Futures \ done
    BY <1>31, <2>1, <1>q DEF CancelHeld
  <2>2. CASE target[h] \in Futures \ done
    <3>0. PICK t \in Tasks : t = target[h]
      BY <1>31 DEF CancelHeld
    <3>1. Phase[t] = "suspended"
      BY <1>31, <2>2, <3>0 DEF CancelHeld, Phase, PhaseOf
    <3>2. Phase' = [Phase EXCEPT ![t] = "ended"]
      <4>1. PhaseOf(t)' = "ended"
        BY <1>31, <2>2, <3>0 DEF CancelHeld, PhaseOf
      <4>2. \A u \in Tasks \ {t} : PhaseOf(u)' = PhaseOf(u)
        BY <1>31, <2>2, <3>0 DEF CancelHeld, PhaseOf
      <4> QED  BY <4>1, <4>2, <1>p
    <3>3. UNCHANGED <<cancelReq, outcome>>
      BY <1>31 DEF CancelHeld
    <3> QED  BY <3>1, <3>2, <3>3, <1>b
  <2> QED  BY <2>1, <2>2
<1>32. ASSUME NEW h \in Threads, CancelRequest(h)  PROVE Life!Next
  BY <1>32, <1>d DEF CancelRequest, Phase, PhaseOf
<1>33. ASSUME NEW h \in Threads, Publish(h)  PROVE Life!Next
  <2>1. /\ target[h] \in Tasks /\ Phase[target[h]] = "ended"
        /\ outcome[target[h]] = "none"
    BY <1>33 DEF Publish, Phase, PhaseOf
  <2>2. /\ verdict[h] \in {"joined", "panicked", "cancelled"}
        /\ verdict[h] = "cancelled" => target[h] \in cancelReq \cap Futures
    BY <1>33 DEF Publish
  <2>3. outcome' = [outcome EXCEPT ![target[h]] = verdict[h]]
    BY <1>33, <2>1 DEF Publish
  <2>4. UNCHANGED <<Phase, cancelReq>>
    BY <1>33 DEF Publish, Phase, PhaseOf
  <2> QED  BY <2>1, <2>2, <2>3, <2>4, <1>e
<1> HIDE DEF IInv
<1> QED
  BY <1>0, <1>1, <1>2, <1>3, <1>4, <1>5, <1>6, <1>7, <1>8, <1>9, <1>10,
     <1>11, <1>12, <1>13, <1>14, <1>15, <1>16, <1>17, <1>18, <1>19, <1>20,
     <1>21, <1>22, <1>23, <1>24, <1>25, <1>26, <1>27, <1>28, <1>29, <1>30,
     <1>31, <1>32, <1>33
     DEF Next, PollStep, OpStep, Call

\* Seen from outside, a task is polled by one thread at a time, ends once, is
\* never polled after its end, and publishes one outcome; cancelled is published
\* only for a future whose cancellation was requested.
THEOREM TasksImplementTaskLife == Spec => ImplementsTaskLife
  BY LifeInit, LifeStep, TaskInvariant, PTL DEF Spec, ImplementsTaskLife, Life!Spec
=============================================================================
