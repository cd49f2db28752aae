--------------------------- MODULE AsyncIoProofs ---------------------------
(***************************************************************************)
(* A suspended task has somebody left to wake it, and a task that is done  *)
(* leaves nothing of its future behind: for any number of tasks, plans and *)
(* cancellations, and any durations.                                       *)
(***************************************************************************)
EXTENDS AsyncIo, TLAPS

\* The part of the type invariant that the argument needs.
Types ==
    /\ plan \in [Tasks -> AllPlans]
    /\ pc \in [Tasks -> {"idle", "leaf", "reg", "store", "wait", "deadline",
                         "arm", "push", "won", "dslot", "dswap", "dlist",
                         "dend", "cancel", "lslot", "lswap", "llist", "last",
                         "done"}]
    /\ out \in [Tasks -> {"none", "yielded", "null", "value", "timedout",
                          "cancelled"}]
    /\ hpc \in [Tasks -> {"none", "run", "check", "commit", "list", "ring",
                          "end"}]
    /\ handle \in [Tasks -> {"none", "live", "given", "released"}]
    /\ roots \in [Tasks -> Int]
    /\ woken \subseteq Tasks /\ cells \subseteq Sources
    /\ slot \subseteq Sources /\ waiters \subseteq Sources
    /\ fired \subseteq Tokens
    /\ \A e \in due : e.tok \in Tokens
    /\ dpc \in {"scan", "nap", "swap", "fire", "drop", "take", "list", "ring",
                "cswap", "clist"}
    /\ dtok \in Tokens \cup {NoTok}
    /\ dpc \notin {"scan", "nap"} => dtok \in Tokens

Awaits(t)  == Leaf(plan[t]) # "yield"
Does(t)    == Leaf(plan[t]) \in {"open", "read"}
Limit(t)   == <<t, "timeout">>
Polling(t) == pc[t] \in {"idle", "leaf", "reg", "store", "wait", "deadline",
                         "arm", "push"}
Losing(t)  == pc[t] \in {"lslot", "lswap", "llist"}

\* A source whose first poll has not come to its registration.
Unarmed(t, x) ==
    \/ <<t, x>> \notin started
    \/ x = "io" /\ pc[t] = "reg"
    \/ pc[t] = "arm" /\ <<t, x>> = Arming(t)

\* Who has taken a registration from its slot, or not yet put it there.
TaskHas(t, x)   == IF x = "timeout" THEN pc[t] \in {"dswap", "dlist"}
                   ELSE <<t, x>> = Src(t) /\ pc[t] \in {"lswap", "llist"}
DriverHas(t, x) == dtok = <<t, x>> /\ dpc \in {"list", "ring", "cswap", "clist"}
HelperHas(t, x) == x = "io" /\ hpc[t] \in {"list", "ring"}
Joining(t, x)   == x = "io" /\ pc[t] = "store"

\* Where a poll is, and which of its future's cells are left.
Flow(t) ==
    /\ <<t, "io">> \in started \cup cells => Does(t)
    /\ <<t, "sleep">> \in started \cup cells => Leaf(plan[t]) = "sleep"
    /\ Limit(t) \in started \cup cells => Timed(plan[t])
    /\ Limit(t) \in started => Src(t) \in started
    /\ pc[t] \in {"reg", "store"} => Does(t)
    /\ pc[t] \in {"reg", "store", "wait", "deadline", "arm", "push"} \/
       (pc[t] = "idle" /\ t \notin woken) =>
          Awaits(t) /\ Src(t) \in started \cap cells
    /\ pc[t] \in {"deadline", "won", "dslot", "dswap", "dlist", "dend"} => Timed(plan[t])
    /\ pc[t] \in {"arm", "push"} =>
          IF Limit(t) \in started THEN Timed(plan[t]) ELSE Leaf(plan[t]) = "sleep"
    /\ Polling(t) => out[t] \in {"none", "yielded"}
    /\ Polling(t) \/ pc[t] = "won" =>
          (Timed(plan[t]) /\ Src(t) \in cells => Limit(t) \in cells)

\* What is left of them once the poll or the cancellation is ending.
Ending(t) ==
    /\ pc[t] \in {"cancel", "lslot", "lswap", "llist", "last"} =>
          /\ Awaits(t) /\ ~InFn(plan[t])
          /\ Limit(t) \in cells => Limit(t) \in fired
    /\ Losing(t) => t \in cancelled
    /\ pc[t] \in {"won", "dslot", "dswap", "dlist", "dend"} =>
          out[t] = "cancelled" \/ Src(t) \notin cells
    /\ pc[t] \in {"dslot", "dswap", "dlist", "dend"} => Limit(t) \notin cells
    /\ pc[t] = "last" => Src(t) \notin cells
    /\ pc[t] = "done" /\ ~ (InFn(plan[t]) /\ out[t] = "cancelled") =>
          <<t, "io">> \notin cells /\ <<t, "sleep">> \notin cells /\ Limit(t) \notin cells

\* A registration is listed while it is in its slot or with the one party that
\* took it, and active until that party has decided.
Registration(t, x) ==
    LET s == <<t, x>>
    IN  /\ Unarmed(t, x) => s \notin waiters \cup ractive \cup slot
        /\ s \in slot => s \in waiters \cap ractive
        /\ s \in slot \/ TaskHas(t, x) => ~DriverHas(t, x) /\ ~HelperHas(t, x)
        /\ s \in slot \/ Joining(t, x) => ~TaskHas(t, x)
        /\ Joining(t, x) => s \in waiters \cap ractive /\ s \notin slot
        /\ TaskHas(t, x) => /\ s \in waiters
                            /\ IF pc[t] \in {"dswap", "lswap"}
                               THEN s \in ractive ELSE s \in won
        /\ DriverHas(t, x) => /\ dpc # "ring" <=> s \in waiters
                              /\ dpc # "clist" => s \in ractive
        /\ HelperHas(t, x) => /\ hpc[t] = "list" <=> s \in waiters
                              /\ s \in ractive
        /\ s \in waiters => \/ s \in slot \/ Joining(t, x) \/ TaskHas(t, x)
                            \/ DriverHas(t, x) \/ HelperHas(t, x)
        /\ s \in slot \ cells =>
              \/ DriverOn(s)
              \/ IF x = "timeout" THEN pc[t] = "dslot"
                 ELSE s = Src(t) /\ pc[t] = "lslot"

\* One entry of the heap leads the driver to the token, which fires it unless
\* it was cancelled; a token that has fired is being rung or was seen.
Timer(t, x) ==
    LET k == <<t, x>>
        queued == \E e \in due : e.tok = k
    IN  /\ Unarmed(t, x) \/ (pc[t] = "push" /\ k = Arming(t)) =>
              ~queued /\ ~DriverOn(k) /\ k \notin fired
        /\ queued => ~DriverOn(k) /\ k \notin fired
        /\ \A e, f \in due : e.tok = k /\ f.tok = k => e = f
        /\ DriverOn(k) => (k \in fired <=> dpc \in {"take", "list", "ring"})
        /\ DriverOn(k) /\ dpc \in {"drop", "cswap", "clist"} => k \notin active
        /\ k \in cells =>
              k \in active \cup fired \/ (dtok = k /\ dpc = "fire")
        /\ k \in fired \cap slot => DriverOn(k)
        /\ k \in cells /\ ~Unarmed(t, x) =>
              \/ k \in slot /\ pc[t] = "push" /\ k = Arming(t)
              \/ k \in slot /\ queued
              \/ k \in slot /\ DriverOn(k) /\ dpc \in {"swap", "fire", "take"}
              \/ k \in fired
        /\ k \in cells /\ DriverOn(k) /\ dpc \in {"swap", "fire", "take"} => k \in slot
        /\ k \in cells \cap fired /\ ~DriverOn(k) /\ t \notin woken =>
              IF x = "sleep"
              THEN pc[t] \notin {"idle", "wait", "deadline", "arm", "push"}
              ELSE pc[t] # "idle"

\* The helper of an operation, its result and the handle in it.
Operation(t) ==
    LET s == <<t, "io">>
    IN  /\ roots[t] = IF hpc[t] = "commit" \/ t \in result THEN 1 ELSE 0
        /\ t \in result => hpc[t] \in {"list", "ring", "end"} /\ s \notin slot
        /\ IF s \notin started \/ pc[t] \in {"reg", "store"}
           THEN hpc[t] = "none" ELSE hpc[t] # "none"
        /\ handle[t] = "live" => hpc[t] \in {"check", "commit"} \/ t \in result
        /\ hpc[t] \in {"none", "run"} => handle[t] = "none"
        /\ t \in cancelled => Src(t) \notin cells
        /\ Does(t) /\ s \notin cells =>
              t \in cancelled \/ (t \notin result /\ hpc[t] \in {"list", "ring", "end"})
        /\ t \in result \cap cancelled => Losing(t) \/ pc[t] = "last"
        /\ s \in cells /\ hpc[t] \in {"run", "check", "commit"} => s \in slot
        /\ s \in cells /\ hpc[t] \in {"list", "ring", "end"} => t \in result
        /\ s \in cells /\ hpc[t] = "end" /\ t \notin woken =>
              pc[t] \notin {"idle", "wait", "deadline", "arm", "push"}

TaskInv(t) ==
    /\ Flow(t) /\ Ending(t) /\ Operation(t)
    /\ Registration(t, "io") /\ Registration(t, "sleep") /\ Registration(t, "timeout")
    /\ Timer(t, "sleep") /\ Timer(t, "timeout")

IInv == Types /\ \A t \in Tasks : TaskInv(t)

-----------------------------------------------------------------------------
\* What the plans are: a deadline guards an operation or a sleep, and an async
\* function is not one of the runtime's futures.
LEMMA PlanFacts ==
    \A p \in AllPlans : /\ Leaf(p) \in {"open", "read", "sleep", "yield"}
                        /\ Timed(p) => Leaf(p) # "yield" /\ ~InFn(p)
                        /\ InFn(p) => Leaf(p) = "open"
  BY DEF AllPlans, Leaf, Timed, InFn

\* Every step keeps the types.
LEMMA TypesStep == Types /\ [Next]_vars => Types'
<1> SUFFICES ASSUME Types, [Next]_vars  PROVE Types'
  OBVIOUS
<1> USE AsyncAssumption
    DEF Types, Tokens, Sources, Goto, Src, Arming, task, regs, reactor, io, timer
<1>0. CASE UNCHANGED vars
  BY <1>0 DEF vars
<1>1. ASSUME NEW u \in Tasks, StartPoll(u)  PROVE Types'
  BY <1>1 DEF StartPoll
<1>2. ASSUME NEW u \in Tasks, YieldPoll(u)  PROVE Types'
  BY <1>2 DEF YieldPoll, Ready
<1>3. ASSUME NEW u \in Tasks, PollGone(u)  PROVE Types'
  BY <1>3 DEF PollGone, Ready
<1>4. ASSUME NEW u \in Tasks, PollLeaf(u)  PROVE Types'
  BY <1>4 DEF PollLeaf, Ready
<1>5. ASSUME NEW u \in Tasks, PollPending(u)  PROVE Types'
  BY <1>5 DEF PollPending
<1>6. ASSUME NEW u \in Tasks, IoRegister(u)  PROVE Types'
  BY <1>6 DEF IoRegister, Register
<1>7. ASSUME NEW u \in Tasks, IoStore(u)  PROVE Types'
  BY <1>7 DEF IoStore
<1>8. ASSUME NEW u \in Tasks, Wait(u)  PROVE Types'
  BY <1>8 DEF Wait
<1>9. ASSUME NEW u \in Tasks, Deadline(u)  PROVE Types'
  BY <1>9 DEF Deadline
<1>10. ASSUME NEW u \in Tasks, Arm(u)  PROVE Types'
  BY <1>10 DEF Arm, Register
<1>11. ASSUME NEW u \in Tasks, Push(u)  PROVE Types'
  BY <1>11 DEF Push
<1>12. ASSUME NEW u \in Tasks, DropDeadline(u)  PROVE Types'
  BY <1>12 DEF DropDeadline
<1>13. ASSUME NEW u \in Tasks, CancelLeaf(u)  PROVE Types'
  BY <1>13 DEF CancelLeaf
<1>14. ASSUME NEW u \in Tasks, TakeSlot(u)  PROVE Types'
  BY <1>14 DEF TakeSlot
<1>15. ASSUME NEW u \in Tasks, SwapReg(u)  PROVE Types'
  BY <1>15 DEF SwapReg, CancelSwap
<1>16. ASSUME NEW u \in Tasks, UnlistReg(u)  PROVE Types'
  BY <1>16 DEF UnlistReg, Unlist
<1>17. ASSUME NEW u \in Tasks, EndDeadline(u)  PROVE Types'
  BY <1>17 DEF EndDeadline
<1>18. ASSUME NEW u \in Tasks, CancelResult(u)  PROVE Types'
  BY <1>18 DEF CancelResult, Discard
<1>19. ASSUME NEW u \in Tasks, CancelTask(u)  PROVE Types'
  BY <1>19 DEF CancelTask
<1>20. ASSUME NEW u \in Tasks, CancelBefore(u)  PROVE Types'
  BY <1>20 DEF CancelBefore
<1>21. ASSUME NEW u \in Tasks, HRun(u)  PROVE Types'
  BY <1>21 DEF HRun, HGoto
<1>22. ASSUME NEW u \in Tasks, HCheck(u)  PROVE Types'
  BY <1>22 DEF HCheck, HGoto, Discard
<1>23. ASSUME NEW u \in Tasks, HCommit(u)  PROVE Types'
  BY <1>23 DEF HCommit, HGoto, Discard
<1>24. ASSUME NEW u \in Tasks, HUnlist(u)  PROVE Types'
  BY <1>24 DEF HUnlist, HGoto, Unlist
<1>25. ASSUME NEW u \in Tasks, HRing(u)  PROVE Types'
  BY <1>25 DEF HRing, HGoto, Ring
<1>26. CASE DScan
  BY <1>26 DEF DScan, DGoto
<1>27. CASE DWake
  BY <1>27 DEF DWake, DGoto
<1>28. CASE DSwap
  BY <1>28 DEF DSwap, DGoto
<1>29. CASE DFire
  BY <1>29 DEF DFire, DGoto
<1>30. CASE DTake
  BY <1>30 DEF DTake, DGoto
<1>31. CASE DUnlist
  BY <1>31 DEF DUnlist, DGoto, Unlist
<1>32. CASE DRing
  BY <1>32 DEF DRing, DGoto, Ring
<1>33. CASE DCancelSwap
  BY <1>33 DEF DCancelSwap, DGoto, CancelSwap
<1>34. CASE DCancelUnlist
  BY <1>34 DEF DCancelUnlist, DGoto, Unlist
<1>35. CASE Tick
  BY <1>35 DEF Tick
<1> QED
  BY <1>0, <1>1, <1>2, <1>3, <1>4, <1>5, <1>6, <1>7, <1>8, <1>9, <1>10,
     <1>11, <1>12, <1>13, <1>14, <1>15, <1>16, <1>17, <1>18, <1>19,
     <1>20, <1>21, <1>22, <1>23, <1>24, <1>25, <1>26, <1>27, <1>28,
     <1>29, <1>30, <1>31, <1>32, <1>33, <1>34, <1>35
     DEF Next, PollStep, Complete, Driver

\* Every step keeps what holds of a task: its own, its helper's, the driver's,
\* and those of other tasks, which touch none of its sources.
LEMMA TaskStep ==
    ASSUME IInv, [Next]_vars, NEW t \in Tasks
    PROVE  TaskInv(t)'
<1>p. /\ Types /\ Flow(t) /\ Ending(t) /\ Operation(t)
      /\ Registration(t, "io") /\ Registration(t, "sleep") /\ Registration(t, "timeout")
      /\ Timer(t, "sleep") /\ Timer(t, "timeout")
  BY DEF IInv, TaskInv
<1> USE AsyncAssumption
    DEF Types, Flow, Ending, Operation, Registration, Timer, Unarmed, TaskHas,
        DriverHas, HelperHas, Joining, Awaits, Does, Limit, Polling, Losing,
        DriverOn, Tokens, Sources, Goto, Src, Arming, task, regs, reactor, io, timer
<1>q. /\ Leaf(plan[t]) \in {"open", "read", "sleep", "yield"}
      /\ Timed(plan[t]) => Leaf(plan[t]) # "yield" /\ ~InFn(plan[t])
      /\ InFn(plan[t]) => Leaf(plan[t]) = "open"
  BY <1>p, PlanFacts DEF Types
<1>0. CASE UNCHANGED vars
  <2>1. Flow(t)' /\ Ending(t)' /\ Operation(t)'
    BY <1>0, <1>p, <1>q DEF vars
  <2>2. Registration(t, "io")' /\ Registration(t, "sleep")' /\ Registration(t, "timeout")'
    BY <1>0, <1>p, <1>q DEF vars
  <2>3. Timer(t, "sleep")' /\ Timer(t, "timeout")'
    BY <1>0, <1>p, <1>q DEF vars
  <2> QED  BY <2>1, <2>2, <2>3 DEF TaskInv
<1>1. ASSUME NEW u \in Tasks, StartPoll(u)  PROVE TaskInv(t)'
  <2>1. Flow(t)' /\ Ending(t)' /\ Operation(t)'
    BY <1>1, <1>p, <1>q DEF StartPoll
  <2>2. Registration(t, "io")' /\ Registration(t, "sleep")' /\ Registration(t, "timeout")'
    BY <1>1, <1>p, <1>q DEF StartPoll
  <2>3. Timer(t, "sleep")' /\ Timer(t, "timeout")'
    BY <1>1, <1>p, <1>q DEF StartPoll
  <2> QED  BY <2>1, <2>2, <2>3 DEF TaskInv
<1>2. ASSUME NEW u \in Tasks, YieldPoll(u)  PROVE TaskInv(t)'
  <2>1. Flow(t)' /\ Ending(t)' /\ Operation(t)'
    BY <1>2, <1>p, <1>q DEF YieldPoll, Ready
  <2>2. Registration(t, "io")' /\ Registration(t, "sleep")' /\ Registration(t, "timeout")'
    BY <1>2, <1>p, <1>q DEF YieldPoll, Ready
  <2>3. Timer(t, "sleep")' /\ Timer(t, "timeout")'
    BY <1>2, <1>p, <1>q DEF YieldPoll, Ready
  <2> QED  BY <2>1, <2>2, <2>3 DEF TaskInv
<1>3. ASSUME NEW u \in Tasks, PollGone(u)  PROVE TaskInv(t)'
  <2>1. Flow(t)' /\ Ending(t)' /\ Operation(t)'
    BY <1>3, <1>p, <1>q DEF PollGone, Ready
  <2>2. Registration(t, "io")' /\ Registration(t, "sleep")' /\ Registration(t, "timeout")'
    BY <1>3, <1>p, <1>q DEF PollGone, Ready
  <2>3. Timer(t, "sleep")' /\ Timer(t, "timeout")'
    BY <1>3, <1>p, <1>q DEF PollGone, Ready
  <2> QED  BY <2>1, <2>2, <2>3 DEF TaskInv
<1>4. ASSUME NEW u \in Tasks, PollLeaf(u)  PROVE TaskInv(t)'
  <2>1. Flow(t)' /\ Ending(t)' /\ Operation(t)'
    BY <1>4, <1>p, <1>q DEF PollLeaf, Ready
  <2>2. Registration(t, "io")' /\ Registration(t, "sleep")' /\ Registration(t, "timeout")'
    BY <1>4, <1>p, <1>q DEF PollLeaf, Ready
  <2>3. Timer(t, "sleep")' /\ Timer(t, "timeout")'
    BY <1>4, <1>p, <1>q DEF PollLeaf, Ready
  <2> QED  BY <2>1, <2>2, <2>3 DEF TaskInv
<1>5. ASSUME NEW u \in Tasks, PollPending(u)  PROVE TaskInv(t)'
  <2>1. Flow(t)' /\ Ending(t)' /\ Operation(t)'
    BY <1>5, <1>p, <1>q DEF PollPending
  <2>2. Registration(t, "io")' /\ Registration(t, "sleep")' /\ Registration(t, "timeout")'
    BY <1>5, <1>p, <1>q DEF PollPending
  <2>3. Timer(t, "sleep")' /\ Timer(t, "timeout")'
    BY <1>5, <1>p, <1>q DEF PollPending
  <2> QED  BY <2>1, <2>2, <2>3 DEF TaskInv
<1>6. ASSUME NEW u \in Tasks, IoRegister(u)  PROVE TaskInv(t)'
  <2>1. Flow(t)' /\ Ending(t)' /\ Operation(t)'
    BY <1>6, <1>p, <1>q DEF IoRegister, Register
  <2>2. Registration(t, "io")' /\ Registration(t, "sleep")' /\ Registration(t, "timeout")'
    BY <1>6, <1>p, <1>q DEF IoRegister, Register
  <2>3. Timer(t, "sleep")' /\ Timer(t, "timeout")'
    BY <1>6, <1>p, <1>q DEF IoRegister, Register
  <2> QED  BY <2>1, <2>2, <2>3 DEF TaskInv
<1>7. ASSUME NEW u \in Tasks, IoStore(u)  PROVE TaskInv(t)'
  <2>1. Flow(t)' /\ Ending(t)' /\ Operation(t)'
    BY <1>7, <1>p, <1>q DEF IoStore
  <2>2. Registration(t, "io")' /\ Registration(t, "sleep")' /\ Registration(t, "timeout")'
    BY <1>7, <1>p, <1>q DEF IoStore
  <2>3. Timer(t, "sleep")' /\ Timer(t, "timeout")'
    BY <1>7, <1>p, <1>q DEF IoStore
  <2> QED  BY <2>1, <2>2, <2>3 DEF TaskInv
<1>8. ASSUME NEW u \in Tasks, Wait(u)  PROVE TaskInv(t)'
  <2>1. Flow(t)' /\ Ending(t)' /\ Operation(t)'
    BY <1>8, <1>p, <1>q DEF Wait
  <2>2. Registration(t, "io")' /\ Registration(t, "sleep")' /\ Registration(t, "timeout")'
    BY <1>8, <1>p, <1>q DEF Wait
  <2>3. Timer(t, "sleep")' /\ Timer(t, "timeout")'
    BY <1>8, <1>p, <1>q DEF Wait
  <2> QED  BY <2>1, <2>2, <2>3 DEF TaskInv
<1>9. ASSUME NEW u \in Tasks, Deadline(u)  PROVE TaskInv(t)'
  <2>1. Flow(t)' /\ Ending(t)' /\ Operation(t)'
    BY <1>9, <1>p, <1>q DEF Deadline
  <2>2. Registration(t, "io")' /\ Registration(t, "sleep")' /\ Registration(t, "timeout")'
    BY <1>9, <1>p, <1>q DEF Deadline
  <2>3. Timer(t, "sleep")' /\ Timer(t, "timeout")'
    BY <1>9, <1>p, <1>q DEF Deadline
  <2> QED  BY <2>1, <2>2, <2>3 DEF TaskInv
<1>10. ASSUME NEW u \in Tasks, Arm(u)  PROVE TaskInv(t)'
  <2>1. Flow(t)' /\ Ending(t)' /\ Operation(t)'
    BY <1>10, <1>p, <1>q DEF Arm, Register
  <2>2. Registration(t, "io")' /\ Registration(t, "sleep")' /\ Registration(t, "timeout")'
    BY <1>10, <1>p, <1>q DEF Arm, Register
  <2>3. Timer(t, "sleep")' /\ Timer(t, "timeout")'
    BY <1>10, <1>p, <1>q DEF Arm, Register
  <2> QED  BY <2>1, <2>2, <2>3 DEF TaskInv
<1>11. ASSUME NEW u \in Tasks, Push(u)  PROVE TaskInv(t)'
  <2> DEFINE new == [tok |-> Arming(u), at |-> now + Ms(Arming(u))]
  <2>a. new.tok = Arming(u) /\ due' = due \cup {new}
    BY <1>11 DEF Push
  <2>b. /\ pc[u] = "push" /\ dpc' = IF dpc = "nap" THEN "scan" ELSE dpc
        /\ Goto(u, IF Arming(u)[2] = "sleep" THEN "wait" ELSE "idle")
        /\ UNCHANGED <<plan, out, woken, regs, reactor, io, active, fired, now,
                       dtok, nap>>
    BY <1>11 DEF Push
  <2> HIDE DEF new
  <2>1. Flow(t)' /\ Ending(t)'
    BY <1>11, <1>p, <1>q DEF Push
  <2>2. Operation(t)'
    BY <1>11, <1>p, <1>q DEF Push
  <2>3. Registration(t, "io")'
    BY <1>11, <1>p, <1>q DEF Push
  <2>4. Registration(t, "sleep")'
    BY <1>11, <1>p, <1>q DEF Push
  <2>5. Registration(t, "timeout")'
    BY <1>11, <1>p, <1>q DEF Push
  <2>6. Timer(t, "sleep")'
    <3>1. CASE u = t /\ Arming(t) = <<t, "sleep">>
      BY <1>11, <1>p, <1>q, <2>a, <2>b, <3>1
    <3>2. CASE ~ (u = t /\ Arming(t) = <<t, "sleep">>)
      BY <1>11, <1>p, <1>q, <2>a, <2>b, <3>2
    <3> QED  BY <3>1, <3>2
  <2>7. Timer(t, "timeout")'
    <3>1. CASE u = t /\ Arming(t) = <<t, "timeout">>
      BY <1>11, <1>p, <1>q, <2>a, <2>b, <3>1
    <3>2. CASE ~ (u = t /\ Arming(t) = <<t, "timeout">>)
      BY <1>11, <1>p, <1>q, <2>a, <2>b, <3>2
    <3> QED  BY <3>1, <3>2
  <2> QED  BY <2>1, <2>2, <2>3, <2>4, <2>5, <2>6, <2>7 DEF TaskInv
<1>12. ASSUME NEW u \in Tasks, DropDeadline(u)  PROVE TaskInv(t)'
  <2>1. Flow(t)' /\ Ending(t)' /\ Operation(t)'
    BY <1>12, <1>p, <1>q DEF DropDeadline
  <2>2. Registration(t, "io")' /\ Registration(t, "sleep")' /\ Registration(t, "timeout")'
    BY <1>12, <1>p, <1>q DEF DropDeadline
  <2>3. Timer(t, "sleep")' /\ Timer(t, "timeout")'
    BY <1>12, <1>p, <1>q DEF DropDeadline
  <2> QED  BY <2>1, <2>2, <2>3 DEF TaskInv
<1>13. ASSUME NEW u \in Tasks, CancelLeaf(u)  PROVE TaskInv(t)'
  <2>1. Flow(t)' /\ Ending(t)' /\ Operation(t)'
    BY <1>13, <1>p, <1>q DEF CancelLeaf
  <2>2. Registration(t, "io")' /\ Registration(t, "sleep")' /\ Registration(t, "timeout")'
    BY <1>13, <1>p, <1>q DEF CancelLeaf
  <2>3. Timer(t, "sleep")' /\ Timer(t, "timeout")'
    BY <1>13, <1>p, <1>q DEF CancelLeaf
  <2> QED  BY <2>1, <2>2, <2>3 DEF TaskInv
<1>14. ASSUME NEW u \in Tasks, TakeSlot(u)  PROVE TaskInv(t)'
  <2>1. Flow(t)' /\ Ending(t)' /\ Operation(t)'
    BY <1>14, <1>p, <1>q DEF TakeSlot
  <2>2. Registration(t, "io")' /\ Registration(t, "sleep")' /\ Registration(t, "timeout")'
    BY <1>14, <1>p, <1>q DEF TakeSlot
  <2>3. Timer(t, "sleep")' /\ Timer(t, "timeout")'
    BY <1>14, <1>p, <1>q DEF TakeSlot
  <2> QED  BY <2>1, <2>2, <2>3 DEF TaskInv
<1>15. ASSUME NEW u \in Tasks, SwapReg(u)  PROVE TaskInv(t)'
  <2>1. Flow(t)' /\ Ending(t)' /\ Operation(t)'
    BY <1>15, <1>p, <1>q DEF SwapReg, CancelSwap
  <2>2. Registration(t, "io")' /\ Registration(t, "sleep")' /\ Registration(t, "timeout")'
    BY <1>15, <1>p, <1>q DEF SwapReg, CancelSwap
  <2>3. Timer(t, "sleep")' /\ Timer(t, "timeout")'
    BY <1>15, <1>p, <1>q DEF SwapReg, CancelSwap
  <2> QED  BY <2>1, <2>2, <2>3 DEF TaskInv
<1>16. ASSUME NEW u \in Tasks, UnlistReg(u)  PROVE TaskInv(t)'
  <2>1. Flow(t)' /\ Ending(t)' /\ Operation(t)'
    BY <1>16, <1>p, <1>q DEF UnlistReg, Unlist
  <2>2. Registration(t, "io")' /\ Registration(t, "sleep")' /\ Registration(t, "timeout")'
    BY <1>16, <1>p, <1>q DEF UnlistReg, Unlist
  <2>3. Timer(t, "sleep")' /\ Timer(t, "timeout")'
    BY <1>16, <1>p, <1>q DEF UnlistReg, Unlist
  <2> QED  BY <2>1, <2>2, <2>3 DEF TaskInv
<1>17. ASSUME NEW u \in Tasks, EndDeadline(u)  PROVE TaskInv(t)'
  <2>1. Flow(t)' /\ Ending(t)' /\ Operation(t)'
    BY <1>17, <1>p, <1>q DEF EndDeadline
  <2>2. Registration(t, "io")' /\ Registration(t, "sleep")' /\ Registration(t, "timeout")'
    BY <1>17, <1>p, <1>q DEF EndDeadline
  <2>3. Timer(t, "sleep")' /\ Timer(t, "timeout")'
    BY <1>17, <1>p, <1>q DEF EndDeadline
  <2> QED  BY <2>1, <2>2, <2>3 DEF TaskInv
<1>18. ASSUME NEW u \in Tasks, CancelResult(u)  PROVE TaskInv(t)'
  <2>1. Flow(t)' /\ Ending(t)' /\ Operation(t)'
    BY <1>18, <1>p, <1>q DEF CancelResult, Discard
  <2>2. Registration(t, "io")' /\ Registration(t, "sleep")' /\ Registration(t, "timeout")'
    BY <1>18, <1>p, <1>q DEF CancelResult, Discard
  <2>3. Timer(t, "sleep")' /\ Timer(t, "timeout")'
    BY <1>18, <1>p, <1>q DEF CancelResult, Discard
  <2> QED  BY <2>1, <2>2, <2>3 DEF TaskInv
<1>19. ASSUME NEW u \in Tasks, CancelTask(u)  PROVE TaskInv(t)'
  <2>1. Flow(t)' /\ Ending(t)' /\ Operation(t)'
    BY <1>19, <1>p, <1>q DEF CancelTask
  <2>2. Registration(t, "io")' /\ Registration(t, "sleep")' /\ Registration(t, "timeout")'
    BY <1>19, <1>p, <1>q DEF CancelTask
  <2>3. Timer(t, "sleep")' /\ Timer(t, "timeout")'
    BY <1>19, <1>p, <1>q DEF CancelTask
  <2> QED  BY <2>1, <2>2, <2>3 DEF TaskInv
<1>20. ASSUME NEW u \in Tasks, CancelBefore(u)  PROVE TaskInv(t)'
  <2>1. Flow(t)' /\ Ending(t)' /\ Operation(t)'
    BY <1>20, <1>p, <1>q DEF CancelBefore
  <2>2. Registration(t, "io")' /\ Registration(t, "sleep")' /\ Registration(t, "timeout")'
    BY <1>20, <1>p, <1>q DEF CancelBefore
  <2>3. Timer(t, "sleep")' /\ Timer(t, "timeout")'
    BY <1>20, <1>p, <1>q DEF CancelBefore
  <2> QED  BY <2>1, <2>2, <2>3 DEF TaskInv
<1>21. ASSUME NEW u \in Tasks, HRun(u)  PROVE TaskInv(t)'
  <2>1. Flow(t)' /\ Ending(t)' /\ Operation(t)'
    BY <1>21, <1>p, <1>q DEF HRun, HGoto
  <2>2. Registration(t, "io")' /\ Registration(t, "sleep")' /\ Registration(t, "timeout")'
    BY <1>21, <1>p, <1>q DEF HRun, HGoto
  <2>3. Timer(t, "sleep")' /\ Timer(t, "timeout")'
    BY <1>21, <1>p, <1>q DEF HRun, HGoto
  <2> QED  BY <2>1, <2>2, <2>3 DEF TaskInv
<1>22. ASSUME NEW u \in Tasks, HCheck(u)  PROVE TaskInv(t)'
  <2>1. Flow(t)' /\ Ending(t)' /\ Operation(t)'
    BY <1>22, <1>p, <1>q DEF HCheck, HGoto, Discard
  <2>2. Registration(t, "io")' /\ Registration(t, "sleep")' /\ Registration(t, "timeout")'
    BY <1>22, <1>p, <1>q DEF HCheck, HGoto, Discard
  <2>3. Timer(t, "sleep")' /\ Timer(t, "timeout")'
    BY <1>22, <1>p, <1>q DEF HCheck, HGoto, Discard
  <2> QED  BY <2>1, <2>2, <2>3 DEF TaskInv
<1>23. ASSUME NEW u \in Tasks, HCommit(u)  PROVE TaskInv(t)'
  <2>1. Flow(t)' /\ Ending(t)' /\ Operation(t)'
    BY <1>23, <1>p, <1>q DEF HCommit, HGoto, Discard
  <2>2. Registration(t, "io")' /\ Registration(t, "sleep")' /\ Registration(t, "timeout")'
    BY <1>23, <1>p, <1>q DEF HCommit, HGoto, Discard
  <2>3. Timer(t, "sleep")' /\ Timer(t, "timeout")'
    BY <1>23, <1>p, <1>q DEF HCommit, HGoto, Discard
  <2> QED  BY <2>1, <2>2, <2>3 DEF TaskInv
<1>24. ASSUME NEW u \in Tasks, HUnlist(u)  PROVE TaskInv(t)'
  <2>1. Flow(t)' /\ Ending(t)' /\ Operation(t)'
    BY <1>24, <1>p, <1>q DEF HUnlist, HGoto, Unlist
  <2>2. Registration(t, "io")' /\ Registration(t, "sleep")' /\ Registration(t, "timeout")'
    BY <1>24, <1>p, <1>q DEF HUnlist, HGoto, Unlist
  <2>3. Timer(t, "sleep")' /\ Timer(t, "timeout")'
    BY <1>24, <1>p, <1>q DEF HUnlist, HGoto, Unlist
  <2> QED  BY <2>1, <2>2, <2>3 DEF TaskInv
<1>25. ASSUME NEW u \in Tasks, HRing(u)  PROVE TaskInv(t)'
  <2>1. Flow(t)' /\ Ending(t)' /\ Operation(t)'
    BY <1>25, <1>p, <1>q DEF HRing, HGoto, Ring
  <2>2. Registration(t, "io")' /\ Registration(t, "sleep")' /\ Registration(t, "timeout")'
    BY <1>25, <1>p, <1>q DEF HRing, HGoto, Ring
  <2>3. Timer(t, "sleep")' /\ Timer(t, "timeout")'
    BY <1>25, <1>p, <1>q DEF HRing, HGoto, Ring
  <2> QED  BY <2>1, <2>2, <2>3 DEF TaskInv
<1>26. CASE DScan
  <2>1. Flow(t)' /\ Ending(t)' /\ Operation(t)'
    BY <1>26, <1>p, <1>q DEF DScan, DGoto
  <2>2. Registration(t, "io")' /\ Registration(t, "sleep")' /\ Registration(t, "timeout")'
    BY <1>26, <1>p, <1>q DEF DScan, DGoto
  <2>3. Timer(t, "sleep")' /\ Timer(t, "timeout")'
    BY <1>26, <1>p, <1>q DEF DScan, DGoto
  <2> QED  BY <2>1, <2>2, <2>3 DEF TaskInv
<1>27. CASE DWake
  <2>1. Flow(t)' /\ Ending(t)' /\ Operation(t)'
    BY <1>27, <1>p, <1>q DEF DWake, DGoto
  <2>2. Registration(t, "io")' /\ Registration(t, "sleep")' /\ Registration(t, "timeout")'
    BY <1>27, <1>p, <1>q DEF DWake, DGoto
  <2>3. Timer(t, "sleep")' /\ Timer(t, "timeout")'
    BY <1>27, <1>p, <1>q DEF DWake, DGoto
  <2> QED  BY <2>1, <2>2, <2>3 DEF TaskInv
<1>28. CASE DSwap
  <2>1. Flow(t)' /\ Ending(t)' /\ Operation(t)'
    BY <1>28, <1>p, <1>q DEF DSwap, DGoto
  <2>2. Registration(t, "io")' /\ Registration(t, "sleep")' /\ Registration(t, "timeout")'
    BY <1>28, <1>p, <1>q DEF DSwap, DGoto
  <2>3. Timer(t, "sleep")' /\ Timer(t, "timeout")'
    BY <1>28, <1>p, <1>q DEF DSwap, DGoto
  <2> QED  BY <2>1, <2>2, <2>3 DEF TaskInv
<1>29. CASE DFire
  <2>1. Flow(t)' /\ Ending(t)' /\ Operation(t)'
    BY <1>29, <1>p, <1>q DEF DFire, DGoto
  <2>2. Registration(t, "io")' /\ Registration(t, "sleep")' /\ Registration(t, "timeout")'
    BY <1>29, <1>p, <1>q DEF DFire, DGoto
  <2>3. Timer(t, "sleep")' /\ Timer(t, "timeout")'
    BY <1>29, <1>p, <1>q DEF DFire, DGoto
  <2> QED  BY <2>1, <2>2, <2>3 DEF TaskInv
<1>30. CASE DTake
  <2>1. Flow(t)' /\ Ending(t)' /\ Operation(t)'
    BY <1>30, <1>p, <1>q DEF DTake, DGoto
  <2>2. Registration(t, "io")' /\ Registration(t, "sleep")' /\ Registration(t, "timeout")'
    BY <1>30, <1>p, <1>q DEF DTake, DGoto
  <2>3. Timer(t, "sleep")' /\ Timer(t, "timeout")'
    BY <1>30, <1>p, <1>q DEF DTake, DGoto
  <2> QED  BY <2>1, <2>2, <2>3 DEF TaskInv
<1>31. CASE DUnlist
  <2>1. Flow(t)' /\ Ending(t)' /\ Operation(t)'
    BY <1>31, <1>p, <1>q DEF DUnlist, DGoto, Unlist
  <2>2. Registration(t, "io")' /\ Registration(t, "sleep")' /\ Registration(t, "timeout")'
    BY <1>31, <1>p, <1>q DEF DUnlist, DGoto, Unlist
  <2>3. Timer(t, "sleep")' /\ Timer(t, "timeout")'
    BY <1>31, <1>p, <1>q DEF DUnlist, DGoto, Unlist
  <2> QED  BY <2>1, <2>2, <2>3 DEF TaskInv
<1>32. CASE DRing
  <2>1. Flow(t)' /\ Ending(t)' /\ Operation(t)'
    BY <1>32, <1>p, <1>q DEF DRing, DGoto, Ring
  <2>2. Registration(t, "io")' /\ Registration(t, "sleep")' /\ Registration(t, "timeout")'
    BY <1>32, <1>p, <1>q DEF DRing, DGoto, Ring
  <2>3. Timer(t, "sleep")' /\ Timer(t, "timeout")'
    BY <1>32, <1>p, <1>q DEF DRing, DGoto, Ring
  <2> QED  BY <2>1, <2>2, <2>3 DEF TaskInv
<1>33. CASE DCancelSwap
  <2>1. Flow(t)' /\ Ending(t)' /\ Operation(t)'
    BY <1>33, <1>p, <1>q DEF DCancelSwap, DGoto, CancelSwap
  <2>2. Registration(t, "io")' /\ Registration(t, "sleep")' /\ Registration(t, "timeout")'
    BY <1>33, <1>p, <1>q DEF DCancelSwap, DGoto, CancelSwap
  <2>3. Timer(t, "sleep")' /\ Timer(t, "timeout")'
    BY <1>33, <1>p, <1>q DEF DCancelSwap, DGoto, CancelSwap
  <2> QED  BY <2>1, <2>2, <2>3 DEF TaskInv
<1>34. CASE DCancelUnlist
  <2>1. Flow(t)' /\ Ending(t)' /\ Operation(t)'
    BY <1>34, <1>p, <1>q DEF DCancelUnlist, DGoto, Unlist
  <2>2. Registration(t, "io")' /\ Registration(t, "sleep")' /\ Registration(t, "timeout")'
    BY <1>34, <1>p, <1>q DEF DCancelUnlist, DGoto, Unlist
  <2>3. Timer(t, "sleep")' /\ Timer(t, "timeout")'
    BY <1>34, <1>p, <1>q DEF DCancelUnlist, DGoto, Unlist
  <2> QED  BY <2>1, <2>2, <2>3 DEF TaskInv
<1>35. CASE Tick
  <2>1. Flow(t)' /\ Ending(t)' /\ Operation(t)'
    BY <1>35, <1>p, <1>q DEF Tick
  <2>2. Registration(t, "io")' /\ Registration(t, "sleep")' /\ Registration(t, "timeout")'
    BY <1>35, <1>p, <1>q DEF Tick
  <2>3. Timer(t, "sleep")' /\ Timer(t, "timeout")'
    BY <1>35, <1>p, <1>q DEF Tick
  <2> QED  BY <2>1, <2>2, <2>3 DEF TaskInv
<1> QED
  BY <1>0, <1>1, <1>2, <1>3, <1>4, <1>5, <1>6, <1>7, <1>8, <1>9, <1>10,
     <1>11, <1>12, <1>13, <1>14, <1>15, <1>16, <1>17, <1>18, <1>19,
     <1>20, <1>21, <1>22, <1>23, <1>24, <1>25, <1>26, <1>27, <1>28,
     <1>29, <1>30, <1>31, <1>32, <1>33, <1>34, <1>35
     DEF Next, PollStep, Complete, Driver

\* The invariant holds when the tasks start.
LEMMA AsyncInit == Init => IInv
<1> SUFFICES ASSUME Init  PROVE IInv
  OBVIOUS
<1> USE AsyncAssumption DEF Init, Tokens, Sources
<1>1. \A t \in Tasks : plan[t] \in AllPlans
  BY DEF AllPlans
<1>2. Types
  <2>1. plan \in [Tasks -> AllPlans]
    BY DEF AllPlans
  <2>2. cells \subseteq Sources
    OBVIOUS
  <2>3. /\ pc = [t \in Tasks |-> "idle"] /\ out = [t \in Tasks |-> "none"]
        /\ hpc = [t \in Tasks |-> "none"] /\ handle = [t \in Tasks |-> "none"]
        /\ roots = [t \in Tasks |-> 0] /\ woken = Tasks
        /\ slot = {} /\ waiters = {} /\ fired = {} /\ due = {}
        /\ dpc = "scan" /\ dtok = NoTok
    OBVIOUS
  <2> HIDE DEF Init
  <2> QED  BY <2>1, <2>2, <2>3 DEF Types
<1>3. ASSUME NEW t \in Tasks  PROVE TaskInv(t)
  <2>1. Leaf(plan[t]) \in {"open", "read", "sleep", "yield"}
    BY <1>1, PlanFacts
  <2>2. Timed(plan[t]) => Leaf(plan[t]) # "yield"
    BY <1>1, PlanFacts
  <2>3. /\ <<t, "io">> \in cells <=> Leaf(plan[t]) \in {"open", "read"}
        /\ <<t, "sleep">> \in cells <=> Leaf(plan[t]) = "sleep"
        /\ <<t, "timeout">> \in cells <=> Timed(plan[t])
    OBVIOUS
  <2>4. Flow(t) /\ Ending(t) /\ Operation(t)
    BY <2>1, <2>2, <2>3
       DEF Flow, Ending, Operation, Awaits, Does, Limit, Polling, Losing, Src
  <2>5. Registration(t, "io") /\ Registration(t, "sleep") /\ Registration(t, "timeout")
    BY DEF Registration, Unarmed, TaskHas, DriverHas, HelperHas, Joining
  <2>6. Timer(t, "sleep") /\ Timer(t, "timeout")
    BY DEF Timer, Unarmed, DriverOn
  <2> QED  BY <2>4, <2>5, <2>6 DEF TaskInv
<1> QED  BY <1>2, <1>3 DEF IInv

\* It is inductive.
LEMMA AsyncInvariant == Spec => []IInv
<1>1. IInv /\ [Next]_vars => IInv'
  BY TypesStep, TaskStep DEF IInv
<1> QED  BY <1>1, AsyncInit, PTL DEF Spec

-----------------------------------------------------------------------------
\* However completion, deadline and cancellation cross, a task that is done has
\* no live handle, pinned result, cell, slot or waiter left (io_cancel_id,
\* io_complete, TimerToken::cancel, reactor_cancel).
THEOREM FinishedTasksLeaveNothing == Spec => []NothingLeft
<1>1. IInv => NothingLeft
  <2> SUFFICES ASSUME IInv, NEW t \in Tasks, pc[t] = "done", hpc[t] \in {"none", "end"},
                      ~ (InFn(plan[t]) /\ out[t] = "cancelled")
               PROVE  /\ handle[t] # "live" /\ roots[t] = 0 /\ t \notin result
                      /\ \A s \in cells \cup waiters \cup slot : s[1] = t => DriverOn(s)
    BY DEF NothingLeft
  <2>1. Types /\ TaskInv(t) /\ Leaf(plan[t]) \in {"open", "read", "sleep", "yield"}
    BY PlanFacts DEF IInv, Types
  <2>2. handle[t] # "live" /\ roots[t] = 0 /\ t \notin result
    BY <2>1 DEF TaskInv, Flow, Ending, Operation, Does, Limit, Losing
  <2>3. /\ <<t, "io">> \notin cells /\ <<t, "sleep">> \notin cells
        /\ <<t, "timeout">> \notin cells
    BY <2>1 DEF TaskInv, Ending, Limit
  <2>4. ASSUME NEW x \in {"io", "sleep", "timeout"}, <<t, x>> \in waiters \cup slot
        PROVE  DriverOn(<<t, x>>)
    BY <2>1, <2>3, <2>4 DEF TaskInv, Registration, TaskHas, DriverHas, HelperHas,
                            Joining, DriverOn
  <2>5. ASSUME NEW s \in cells \cup waiters \cup slot, s[1] = t
        PROVE  \E x \in {"io", "sleep", "timeout"} : s = <<t, x>>
    BY <2>1, <2>5 DEF Types, Sources, Tokens
  <2> QED  BY <2>2, <2>3, <2>4, <2>5
<1> QED  BY <1>1, AsyncInvariant, PTL

\* A task that io_poll, sleep_poll or timeout_poll left pending has a listed
\* waker that the helper or the timer driver will call, or is calling.
THEOREM SuspendedTasksAreWoken == Spec => []NoLostWake
<1>1. IInv => NoLostWake
  <2> SUFFICES ASSUME IInv, NEW t \in Tasks, pc[t] = "idle", t \notin woken
               PROVE  /\ t \in result => hpc[t] \in {"list", "ring"}
                      /\ \A k \in fired : k[1] = t => DriverOn(k)
                      /\ \E s \in ractive :
                            /\ s[1] = t
                            /\ \/ s[2] = "io" /\ hpc[t] \notin {"none", "end"}
                               \/ DriverOn(s) \/ \E e \in due : e.tok = s
    BY DEF NoLostWake
  <2>1. Types /\ TaskInv(t) /\ Leaf(plan[t]) \in {"open", "read", "sleep", "yield"}
    BY PlanFacts DEF IInv, Types
  <2>2. Awaits(t) /\ Src(t) \in started /\ Src(t) \in cells
    BY <2>1 DEF TaskInv, Flow
  <2>3. t \in result => hpc[t] \in {"list", "ring"}
    BY <2>1, <2>2 DEF TaskInv, Flow, Operation, Does, Losing, Awaits, Src
  <2>4. ASSUME NEW x \in {"sleep", "timeout"}, <<t, x>> \in fired
        PROVE  DriverOn(<<t, x>>)
    <3>1. <<t, x>> \in started
      BY <2>1, <2>4 DEF TaskInv, Timer, Unarmed
    <3>2. <<t, x>> \in cells
      BY <2>1, <2>2, <3>1 DEF TaskInv, Flow, Polling, Limit, Src, Does
    <3> QED  BY <2>1, <2>4, <3>2 DEF TaskInv, Timer
  <2>5. ASSUME NEW k \in fired, k[1] = t  PROVE DriverOn(k)
    BY <2>1, <2>4, <2>5 DEF Types, Tokens
  <2>6. CASE Leaf(plan[t]) = "sleep"
    <3>1. Src(t) = <<t, "sleep">> /\ ~Unarmed(t, "sleep")
      BY <2>2, <2>6 DEF Src, Unarmed
    <3>2. /\ <<t, "sleep">> \in ractive
          /\ DriverOn(<<t, "sleep">>) \/ \E e \in due : e.tok = <<t, "sleep">>
      BY <2>1, <2>2, <3>1 DEF TaskInv, Timer, Registration, DriverHas, DriverOn
    <3> QED  BY <2>3, <2>5, <3>2
  <2>7. CASE Leaf(plan[t]) # "sleep"
    <3>1. Src(t) = <<t, "io">>
      BY <2>7 DEF Src
    <3>2. <<t, "io">> \in ractive /\ hpc[t] \notin {"none", "end"}
      BY <2>1, <2>2, <3>1 DEF TaskInv, Types, Operation, Registration, HelperHas
    <3> QED  BY <2>3, <2>5, <3>2
  <2> QED  BY <2>6, <2>7
<1> QED  BY <1>1, AsyncInvariant, PTL
=============================================================================
