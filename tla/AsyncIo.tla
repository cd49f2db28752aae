------------------------------ MODULE AsyncIo ------------------------------
(***************************************************************************)
(* Runtime-built futures (crates/runtime/src/async_rt.rs): the one-shot    *)
(* reactor registrations, the timer driver, sleep, timeout, yield_now, the *)
(* helper-backed I/O futures, their cancellation, and the root driver that *)
(* polls a task again once its waker has run.                              *)
(*                                                                         *)
(* A task awaits one future.  Only it, or whoever cancels it while it is   *)
(* suspended, polls and cancels that future; the I/O helper thread and the *)
(* timer thread race it.  One step is one critical section or one atomic   *)
(* operation that another thread can see.                                  *)
(***************************************************************************)
EXTENDS Integers, FiniteSets

CONSTANTS Tasks,
          Plans,        \* what a task may await
          Sleepers,     \* tasks that await sleep() whatever Plans says
          SleepMs, TimeoutMs,
          Cancellable   \* tasks whose handle somebody may cancel

\* An I/O operation is of one of two kinds (io_discard_cancelled_result): "open" is
\* a connect, bind, accept, open or spawn, whose result carries a new handle of
\* the runtime's tables, "read" for the others.
Leaf(p)  == CASE p \in {"open", "timeout_open", "fn_open"} -> "open"
              [] p \in {"read", "timeout_read"}            -> "read"
              [] p \in {"sleep", "timeout_sleep"}          -> "sleep"
              [] p = "yield"                               -> "yield"
Timed(p) == p \in {"timeout_open", "timeout_read", "timeout_sleep"}
\* The task is an async function that awaits the future: the function's cleanup
\* hook releases channel endpoints and does not reach the awaited future.
InFn(p)  == p = "fn_open"

\* What a task awaits: a leaf, or lang_async_timeout around one.
AllPlans == {"open", "read", "sleep", "yield", "timeout_open", "timeout_read",
             "timeout_sleep", "fn_open"}
Tokens   == Tasks \X {"sleep", "timeout"}
Sources  == Tokens \cup Tasks \X {"io"}
Ms(k)    == IF k[2] = "sleep" THEN SleepMs ELSE TimeoutMs

ASSUME AsyncAssumption ==
    /\ Plans # {} /\ Plans \subseteq AllPlans
    /\ Sleepers \subseteq Tasks /\ Cancellable \subseteq Tasks
    /\ SleepMs \in Nat /\ TimeoutMs \in Nat

VARIABLES
    plan, pc,            \* a task's future, and where its poll is
    out,                 \* what the task was given
    woken,               \* tasks whose waker ran since their last poll began
    cells,               \* sources in sleep_, timeout_ and io_registry
    started,             \* sources whose first poll has armed them
    slot,                \* sources whose registration slot is full
    waiters, ractive,    \* the reactor's map; registrations still active
    won,                 \* registrations whose cancel returned true
    cancelled,           \* IoCell.cancelled, by task
    result, roots,       \* IoCell.result; extra roots of the result
    hpc,                 \* the helper thread of a task's operation
    handle,              \* the handle an "open" made: "none", "live",
                         \* "given" to the task, "released"
    active, fired,       \* TimerToken.active, TimerToken.fired
    due,                 \* the driver's heap: entries and their deadlines
    now, dpc, dtok,      \* the clock; the driver and the token it handles
    nap                  \* the deadline the driver sleeps for

task    == <<plan, pc, out, woken>>
regs    == <<cells, started, slot>>
reactor == <<waiters, ractive, won>>
io      == <<cancelled, result, roots, hpc, handle>>
timer   == <<active, fired, due, now, dpc, dtok, nap>>
vars    == <<task, regs, reactor, io, timer>>

NoTok == <<>>
Forever == -1

\* The constructors: each future's cell is registered, nothing is started.
Init ==
    /\ plan \in [Tasks -> Plans \cup {"sleep"}]
    /\ \A t \in Tasks : IF t \in Sleepers THEN plan[t] = "sleep"
                        ELSE plan[t] \in Plans
    /\ pc = [t \in Tasks |-> "idle"]
    /\ out = [t \in Tasks |-> "none"]
    /\ woken = Tasks
    /\ cells = {s \in Sources :
                  LET p == plan[s[1]]
                  IN CASE s[2] = "timeout" -> Timed(p)
                       [] s[2] = "sleep"   -> Leaf(p) = "sleep"
                       [] s[2] = "io"      -> Leaf(p) \in {"open", "read"}}
    /\ started = {} /\ slot = {}
    /\ waiters = {} /\ ractive = {} /\ won = {}
    /\ cancelled = {} /\ result = {} /\ roots = [t \in Tasks |-> 0]
    /\ hpc = [t \in Tasks |-> "none"]
    /\ handle = [t \in Tasks |-> "none"]
    /\ active = Tokens /\ fired = {} /\ due = {} /\ now = 0
    /\ dpc = "scan" /\ dtok = NoTok /\ nap = Forever

Goto(t, label) == pc' = [pc EXCEPT ![t] = label]
Src(t) == IF Leaf(plan[t]) = "sleep" THEN <<t, "sleep">> ELSE <<t, "io">>

-----------------------------------------------------------------------------
(* The reactor.                                                            *)

\* reactor_register.
Register(s) ==
    /\ waiters' = waiters \cup {s} /\ ractive' = ractive \cup {s}
    /\ UNCHANGED won

\* reactor_cancel, first half: the swap decides who won.
CancelSwap(s) ==
    /\ ractive' = ractive \ {s}
    /\ won' = IF s \in ractive THEN won \cup {s} ELSE won
    /\ UNCHANGED waiters

\* reactor_cancel, second half, and reactor_wake_ready, first half.
Unlist(s) == waiters' = waiters \ {s} /\ UNCHANGED <<ractive, won>>

\* reactor_wake_ready, second half: wake unless the cancellation won.
Ring(s) ==
    /\ IF s \in ractive
       THEN woken' = woken \cup {s[1]}
       ELSE UNCHANGED woken
    /\ ractive' = ractive \ {s}
    /\ UNCHANGED <<waiters, won>>

-----------------------------------------------------------------------------
(* Polls.                                                                  *)

\* lang_drive_root_future: the flag is cleared before the poll.
StartPoll(t) ==
    /\ pc[t] = "idle" /\ t \in woken
    /\ woken' = woken \ {t}
    /\ Goto(t, "leaf")
    /\ UNCHANGED <<plan, out, regs, reactor, io, timer>>

\* The leaf is ready: a plain await is over, timeout_poll drops its deadline.
Ready(t, v) ==
    /\ out' = [out EXCEPT ![t] = v]
    /\ Goto(t, IF Timed(plan[t]) THEN "won" ELSE "done")

\* yield_poll: wakes its own task, then Pending; the second poll is Ready.
YieldPoll(t) ==
    /\ pc[t] = "leaf" /\ Leaf(plan[t]) = "yield"
    /\ IF out[t] = "none"
       THEN /\ out' = [out EXCEPT ![t] = "yielded"]
            /\ woken' = woken \cup {t} /\ Goto(t, "idle")
       ELSE Ready(t, "null") /\ UNCHANGED woken
    /\ UNCHANGED <<plan, regs, reactor, io, timer>>

\* No cell any more: the future was cancelled.  Elapsed, or a null result.
PollGone(t) ==
    /\ pc[t] = "leaf" /\ Leaf(plan[t]) # "yield" /\ Src(t) \notin cells
    /\ Ready(t, "null")
    /\ UNCHANGED <<plan, woken, regs, reactor, io, timer>>

\* io_poll takes the result, sleep_poll sees fired: the cell goes, the result
\* is boxed and unpinned.
PollLeaf(t) ==
    /\ pc[t] = "leaf" /\ Src(t) \in cells
    /\ \/ t \in result \/ Src(t) \in fired
    /\ cells' = cells \ {Src(t)}
    /\ result' = result \ {t}
    /\ roots' = [roots EXCEPT ![t] = IF t \in result THEN @ - 1 ELSE @]
    /\ handle' = [handle EXCEPT ![t] = IF @ = "live" THEN "given" ELSE @]
    /\ Ready(t, "value")
    /\ UNCHANGED <<plan, woken, started, slot, reactor, cancelled, hpc, timer>>

\* The leaf is pending: the first poll arms it, any other leaves it alone.
PollPending(t) ==
    /\ pc[t] = "leaf" /\ Src(t) \in cells
    /\ t \notin result /\ Src(t) \notin fired
    /\ started' = started \cup {Src(t)}
    /\ Goto(t, IF Src(t) \in started THEN "wait"
               ELSE IF Leaf(plan[t]) = "sleep" THEN "arm" ELSE "reg")
    /\ UNCHANGED <<plan, out, woken, cells, slot, reactor, io, timer>>

\* io_poll, first time: register the waker ...
IoRegister(t) ==
    /\ pc[t] = "reg"
    /\ Register(<<t, "io">>)
    /\ Goto(t, "store")
    /\ UNCHANGED <<plan, out, woken, regs, io, timer>>

\* ... store the registration, and only then start the helper.
IoStore(t) ==
    /\ pc[t] = "store"
    /\ slot' = slot \cup {<<t, "io">>}
    /\ hpc' = [hpc EXCEPT ![t] = "run"]
    /\ Goto(t, "wait")
    /\ UNCHANGED <<plan, out, woken, cells, started, reactor, cancelled,
                   result, roots, handle, timer>>

\* Mutation: the driver forgets the wakes that came during the poll.
Wait_ClearLate(t) ==
    /\ pc[t] = "wait"
    /\ woken' = woken \ {t}
    /\ Goto(t, IF Timed(plan[t]) THEN "deadline" ELSE "idle")
    /\ UNCHANGED <<plan, out, regs, reactor, io, timer>>

\* The leaf is pending: timeout_poll goes on to its deadline.
Wait(t) ==
    /\ pc[t] = "wait"
    /\ Goto(t, IF Timed(plan[t]) THEN "deadline" ELSE "idle")
    /\ UNCHANGED <<plan, out, woken, regs, reactor, io, timer>>

\* timeout_poll: the deadline has passed, so the loser is cancelled; else the
\* first poll arms the timer.
Deadline(t) ==
    LET s == <<t, "timeout">>
    IN /\ pc[t] = "deadline"
       /\ IF s \in fired
          THEN /\ out' = [out EXCEPT ![t] = "timedout"]
               /\ Goto(t, "cancel") /\ UNCHANGED started
          ELSE /\ started' = started \cup {s}
               /\ Goto(t, IF s \in started THEN "idle" ELSE "arm")
               /\ UNCHANGED out
       /\ UNCHANGED <<plan, woken, cells, slot, reactor, io, timer>>

\* The token a poll is arming.
Arming(t) == IF Leaf(plan[t]) = "sleep" /\ <<t, "timeout">> \notin started
             THEN <<t, "sleep">> ELSE <<t, "timeout">>

\* TimerToken::arm_reactor: registered and stored under the slot's lock.
Arm(t) ==
    /\ pc[t] = "arm"
    /\ Register(Arming(t))
    /\ slot' = slot \cup {Arming(t)}
    /\ Goto(t, "push")
    /\ UNCHANGED <<plan, out, woken, cells, started, io, timer>>

\* Mutation: the driver is not told of the new entry.
Push_NoNotify(t) ==
    LET k == Arming(t)
    IN /\ pc[t] = "push"
       /\ due' = due \cup {[tok |-> k, at |-> now + Ms(k)]}
       /\ Goto(t, IF k[2] = "sleep" THEN "wait" ELSE "idle")
       /\ UNCHANGED <<plan, out, woken, regs, reactor, io, active, fired, now,
                      dpc, dtok, nap>>

\* schedule_timer: the entry is in the heap and the driver looks again.
Push(t) ==
    LET k == Arming(t)
    IN /\ pc[t] = "push"
       /\ due' = due \cup {[tok |-> k, at |-> now + Ms(k)]}
       /\ dpc' = IF dpc = "nap" THEN "scan" ELSE dpc
       /\ Goto(t, IF k[2] = "sleep" THEN "wait" ELSE "idle")
       /\ UNCHANGED <<plan, out, woken, regs, reactor, io, active, fired, now,
                      dtok, nap>>

-----------------------------------------------------------------------------
(* Cancellation: of the deadline when the leaf won, of the leaf when it    *)
(* lost, of both when the task's own future is cancelled.                  *)

\* TimerToken::cancel of the deadline, whose cell is taken first.
DropDeadline(t) ==
    LET s == <<t, "timeout">>
    IN /\ pc[t] = "won"
       /\ cells' = cells \ {s}
       /\ IF s \in cells
          THEN active' = active \ {s} /\ Goto(t, "dslot")
          ELSE Goto(t, "done") /\ UNCHANGED active
       /\ UNCHANGED <<plan, out, woken, started, slot, reactor, io, fired, due,
                      now, dpc, dtok, nap>>

\* io_cancel_id, or the cancellation of a sleep: the cell, then the flag.
CancelLeaf(t) ==
    LET s == Src(t)
    IN /\ pc[t] = "cancel"
       /\ cells' = cells \ {s}
       /\ IF s \in cells
          THEN /\ active' = active \ {s}
               /\ cancelled' = cancelled \cup {t}
               /\ Goto(t, "lslot")
          ELSE Goto(t, "last") /\ UNCHANGED <<active, cancelled>>
       /\ UNCHANGED <<plan, out, woken, started, slot, reactor, result, roots,
                      hpc, handle, fired, due, now, dpc, dtok, nap>>

\* The registration is taken from the slot, if nobody else has it.
TakeSlot(t) ==
    /\ pc[t] \in {"dslot", "lslot"}
    /\ LET s == IF pc[t] = "dslot" THEN <<t, "timeout">> ELSE Src(t)
       IN /\ slot' = slot \ {s}
          /\ Goto(t, CASE s \in slot /\ pc[t] = "dslot" -> "dswap"
                       [] s \in slot /\ pc[t] = "lslot" -> "lswap"
                       [] s \notin slot /\ pc[t] = "dslot" -> "dend"
                       [] s \notin slot /\ pc[t] = "lslot" -> "last")
    /\ UNCHANGED <<plan, out, woken, cells, started, reactor, io, timer>>

\* reactor_cancel by the task.
SwapReg(t) ==
    /\ pc[t] \in {"dswap", "lswap"}
    /\ CancelSwap(IF pc[t] = "dswap" THEN <<t, "timeout">> ELSE Src(t))
    /\ Goto(t, IF pc[t] = "dswap" THEN "dlist" ELSE "llist")
    /\ UNCHANGED <<plan, out, woken, regs, io, timer>>

UnlistReg(t) ==
    /\ pc[t] \in {"dlist", "llist"}
    /\ LET s == IF pc[t] = "dlist" THEN <<t, "timeout">> ELSE Src(t)
       IN IF s \in won THEN Unlist(s) ELSE UNCHANGED reactor
    /\ Goto(t, IF pc[t] = "dlist" THEN "dend" ELSE "last")
    /\ UNCHANGED <<plan, out, woken, regs, io, timer>>

EndDeadline(t) ==
    /\ pc[t] = "dend"
    /\ Goto(t, IF out[t] = "cancelled" THEN "cancel" ELSE "done")
    /\ UNCHANGED <<plan, out, woken, regs, reactor, io, timer>>

\* io_discard_cancelled_result: a handle inside the result is released.
Discard(t) ==
    handle' = [handle EXCEPT ![t] = IF @ = "live" THEN "released" ELSE @]

\* io_cancel_id takes a result that came in time; timeout_poll drops its cell.
CancelResult(t) ==
    /\ pc[t] = "last"
    /\ cells' = cells \ {<<t, "timeout">>}
    /\ IF t \in result
       THEN /\ Discard(t)
            /\ result' = result \ {t}
            /\ roots' = [roots EXCEPT ![t] = @ - 1]
       ELSE UNCHANGED <<handle, result, roots>>
    /\ Goto(t, "done")
    /\ UNCHANGED <<plan, out, woken, started, slot, reactor, cancelled, hpc,
                   timer>>

\* cancel_task_by_id on a suspended task whose future is one of ours; the hook
\* of an async function does not reach the future it awaits.
CancelTask(t) ==
    /\ t \in Cancellable /\ pc[t] = "idle" /\ out[t] \in {"none", "yielded"}
    /\ out' = [out EXCEPT ![t] = "cancelled"]
    /\ Goto(t, CASE InFn(plan[t]) \/ Leaf(plan[t]) = "yield" -> "done"
                 [] Timed(plan[t]) -> "won"
                 [] OTHER -> "cancel")
    /\ UNCHANGED <<plan, woken, regs, reactor, io, timer>>

\* fut.cancel() before the first poll; the future may still be awaited.
CancelBefore(t) ==
    /\ pc[t] = "idle" /\ out[t] = "none" /\ Leaf(plan[t]) # "yield"
    /\ Src(t) \in cells \ started
    /\ cells' = {s \in cells : s[1] # t}
    /\ active' = {s \in active : s[1] # t}
    /\ cancelled' = cancelled \cup {t}
    /\ UNCHANGED <<task, started, slot, reactor, result, roots, hpc, handle,
                   fired, due, now, dpc, dtok, nap>>

-----------------------------------------------------------------------------
(* The helper thread of an operation.                                      *)

HGoto(t, label) == hpc' = [hpc EXCEPT ![t] = label]

\* io_run: the operation succeeds, and may have made a handle, or fails.
HRun(t) ==
    /\ hpc[t] = "run"
    /\ handle' \in {handle} \cup (IF Leaf(plan[t]) = "open"
                                  THEN {[handle EXCEPT ![t] = "live"]} ELSE {})
    /\ HGoto(t, "check")
    /\ UNCHANGED <<task, regs, reactor, cancelled, result, roots, timer>>

\* io_complete: a cancelled result is discarded, else it is built and pinned.
HCheck(t) ==
    /\ hpc[t] = "check"
    /\ IF t \in cancelled
       THEN Discard(t) /\ HGoto(t, "end") /\ UNCHANGED roots
       ELSE /\ roots' = [roots EXCEPT ![t] = @ + 1]
            /\ HGoto(t, "commit") /\ UNCHANGED handle
    /\ UNCHANGED <<task, regs, reactor, cancelled, result, timer>>

\* Mutation: the flag is not read again under the lock of the result.
HCommit_NoRecheck(t) ==
    /\ hpc[t] = "commit"
    /\ result' = result \cup {t}
    /\ slot' = slot \ {<<t, "io">>}
    /\ HGoto(t, IF <<t, "io">> \in slot THEN "list" ELSE "end")
    /\ UNCHANGED <<handle, roots, task, cells, started, reactor, cancelled,
                   timer>>

\* Under the lock of the result: the flag again, the result, the registration.
HCommit(t) ==
    /\ hpc[t] = "commit"
    /\ IF t \in cancelled
       THEN /\ Discard(t)
            /\ roots' = [roots EXCEPT ![t] = @ - 1]
            /\ HGoto(t, "end") /\ UNCHANGED <<result, slot>>
       ELSE /\ result' = result \cup {t}
            /\ slot' = slot \ {<<t, "io">>}
            /\ HGoto(t, IF <<t, "io">> \in slot THEN "list" ELSE "end")
            /\ UNCHANGED <<handle, roots>>
    /\ UNCHANGED <<task, cells, started, reactor, cancelled, timer>>

HUnlist(t) ==
    /\ hpc[t] = "list"
    /\ Unlist(<<t, "io">>)
    /\ HGoto(t, IF <<t, "io">> \in waiters THEN "ring" ELSE "end")
    /\ UNCHANGED <<task, regs, cancelled, result, roots, handle, timer>>

HRing(t) ==
    /\ hpc[t] = "ring"
    /\ Ring(<<t, "io">>)
    /\ HGoto(t, "end")
    /\ UNCHANGED <<plan, pc, out, regs, cancelled, result, roots, handle,
                   timer>>

-----------------------------------------------------------------------------
(* The timer driver.                                                       *)

\* Time passes while somebody has a deadline ahead.
Tick ==
    /\ \E e \in due : e.at > now
    /\ now' = now + 1
    /\ UNCHANGED <<task, regs, reactor, io, active, fired, due, dpc, dtok, nap>>

DGoto(label) == dpc' = label

\* timer_loop, under the heap's lock: sleep, or pop the earliest entry.
DScan ==
    /\ dpc = "scan"
    /\ IF \A e \in due : e.at > now
       THEN /\ nap' = IF due = {} THEN Forever
                      ELSE (CHOOSE e \in due : \A f \in due : e.at <= f.at).at
            /\ DGoto("nap") /\ UNCHANGED <<due, dtok>>
       ELSE \E e \in due :
              /\ \A f \in due : e.at <= f.at
              /\ due' = due \ {e} /\ dtok' = e.tok
              /\ DGoto("swap") /\ UNCHANGED nap
    /\ UNCHANGED <<task, regs, reactor, io, active, fired, now>>

DWake ==
    /\ dpc = "nap" /\ nap # Forever /\ now >= nap
    /\ DGoto("scan")
    /\ UNCHANGED <<task, regs, reactor, io, active, fired, due, now, dtok, nap>>

\* active decides between the driver and TimerToken::cancel.
DSwap ==
    /\ dpc = "swap"
    /\ active' = active \ {dtok}
    /\ DGoto(IF dtok \in active THEN "fire" ELSE "drop")
    /\ UNCHANGED <<task, regs, reactor, io, fired, due, now, dtok, nap>>

\* Mutation: the waker is called before the future can see that time is up.
DFire_Late ==
    /\ dpc = "fire"
    /\ DGoto("take")
    /\ UNCHANGED <<task, regs, reactor, io, active, fired, due, now, dtok, nap>>

DFire ==
    /\ dpc = "fire"
    /\ fired' = fired \cup {dtok}
    /\ DGoto("take")
    /\ UNCHANGED <<task, regs, reactor, io, active, due, now, dtok, nap>>

\* take_registration, to wake the task or to cancel.
DTake ==
    /\ dpc \in {"take", "drop"}
    /\ slot' = slot \ {dtok}
    /\ DGoto(IF dtok \notin slot THEN "scan"
             ELSE IF dpc = "take" THEN "list" ELSE "cswap")
    /\ UNCHANGED <<task, cells, started, reactor, io, active, fired, due, now,
                   dtok, nap>>

DUnlist ==
    /\ dpc = "list"
    /\ Unlist(dtok)
    /\ DGoto(IF dtok \in waiters THEN "ring" ELSE "scan")
    /\ UNCHANGED <<task, regs, io, active, fired, due, now, dtok, nap>>

DRing ==
    /\ dpc = "ring"
    /\ Ring(dtok)
    /\ DGoto("scan")
    /\ UNCHANGED <<plan, pc, out, regs, io, active, fired, due, now, dtok, nap>>

\* The token was cancelled: reactor_cancel, in its two halves.
DCancelSwap ==
    /\ dpc = "cswap"
    /\ CancelSwap(dtok)
    /\ DGoto("clist")
    /\ UNCHANGED <<task, regs, io, active, fired, due, now, dtok, nap>>

DCancelUnlist ==
    /\ dpc = "clist"
    /\ Unlist(dtok)
    /\ DGoto("scan")
    /\ UNCHANGED <<task, regs, io, active, fired, due, now, dtok, nap>>

-----------------------------------------------------------------------------

PollStep(t) ==
    \/ YieldPoll(t) \/ PollGone(t) \/ PollLeaf(t) \/ PollPending(t)
    \/ IoRegister(t) \/ IoStore(t) \/ Wait(t) \/ Deadline(t) \/ Arm(t)
    \/ Push(t) \/ DropDeadline(t) \/ CancelLeaf(t) \/ TakeSlot(t)
    \/ SwapReg(t) \/ UnlistReg(t) \/ EndDeadline(t) \/ CancelResult(t)

Complete(t) == HCheck(t) \/ HCommit(t) \/ HUnlist(t) \/ HRing(t)

Driver == \/ DScan \/ DWake \/ DSwap \/ DFire \/ DTake \/ DUnlist \/ DRing
          \/ DCancelSwap \/ DCancelUnlist

Next == \/ \E t \in Tasks : \/ StartPoll(t) \/ PollStep(t) \/ CancelTask(t)
                            \/ CancelBefore(t) \/ HRun(t) \/ Complete(t)
        \/ Driver \/ Tick

Spec == Init /\ [][Next]_vars

\* A woken task is polled, threads are scheduled and time passes; an operation
\* may take for ever, and nobody needs to cancel.
FairSpec ==
    /\ Spec /\ WF_vars(Driver) /\ WF_vars(Tick)
    /\ \A t \in Tasks : /\ WF_vars(StartPoll(t)) /\ WF_vars(PollStep(t))
                        /\ WF_vars(Complete(t))

-----------------------------------------------------------------------------
(* Properties.                                                             *)

TypeOK ==
    /\ plan \in [Tasks -> AllPlans]
    /\ pc \in [Tasks -> {"idle", "leaf", "reg", "store", "wait", "deadline",
                         "arm", "push", "won", "dslot", "dswap", "dlist",
                         "dend", "cancel", "lslot", "lswap", "llist", "last",
                         "done"}]
    /\ out \in [Tasks -> {"none", "yielded", "null", "value", "timedout",
                          "cancelled"}]
    /\ woken \subseteq Tasks
    /\ cells \subseteq Sources /\ started \subseteq Sources
    /\ slot \subseteq Sources
    /\ waiters \subseteq Sources /\ ractive \subseteq Sources
    /\ won \subseteq Sources
    /\ cancelled \subseteq Tasks /\ result \subseteq Tasks
    /\ roots \in [Tasks -> Nat]
    /\ hpc \in [Tasks -> {"none", "run", "check", "commit", "list", "ring",
                          "end"}]
    /\ handle \in [Tasks -> {"none", "live", "given", "released"}]
    /\ active \subseteq Tokens /\ fired \subseteq Tokens
    /\ due \subseteq [tok : Tokens, at : Nat] /\ now \in Nat
    /\ dpc \in {"scan", "nap", "swap", "fire", "drop", "take", "list", "ring",
                "cswap", "clist"}
    /\ dtok \in Tokens \cup {NoTok} /\ nap \in Nat \cup {Forever}

\* The party that may still touch a token's registration.
DriverOn(s) == dtok = s /\ dpc \notin {"scan", "nap"}

\* When a task and its helper are done, nothing of its future is left: the
\* handle an operation made was given away or released, no result is pinned,
\* no cell is registered and no waiter is listed, however completion and
\* cancellation crossed.  An async function cancelled inside an await is the
\* exception: its hook leaves the awaited future behind.
NothingLeft ==
    \A t \in Tasks :
        /\ pc[t] = "done" /\ hpc[t] \in {"none", "end"}
        /\ ~ (InFn(plan[t]) /\ out[t] = "cancelled")
        => /\ handle[t] # "live" /\ roots[t] = 0 /\ t \notin result
           /\ \A s \in cells \cup waiters \cup slot :
                 s[1] = t => DriverOn(s)

\* A suspended task has somebody left to wake it: a waker that is listed and
\* will be called, or one that is being called.
NoLostWake ==
    \A t \in Tasks : pc[t] = "idle" /\ t \notin woken =>
        /\ t \in result => hpc[t] \in {"list", "ring"}
        /\ \A k \in fired : k[1] = t => DriverOn(k)
        /\ \E s \in ractive :
              /\ s[1] = t
              /\ \/ s[2] = "io" /\ hpc[t] \notin {"none", "end"}
                 \/ DriverOn(s) \/ \E e \in due : e.tok = s

\* A sleep, a yield and whatever a timeout guards end, even if the operation
\* inside never does.
TimersEnd ==
    \A t \in Tasks :
        Timed(plan[t]) \/ Leaf(plan[t]) \in {"sleep", "yield"}
            => <>(pc[t] = "done")

\* An operation that has finished is answered to the task that awaits it.
CompletionIsSeen ==
    \A t \in Tasks : t \in result ~> \/ t \notin result
                                      \/ out[t] = "cancelled"
=============================================================================
