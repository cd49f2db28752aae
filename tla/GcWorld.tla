------------------------------ MODULE GcWorld ------------------------------
(***************************************************************************)
(* Stopping the world for a collection (crates/runtime/src/gc.rs): mutator *)
(* states, the STOP flag, the WORLD barrier, the collector's turn, native  *)
(* waits, thread start and exit, and the roots each thread publishes       *)
(* before it stops.  The runtime's own locks are part of it: one mutex     *)
(* taken with runtime_lock (threads.rs, shared.rs, async_rt.rs), which may *)
(* be held across a safepoint, and one channel's plain mutex, whose holder *)
(* may reach a safepoint in runtime_read_lock.                             *)
(*                                                                         *)
(* One step is one store, one load or one critical section.  RESUME_GEN is *)
(* held from the test of STOP to the wait, so the two are one step.        *)
(***************************************************************************)
EXTENDS Integers, FiniteSets

CONSTANTS Mutators,
          Generated,   \* threads that run generated code; the others are the
                       \* runtime's own (timers, I/O helpers)
          LockUsers,   \* threads that use the runtime mutex
          ChanUsers,   \* threads that send on the channel
          DeadEnds,    \* a sweep may find unreachable channel endpoints
          MaxGC,       \* bound on the collections
          Nobody        \* a mutex is free; nobody collects

ASSUME WorldAssumption ==
    /\ Nobody \notin Mutators
    /\ Generated \subseteq Mutators
    /\ LockUsers \subseteq Mutators /\ ChanUsers \subseteq Mutators
    /\ DeadEnds \in BOOLEAN /\ MaxGC \in Nat

VARIABLES
    stop, world, gcTurn,   \* STOP; the holders of WORLD and of GC_TURN
    registered, mstate,  \* MUTATORS, and each Mutator.state
    frames,              \* threads with managed pointers in generated frames
    roots,               \* threads whose published roots have those pointers
    pc, back,            \* where a thread is, and where it goes on afterwards
    mu, inner,           \* the holders of a runtime mutex and of Channel.inner
    marking,             \* history: the collector, from quiescence to resume
    cycles               \* collections so far

worldVars == <<stop, world, gcTurn, registered, mstate, frames, roots, pc, back, mu,
          inner, marking, cycles>>

WorldInit ==
    /\ stop = FALSE /\ world = Nobody /\ gcTurn = Nobody
    /\ registered = {}
    /\ mstate = [t \in Mutators |-> "running"]
    /\ frames = {} /\ roots = {}
    /\ pc = [t \in Mutators |-> "new"]
    /\ back = [t \in Mutators |-> "code"]
    /\ mu = Nobody /\ inner = Nobody
    /\ marking = Nobody /\ cycles = 0

Goto(t, label) == pc' = [pc EXCEPT ![t] = label]

Publish(t, has) == roots' = IF has THEN roots \cup {t} ELSE roots \ {t}

-----------------------------------------------------------------------------
(* The ways out of RUNNING and back.                                       *)

\* park_self, first half: scan the own frames and publish them.
Park(t) ==
    /\ stop
    /\ Publish(t, t \in frames)
    /\ back' = [back EXCEPT ![t] = IF pc[t] = "paused" THEN "code" ELSE pc[t]]
    /\ Goto(t, "parking")
    /\ UNCHANGED <<stop, world, gcTurn, registered, mstate, frames, mu, inner,
                   marking, cycles>>

\* park_self, second half: the thread is parked and waits for the resume.
SetParked(t) ==
    /\ pc[t] = "parking"
    /\ mstate' = [mstate EXCEPT ![t] = "parked"]
    /\ Goto(t, "wait")
    /\ UNCHANGED <<stop, world, gcTurn, registered, frames, roots, back, mu,
                   inner, marking, cycles>>

SetNative(t) ==
    /\ pc[t] = "entering"
    /\ mstate' = [mstate EXCEPT ![t] = "native"]
    /\ Goto(t, "native")
    /\ UNCHANGED <<stop, world, gcTurn, registered, frames, roots, back, mu,
                   inner, marking, cycles>>

\* leave_native and thread_start look at STOP before they try the barrier.
Rejoin(t) == Goto(t, IF stop THEN "wait" ELSE "contend")

\* wait_for_resume: under RESUME_GEN, sleep if STOP is set.
WaitForResume(t) ==
    /\ pc[t] = "wait"
    /\ Goto(t, IF stop THEN "asleep" ELSE "contend")
    /\ UNCHANGED <<stop, world, gcTurn, registered, mstate, frames, roots, back,
                   mu, inner, marking, cycles>>

\* Mutation: the thread goes back to RUNNING without the world barrier.
EnterRunning_NoBarrier(t) ==
    /\ pc[t] = "contend"
    /\ mstate' = [mstate EXCEPT ![t] = "running"]
    /\ Goto(t, back[t])
    /\ UNCHANGED <<stop, world, gcTurn, registered, frames, roots, back, mu,
                   inner, marking, cycles>>

\* Under WORLD: RUNNING again, unless STOP is set.
EnterRunning(t) ==
    /\ pc[t] = "contend"
    /\ world = Nobody
    /\ IF stop
       THEN Goto(t, "wait") /\ UNCHANGED mstate
       ELSE Goto(t, back[t]) /\ mstate' = [mstate EXCEPT ![t] = "running"]
    /\ UNCHANGED <<stop, world, gcTurn, registered, frames, roots, back, mu,
                   inner, marking, cycles>>

-----------------------------------------------------------------------------
(* A thread's life.                                                        *)

\* The first use of ME registers the mutator as RUNNING.
Register(t) ==
    /\ pc[t] = "new"
    /\ registered' = registered \cup {t}
    /\ Goto(t, "born")
    /\ UNCHANGED <<stop, world, gcTurn, mstate, frames, roots, back, mu, inner,
                   marking, cycles>>

\* Mutation: a new thread contends for the barrier as RUNNING.
ThreadStart_Running(t) ==
    /\ pc[t] = "born"
    /\ Rejoin(t)
    /\ UNCHANGED <<stop, world, gcTurn, registered, mstate, frames, roots, back,
                   mu, inner, marking, cycles>>

\* thread_start: parked until the barrier lets it in.
ThreadStart(t) ==
    /\ pc[t] = "born"
    /\ mstate' = [mstate EXCEPT ![t] = "parked"]
    /\ Rejoin(t)
    /\ UNCHANGED <<stop, world, gcTurn, registered, frames, roots, back, mu,
                   inner, marking, cycles>>

\* The thread ends and deregisters (MutatorHandle::drop).
ThreadExit(t) ==
    /\ pc[t] = "code" /\ t \notin frames
    /\ registered' = registered \ {t}
    /\ Goto(t, "exited")
    /\ UNCHANGED <<stop, world, gcTurn, mstate, frames, roots, back, mu, inner,
                   marking, cycles>>

\* Generated code calls and returns: it comes to hold pointers, or lets go.
Mutate(t) ==
    /\ pc[t] = "code" /\ t \in Generated
    /\ frames' = IF t \in frames THEN frames \ {t} ELSE frames \cup {t}
    /\ UNCHANGED <<stop, world, gcTurn, registered, mstate, roots, pc, back, mu,
                   inner, marking, cycles>>

\* lang_gc_safepoint at a loop back-edge, or maybe_collect while STOP is set.
Safepoint(t) == pc[t] = "code" /\ Park(t)

\* gc::pause: a half-built result is in hand and the thread does not park.
Pause(t) ==
    /\ pc[t] = "code"
    /\ Goto(t, "paused")
    /\ UNCHANGED <<stop, world, gcTurn, registered, mstate, frames, roots, back,
                   mu, inner, marking, cycles>>

\* gc::resume: the outermost one parks if the world is being stopped.
Resume(t) ==
    /\ pc[t] = "paused"
    /\ \/ Park(t)
       \/ /\ ~stop
          /\ Goto(t, "code")
          /\ UNCHANGED <<stop, world, gcTurn, registered, mstate, frames, roots,
                         back, mu, inner, marking, cycles>>

-----------------------------------------------------------------------------
(* Native waits and runtime locks.                                         *)

\* Mutation: a native wait publishes no roots.
EnterNative_NoRoots(t) ==
    /\ pc[t] = "code"
    /\ Publish(t, FALSE)
    /\ back' = [back EXCEPT ![t] = "code"]
    /\ Goto(t, "entering")
    /\ UNCHANGED <<stop, world, gcTurn, registered, mstate, frames, mu, inner,
                   marking, cycles>>

\* enter_native: publish the caller's frames, then state NATIVE.
EnterNative(t) ==
    /\ pc[t] = "code"
    /\ Publish(t, t \in frames)
    /\ back' = [back EXCEPT ![t] = "code"]
    /\ Goto(t, "entering")
    /\ UNCHANGED <<stop, world, gcTurn, registered, mstate, frames, mu, inner,
                   marking, cycles>>

LeaveNative(t) ==
    /\ pc[t] = "native" /\ back[t] = "code"
    /\ Rejoin(t)
    /\ UNCHANGED <<stop, world, gcTurn, registered, mstate, frames, roots, back,
                   mu, inner, marking, cycles>>

\* runtime_lock on a mutex, from generated code or the runtime's own: taken if
\* free; else the thread clears its roots, whatever its frames hold, goes native
\* (enter_runtime_native_no_roots) and waits for it.
LockOrBlock(t, after) ==
    IF mu = Nobody
    THEN /\ mu' = t
         /\ Goto(t, after)
         /\ UNCHANGED <<roots, back>>
    ELSE /\ Publish(t, FALSE)
         /\ back' = [back EXCEPT ![t] = after]
         /\ Goto(t, "entering")
         /\ UNCHANGED mu

RuntimeLock(t) ==
    /\ pc[t] = "code" /\ t \in LockUsers
    /\ LockOrBlock(t, "holding")
    /\ UNCHANGED <<stop, world, gcTurn, registered, mstate, frames, inner,
                   marking, cycles>>

\* The host mutex is granted to a native thread, which then leaves native
\* state with the mutex in hand.
Granted(t) ==
    /\ pc[t] = "native" /\ back[t] # "code"
    /\ mu = Nobody
    /\ mu' = t
    /\ Rejoin(t)
    /\ UNCHANGED <<stop, world, gcTurn, registered, mstate, frames, roots, back,
                   inner, marking, cycles>>

\* runtime_safepoint with the mutex held, as in pop_task_definitive.
LockedSafepoint(t) == pc[t] = "holding" /\ Park(t)

RuntimeUnlock(t) ==
    /\ pc[t] = "holding"
    /\ mu' = Nobody
    /\ Goto(t, "code")
    /\ UNCHANGED <<stop, world, gcTurn, registered, mstate, frames, roots, back,
                   inner, marking, cycles>>

\* lang_chan_send: a plain lock of Channel.inner, which blocks while RUNNING.
SendCall(t) ==
    /\ pc[t] = "code" /\ t \in ChanUsers
    /\ Goto(t, "sendwait")
    /\ UNCHANGED <<stop, world, gcTurn, registered, mstate, frames, roots, back,
                   mu, inner, marking, cycles>>

SendLock(t) ==
    /\ pc[t] = "sendwait"
    /\ inner = Nobody
    /\ inner' = t
    /\ Goto(t, "sending")
    /\ UNCHANGED <<stop, world, gcTurn, registered, mstate, frames, roots, back,
                   mu, marking, cycles>>

\* drain_waiters asks for the liveness of a waker; its runtime_read_lock finds
\* the shard taken and passes a safepoint.
SendSafepoint(t) == pc[t] = "sending" /\ Park(t)

SendUnlock(t) ==
    /\ pc[t] = "sending"
    /\ inner' = Nobody
    /\ Goto(t, "code")
    /\ UNCHANGED <<stop, world, gcTurn, registered, mstate, frames, roots, back,
                   mu, marking, cycles>>

-----------------------------------------------------------------------------
(* run_collection.                                                         *)

\* try_lock of GC_TURN and the threshold test.  A loser returns; if STOP is set
\* by then it parks (Safepoint).
TakeTurn(t) ==
    /\ pc[t] = "code"
    /\ gcTurn = Nobody /\ cycles < MaxGC
    /\ gcTurn' = t
    /\ cycles' = cycles + 1
    /\ Goto(t, "turn")
    /\ UNCHANGED <<stop, world, registered, mstate, frames, roots, back, mu,
                   inner, marking>>

TakeWorld(t) ==
    /\ pc[t] = "turn"
    /\ world = Nobody
    /\ world' = t
    /\ Goto(t, "stopping")
    /\ UNCHANGED <<stop, gcTurn, registered, mstate, frames, roots, back, mu,
                   inner, marking, cycles>>

SetStop(t) ==
    /\ pc[t] = "stopping"
    /\ stop' = TRUE
    /\ Goto(t, "quiesce")
    /\ UNCHANGED <<world, gcTurn, registered, mstate, frames, roots, back, mu,
                   inner, marking, cycles>>

\* stop_the_world: under MUTATORS, nobody else is RUNNING.
Quiescent(t) ==
    /\ pc[t] = "quiesce"
    /\ \A u \in registered \ {t} : mstate[u] # "running"
    /\ marking' = t
    /\ Goto(t, "collect")
    /\ UNCHANGED <<stop, world, gcTurn, registered, mstate, frames, roots, back,
                   mu, inner, cycles>>

\* collect: mark and sweep; then the endpoints of dead objects are released.
CollectHeap(t) ==
    /\ pc[t] = "collect"
    /\ \/ Goto(t, "clear")
       \/ DeadEnds /\ Goto(t, "release")
    /\ UNCHANGED <<stop, world, gcTurn, registered, mstate, frames, roots, back,
                   mu, inner, marking, cycles>>

\* lang_chan_sender_release in the collector: Channel.inner, then the wake of
\* a waiting task, which takes a runtime mutex of the executor.
ReleaseEndpoint(t) ==
    /\ pc[t] = "release"
    /\ inner = Nobody
    /\ LockOrBlock(t, "woke")
    /\ UNCHANGED <<stop, world, gcTurn, registered, mstate, frames, inner,
                   marking, cycles>>

WakeDone(t) ==
    /\ pc[t] = "woke"
    /\ mu' = Nobody
    /\ Goto(t, "clear")
    /\ UNCHANGED <<stop, world, gcTurn, registered, mstate, frames, roots, back,
                   inner, marking, cycles>>

ClearStop(t) ==
    /\ pc[t] = "clear"
    /\ stop' = FALSE
    /\ marking' = Nobody
    /\ Goto(t, "notify")
    /\ UNCHANGED <<world, gcTurn, registered, mstate, frames, roots, back, mu,
                   inner, cycles>>

\* Mutation: one parked thread is notified instead of all.
NotifyResume_One(t) ==
    /\ pc[t] = "notify"
    /\ pc' = [u \in Mutators |->
                IF u = t THEN "drop"
                ELSE IF u = (CHOOSE v \in Mutators : v # t) /\ pc[u] = "asleep"
                     THEN "wait" ELSE pc[u]]
    /\ UNCHANGED <<stop, world, gcTurn, registered, mstate, frames, roots, back,
                   mu, inner, marking, cycles>>

\* resume_the_world: notify_all under RESUME_GEN.
NotifyResume(t) ==
    /\ pc[t] = "notify"
    /\ pc' = [u \in Mutators |-> IF u = t THEN "drop"
                                ELSE IF pc[u] = "asleep" THEN "wait" ELSE pc[u]]
    /\ UNCHANGED <<stop, world, gcTurn, registered, mstate, frames, roots, back,
                   mu, inner, marking, cycles>>

DropWorld(t) ==
    /\ pc[t] = "drop"
    /\ world' = Nobody
    /\ Goto(t, "finalize")
    /\ UNCHANGED <<stop, gcTurn, registered, mstate, frames, roots, back, mu,
                   inner, marking, cycles>>

\* run_finalizers, under the turn, and the end of the turn.
RunFinalizers(t) ==
    /\ pc[t] = "finalize"
    /\ gcTurn' = Nobody
    /\ Goto(t, "code")
    /\ UNCHANGED <<stop, world, registered, mstate, frames, roots, back, mu,
                   inner, marking, cycles>>

-----------------------------------------------------------------------------
\* What a thread may choose to do.
Choose(t) ==
    \/ Register(t) \/ ThreadExit(t) \/ Mutate(t) \/ Pause(t) \/ EnterNative(t)
    \/ LeaveNative(t) \/ RuntimeLock(t) \/ SendCall(t) \/ TakeTurn(t)
    \/ LockedSafepoint(t) \/ SendSafepoint(t)

\* What it goes on to do once it has begun.
Proceed(t) ==
    \/ SetParked(t) \/ SetNative(t) \/ WaitForResume(t) \/ ThreadStart(t)
    \/ Resume(t) \/ RuntimeUnlock(t) \/ SendUnlock(t)
    \/ SetStop(t) \/ Quiescent(t) \/ CollectHeap(t) \/ WakeDone(t) \/ ClearStop(t)
    \/ NotifyResume(t) \/ DropWorld(t) \/ RunFinalizers(t)

\* What it can do when a mutex is free.
Acquire(t) ==
    EnterRunning(t) \/ Granted(t) \/ SendLock(t) \/ TakeWorld(t) \/ ReleaseEndpoint(t)

WorldNext == \E t \in Mutators : Choose(t) \/ Proceed(t) \/ Acquire(t) \/ Safepoint(t)

WorldSpec == WorldInit /\ [][WorldNext]_worldVars

\* Threads run, a mutex that keeps becoming free is granted, and generated code
\* keeps reaching safepoints.
Fairness ==
    \A t \in Mutators : SF_worldVars(Proceed(t) \/ Acquire(t)) /\ SF_worldVars(Safepoint(t))

FairSpec == WorldSpec /\ Fairness

-----------------------------------------------------------------------------
(* Properties.                                                             *)

Labels == {"new", "born", "code", "paused", "parking", "entering", "native",
           "wait", "asleep", "contend", "holding", "sendwait", "sending",
           "turn", "stopping", "quiesce", "collect", "release", "woke", "clear",
           "notify", "drop", "finalize", "exited"}

\* Flags, mutex holders and program counters have their types.
WorldTypeOK ==
    /\ stop \in BOOLEAN
    /\ world \in Mutators \cup {Nobody} /\ gcTurn \in Mutators \cup {Nobody}
    /\ registered \subseteq Mutators
    /\ mstate \in [Mutators -> {"running", "parked", "native"}]
    /\ frames \subseteq Mutators /\ roots \subseteq Mutators
    /\ pc \in [Mutators -> Labels]
    /\ back \in [Mutators -> {"code", "holding", "sending", "woke"}]
    /\ mu \in Mutators \cup {Nobody} /\ inner \in Mutators \cup {Nobody}
    /\ marking \in Mutators \cup {Nobody}
    /\ cycles \in 0 .. MaxGC

\* The thread executes program code or runtime code that changes the heap.
InProgram(t) == pc[t] \in {"code", "paused", "holding", "sendwait", "sending",
                           "turn", "finalize"}

\* No mutator executes program code while the collector marks and sweeps, not
\* even one that starts, wakes from a park or comes back from a native wait in
\* that moment.
MarkAlone == marking # Nobody => \A t \in Mutators \ {marking} : ~InProgram(t)

\* The thread went native for a contended runtime mutex.
InRuntimeLock(t) == mstate[t] = "native" /\ back[t] # "code"

\* The collector sees the live pointers of every thread that stopped any other
\* way: at a safepoint, with a mutex held or not, at the end of a pause, in a
\* native call, on its way out of one.  Each has published what its generated
\* frames hold, and nothing older.
RootsComplete ==
    marking # Nobody =>
        \A t \in frames \ {marking} : t \in registered /\ (t \in roots \/ InRuntimeLock(t))

\* What gc.rs:1241-1242 takes for granted of the others: a thread blocked in
\* runtime_lock has no language roots on its stack, so the collector sees all.
\* It does not hold (MCGcRoots.cfg).
RootsOfAll == marking # Nobody => frames \ {marking} \subseteq roots

\* No lost resume: a thread asleep on RESUME_CV sleeps for a collection that is
\* still on, or its notification is about to be sent.
NoLostResume ==
    (\E t \in Mutators : pc[t] = "asleep") =>
        stop \/ \E t \in Mutators : pc[t] = "notify"

\* Somebody waits for a mutex whose holder waits for the end of the collection.
Jammed ==
    \/ /\ inner # Nobody /\ mstate[inner] # "running"
       /\ \E t \in Mutators : pc[t] \in {"sendwait", "release"}
    \/ world # Nobody /\ pc[world] \in {"entering", "native", "wait", "asleep"}

\* A collection that stops the world ends, unless a runtime mutex held across a
\* safepoint is wanted by a running thread or by the collector itself.
EndsUnlessJammed == stop ~> (~stop \/ Jammed)
=============================================================================
