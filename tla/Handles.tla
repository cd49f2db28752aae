------------------------------ MODULE Handles ------------------------------
(***************************************************************************)
(* A runtime handle and the calls on it, each made by a helper thread of   *)
(* its own: a file (fs.rs), a socket (net.rs) or a child process           *)
(* (process.rs).  Files and sockets sit in a registry as Arc<Mutex<_>>; a  *)
(* child sits in a table with a condition variable, and the call that      *)
(* waits for it or kills it takes it out meanwhile.                        *)
(*                                                                         *)
(* A thread is RUNNING or native for the collector, which waits for the    *)
(* RUNNING ones; leave_native waits for a collection that has begun.  A    *)
(* mutex that is held over neither a wait nor a state change is one step.  *)
(***************************************************************************)
EXTENDS Integers, FiniteSets

CONSTANTS Threads, Kinds,
          MaxCalls, MaxGC,   \* bounds on calls and collections
          NoOne

ASSUME HandlesAssumption ==
    /\ Threads # {} /\ NoOne \notin Threads
    /\ Kinds # {} /\ Kinds \subseteq {"file", "socket", "child"}
    /\ MaxCalls \in Nat /\ MaxGC \in Nat

VARIABLES
    kind,
    begun,              \* calls begun so far
    op, pc, ans,        \* a thread's call, where it is, its last answer
    native,             \* threads in native state
    made, reg,          \* the handle was made; it is in the registry or table
    osOpen,             \* the OS object is open (a child: not yet dropped)
    arcs, mutex,        \* calls that hold the Arc; the holder of its Mutex
    slot, status, waiting,   \* ChildEntry.child, .status, .waiting
    has,                \* calls that hold the OsChild
    table,              \* the holder of the child table's mutex
    exited,             \* the child process has ended
    stop, gcs           \* a collection is wanted; collections so far

thread == <<op, pc, ans, native>>
shared == <<reg, osOpen, arcs, mutex>>
child  == <<slot, status, waiting, has, table>>
gc     == <<stop, gcs>>
vars   == <<kind, begun, thread, made, shared, child, exited, gc>>

\* use: read, write, seek, accept, peer_addr...; close: the close calls and
\* the release hooks.
Ops == {"open", "close"} \cup
       (IF kind = "child" THEN {"wait", "kill"} ELSE {"use"})

Init ==
    /\ kind \in Kinds
    /\ begun = 0
    /\ op = [t \in Threads |-> "none"]
    /\ pc = [t \in Threads |-> "idle"]
    /\ ans = [t \in Threads |-> "none"]
    /\ native = {}
    /\ made = FALSE /\ reg = FALSE /\ osOpen = FALSE
    /\ arcs = {} /\ mutex = NoOne
    /\ slot = FALSE /\ status = FALSE /\ waiting = FALSE
    /\ has = {} /\ table = NoOne /\ exited = FALSE
    /\ stop = FALSE /\ gcs = 0

Goto(t, label)   == pc' = [pc EXCEPT ![t] = label]
Say(t, a)        == ans' = [ans EXCEPT ![t] = a]
\* enter_native, leave_native.
Enter(t)         == native' = native \cup {t}
Leave(t)         == native' = native \ {t}
Answer(t, a)     == Goto(t, "idle") /\ Say(t, a) /\ UNCHANGED native

-----------------------------------------------------------------------------

\* A helper starts a call.  Handles are never used again, so one is enough;
\* making it is a native wait from the start.
Begin(t, o) ==
    /\ pc[t] = "idle" /\ begun < MaxCalls /\ o \in Ops
    /\ IF o = "open" THEN ~made /\ \A u \in Threads : pc[u] = "idle"
       ELSE made
    /\ begun' = begun + 1
    /\ op' = [op EXCEPT ![t] = o]
    /\ Say(t, "none")
    /\ IF o = "open" THEN Goto(t, "open") /\ Enter(t)
       ELSE Goto(t, "look") /\ UNCHANGED native
    /\ UNCHANGED <<kind, made, shared, child, exited, gc>>

\* open, connect, bind, accept or spawn returns.
Opened(t) ==
    /\ pc[t] = "open"
    /\ osOpen' \in BOOLEAN
    /\ Goto(t, "leave")
    /\ UNCHANGED <<kind, begun, op, ans, native, made, reg, arcs, mutex, child,
                   exited, gc>>

\* leave_native: not while a collection stops the world.
LeaveNative(t) ==
    /\ pc[t] = "leave" /\ ~stop
    /\ Leave(t) /\ Goto(t, "after")
    /\ UNCHANGED <<kind, begun, op, ans, made, shared, child, exited, gc>>

\* register_file, register_stream, insert_child.
Register(t) ==
    /\ pc[t] = "after" /\ op[t] = "open" /\ table = NoOne
    /\ made' = osOpen /\ reg' = osOpen
    /\ slot' = (osOpen /\ kind = "child")
    /\ Answer(t, IF osOpen THEN "ok" ELSE "error")
    /\ UNCHANGED <<kind, begun, op, osOpen, arcs, mutex, status, waiting, has,
                   table, exited, gc>>

-----------------------------------------------------------------------------
(* Files and sockets.                                                      *)

Arced == kind \in {"file", "socket"}

\* stream_handle and its like; with_file_handle locks as RUNNING, the
\* with_*_native_wait functions of sockets lock inside the native wait.
Lookup(t) ==
    /\ pc[t] = "look" /\ op[t] = "use"
    /\ IF reg
       THEN /\ arcs' = arcs \cup {t} /\ Goto(t, "lock")
            /\ IF kind = "socket" THEN Enter(t) ELSE UNCHANGED native
            /\ UNCHANGED ans
       ELSE Answer(t, "invalid") /\ UNCHANGED arcs
    /\ UNCHANGED <<kind, begun, op, made, reg, osOpen, mutex, child, exited, gc>>

LockHandle(t) ==
    /\ pc[t] = "lock" /\ mutex = NoOne
    /\ mutex' = t
    /\ Enter(t) /\ Goto(t, "body")
    /\ UNCHANGED <<kind, begun, op, ans, made, reg, osOpen, arcs, child, exited,
                   gc>>

\* The OS call returns; a socket's guard goes inside the native wait.
BodyUse(t) ==
    /\ pc[t] = "body" /\ op[t] = "use"
    /\ mutex' = IF kind = "socket" THEN NoOne ELSE mutex
    /\ Goto(t, "leave")
    /\ UNCHANGED <<kind, begun, op, ans, native, made, reg, osOpen, arcs, child,
                   exited, gc>>

\* Mutation: the last reference does not close the descriptor.
DropArc_Keep(t) ==
    /\ arcs' = arcs \ {t}
    /\ osOpen' = (osOpen /\ (reg \/ arcs # {t} \/ op[t] = "use"))

\* The last Arc closes the OS object.
DropArc(t) ==
    /\ arcs' = arcs \ {t}
    /\ osOpen' = (osOpen /\ (reg \/ arcs # {t}))

EndUse(t) ==
    /\ pc[t] = "after" /\ op[t] = "use"
    /\ mutex' = IF mutex = t THEN NoOne ELSE mutex
    /\ DropArc(t)
    /\ Answer(t, "ok")
    /\ UNCHANGED <<kind, begun, op, made, reg, child, exited, gc>>

\* fs_file_close_encoded, net_*_close_encoded, lang_net_*_release: out of the
\* registry, then dropped natively.
Close(t) ==
    /\ pc[t] = "look" /\ op[t] = "close" /\ Arced
    /\ IF reg
       THEN /\ reg' = FALSE /\ arcs' = arcs \cup {t}
            /\ Enter(t) /\ Goto(t, "drop") /\ UNCHANGED ans
       ELSE Answer(t, "invalid") /\ UNCHANGED <<reg, arcs>>
    /\ UNCHANGED <<kind, begun, op, made, osOpen, mutex, child, exited, gc>>

Drop(t) ==
    /\ pc[t] = "drop" /\ Arced
    /\ DropArc(t)
    /\ Goto(t, "leave")
    /\ UNCHANGED <<kind, begun, op, ans, native, made, reg, mutex, child,
                   exited, gc>>

EndClose(t) ==
    /\ pc[t] = "after" /\ op[t] = "close"
    /\ Answer(t, IF ans[t] = "none" THEN "ok" ELSE ans[t])
    /\ table' = IF table = t THEN NoOne ELSE table
    /\ UNCHANGED <<kind, begun, op, made, shared, slot, status, waiting, has,
                   exited, gc>>

-----------------------------------------------------------------------------
(* Child processes.                                                        *)

\* The child ends by itself.
Exit ==
    /\ kind = "child" /\ made /\ ~exited
    /\ exited' = TRUE
    /\ UNCHANGED <<kind, begun, thread, made, shared, child, gc>>

\* A call reads the table: for the first time, or again after the condition
\* variable, when it still holds the mutex.
InTable(t) == \/ pc[t] = "look" /\ table = NoOne
              \/ pc[t] = "again" /\ table = t

\* process_child_wait_encoded, first part: answer, sleep, or take the child.
ChildWait(t) ==
    /\ op[t] = "wait" /\ InTable(t)
    /\ table' = NoOne
    /\ CASE ~reg   -> Answer(t, "unknown") /\ UNCHANGED <<slot, waiting, has>>
         [] reg /\ status ->
                Answer(t, "status") /\ UNCHANGED <<slot, waiting, has>>
         [] reg /\ ~status /\ waiting ->
                Enter(t) /\ Goto(t, "cv") /\ UNCHANGED <<ans, slot, waiting, has>>
         [] reg /\ ~status /\ ~waiting /\ ~slot ->
                Answer(t, "nolive") /\ UNCHANGED <<slot, waiting, has>>
         [] reg /\ ~status /\ ~waiting /\ slot ->
                /\ slot' = FALSE /\ waiting' = TRUE /\ has' = has \cup {t}
                /\ Enter(t) /\ Goto(t, "body") /\ UNCHANGED ans
    /\ UNCHANGED <<kind, begun, op, made, shared, status, exited, gc>>

\* process_child_kill_encoded, first part: it never sleeps.
ChildKill(t) ==
    /\ op[t] = "kill" /\ InTable(t)
    /\ CASE ~reg   -> Answer(t, "unknown") /\ UNCHANGED <<slot, waiting, has>>
         [] reg /\ status ->
                Answer(t, "ok") /\ UNCHANGED <<slot, waiting, has>>
         [] reg /\ ~status /\ waiting ->
                Answer(t, "busy") /\ UNCHANGED <<slot, waiting, has>>
         [] reg /\ ~status /\ ~waiting /\ ~slot ->
                Answer(t, "nolive") /\ UNCHANGED <<slot, waiting, has>>
         [] reg /\ ~status /\ ~waiting /\ slot ->
                /\ slot' = FALSE /\ waiting' = TRUE /\ has' = has \cup {t}
                /\ Enter(t) /\ Goto(t, "body") /\ UNCHANGED ans
    /\ UNCHANGED <<kind, begun, op, made, shared, status, table, exited, gc>>

\* child.wait() and child.kill() return.
WaitDone(t) ==
    /\ pc[t] = "body" /\ op[t] = "wait" /\ exited
    /\ Say(t, "status") /\ Goto(t, "leave")
    /\ UNCHANGED <<kind, begun, op, native, made, shared, child, exited, gc>>

KillDone(t) ==
    /\ pc[t] = "body" /\ op[t] = "kill"
    /\ exited' = TRUE
    /\ Say(t, "ok") /\ Goto(t, "leave")
    /\ UNCHANGED <<kind, begun, op, native, made, shared, child, gc>>

ChildFails(t) ==
    /\ pc[t] = "body" /\ op[t] \in {"wait", "kill"}
    /\ Say(t, "error") /\ Goto(t, "leave")
    /\ UNCHANGED <<kind, begun, op, native, made, shared, child, exited, gc>>

\* Mutation: a wait that failed leaves the entry as it was.
PutBack_NotOnError(t) ==
    /\ waiting' = (waiting /\ ans[t] = "error")
    /\ status' = (status \/ ans[t] = "status")
    /\ slot' = (ans[t] = "ok")
    /\ has' = has \ {t}

\* The entry is still there: the status is known, or the child goes back.
PutBack(t) ==
    /\ waiting' = FALSE
    /\ status' = (status \/ ans[t] = "status")
    /\ slot' = (ans[t] # "status")
    /\ has' = has \ {t}

\* ready.notify_all().
Notified(p) == [t \in Threads |-> IF p[t] = "cv" THEN "woken" ELSE p[t]]

\* Mutation: only a call that succeeded notifies.
ChildBack_ErrorSilent(t) ==
    /\ pc[t] = "after" /\ op[t] \in {"wait", "kill"} /\ table = NoOne
    /\ LET p == IF ans[t] = "error" THEN pc ELSE Notified(pc)
       IN IF reg
          THEN /\ PutBack(t)
               /\ pc' = [p EXCEPT ![t] = "idle"] /\ UNCHANGED <<native, table>>
          ELSE /\ pc' = [p EXCEPT ![t] = "drop"] /\ table' = t
               /\ Enter(t) /\ UNCHANGED <<slot, status, waiting, has>>
    /\ UNCHANGED <<kind, begun, op, ans, made, shared, exited, gc>>

\* The second part of wait and kill; without the entry the child is dropped,
\* under the table's guard, which goes with the function's return.
ChildBack(t) ==
    /\ pc[t] = "after" /\ op[t] \in {"wait", "kill"} /\ table = NoOne
    /\ IF reg
       THEN /\ PutBack(t)
            /\ pc' = [Notified(pc) EXCEPT ![t] = "idle"]
            /\ UNCHANGED <<native, table>>
       ELSE /\ pc' = [Notified(pc) EXCEPT ![t] = "drop"] /\ table' = t
            /\ Enter(t) /\ UNCHANGED <<slot, status, waiting, has>>
    /\ UNCHANGED <<kind, begun, op, ans, made, shared, exited, gc>>

\* lang_process_child_release: the entry goes with the child in it, if any ...
ChildRelease(t) ==
    /\ pc[t] = "look" /\ op[t] = "close" /\ kind = "child" /\ table = NoOne
    /\ reg' = FALSE
    /\ slot' = FALSE
    /\ has' = IF slot THEN has \cup {t} ELSE has
    /\ Goto(t, "notify")
    /\ Say(t, IF reg THEN "ok" ELSE "unknown")
    /\ UNCHANGED <<kind, begun, op, native, made, osOpen, arcs, mutex, status,
                   waiting, table, exited, gc>>

\* Mutation: nobody is told that the entry is gone.
ReleaseNotify_Silent(t) ==
    /\ pc[t] = "notify"
    /\ IF ans[t] = "ok"
       THEN pc' = [pc EXCEPT ![t] = "drop"] /\ Enter(t)
       ELSE pc' = [pc EXCEPT ![t] = "idle"] /\ UNCHANGED native
    /\ UNCHANGED <<kind, begun, op, ans, made, shared, child, exited, gc>>

\* ... and the waiters are told after the unlock.
ReleaseNotify(t) ==
    /\ pc[t] = "notify"
    /\ IF ans[t] = "ok"
       THEN pc' = [Notified(pc) EXCEPT ![t] = "drop"] /\ Enter(t)
       ELSE pc' = [Notified(pc) EXCEPT ![t] = "idle"] /\ UNCHANGED native
    /\ UNCHANGED <<kind, begun, op, ans, made, shared, child, exited, gc>>

\* drop_child_entry_native_wait, drop_os_child_native_wait; what is left of the
\* call is the return.
DropChild(t) ==
    /\ pc[t] = "drop" /\ kind = "child"
    /\ has' = has \ {t}
    /\ op' = [op EXCEPT ![t] = "close"]
    /\ Goto(t, "leave")
    /\ UNCHANGED <<kind, begun, ans, native, made, shared, slot, status,
                   waiting, table, exited, gc>>

\* Condvar::wait may return unasked.
Spurious(t) ==
    /\ pc[t] = "cv"
    /\ Goto(t, "woken")
    /\ UNCHANGED <<kind, begun, op, ans, native, made, shared, child, exited,
                   gc>>

\* wait_child_table: the mutex is taken again in native state, and held while
\* leave_native waits for the collector.
Relock(t) ==
    /\ pc[t] = "woken" /\ table = NoOne
    /\ table' = t /\ Goto(t, "held")
    /\ UNCHANGED <<kind, begun, op, ans, native, made, shared, slot, status,
                   waiting, has, exited, gc>>

LeaveHeld(t) ==
    /\ pc[t] = "held" /\ ~stop
    /\ Leave(t) /\ Goto(t, "again")
    /\ UNCHANGED <<kind, begun, op, ans, made, shared, child, exited, gc>>

-----------------------------------------------------------------------------
(* Collections.                                                            *)

RequestGC ==
    /\ ~stop /\ gcs < MaxGC
    /\ stop' = TRUE
    /\ UNCHANGED <<kind, begun, thread, made, shared, child, exited, gcs>>

\* Every helper is native or has gone on to where it may stop.
Collect ==
    /\ stop /\ \A t \in Threads : t \in native \/ pc[t] = "idle"
    /\ stop' = FALSE /\ gcs' = gcs + 1
    /\ UNCHANGED <<kind, begun, thread, made, shared, child, exited>>

-----------------------------------------------------------------------------

Step(t) ==
    \/ Opened(t) \/ LeaveNative(t) \/ Register(t) \/ Lookup(t) \/ LockHandle(t)
    \/ EndUse(t) \/ Close(t) \/ Drop(t) \/ EndClose(t)
    \/ ChildWait(t) \/ ChildKill(t) \/ WaitDone(t) \/ KillDone(t)
    \/ ChildBack(t) \/ ChildRelease(t) \/ ReleaseNotify(t) \/ DropChild(t)
    \/ Relock(t) \/ LeaveHeld(t)

Next == \/ \E t \in Threads : \/ \E o \in Ops : Begin(t, o)
                              \/ Step(t) \/ BodyUse(t) \/ ChildFails(t)
                              \/ Spurious(t)
        \/ Exit \/ RequestGC \/ Collect

Spec == Init /\ [][Next]_vars

\* Threads are scheduled, and a mutex that is free again and again is not
\* withheld for ever from a thread that wants it.  A read may block for ever
\* and a child may never end.
FairSpec ==
    /\ Spec /\ WF_vars(Collect)
    /\ \A t \in Threads : SF_vars(Step(t))

-----------------------------------------------------------------------------
(* Properties.                                                             *)

TypeOK ==
    /\ kind \in Kinds /\ begun \in 0 .. MaxCalls
    /\ op \in [Threads -> {"none", "open", "close", "use", "wait", "kill"}]
    /\ pc \in [Threads -> {"idle", "open", "look", "lock", "body", "leave",
                           "after", "drop", "cv", "woken", "held", "again",
                           "notify"}]
    /\ ans \in [Threads -> {"none", "ok", "error", "invalid", "unknown",
                            "status", "busy", "nolive"}]
    /\ native = {t \in Threads : \/ pc[t] \in {"open", "body", "leave", "drop",
                                               "cv", "woken", "held"}
                                 \/ pc[t] = "lock" /\ kind = "socket"}
    /\ {made, reg, osOpen, slot, status, waiting, exited, stop} \subseteq BOOLEAN
    /\ arcs \subseteq Threads /\ has \subseteq Threads
    /\ mutex \in Threads \cup {NoOne} /\ table \in Threads \cup {NoOne}
    /\ gcs \in 0 .. MaxGC

\* A file or a socket is open while a call works on it, also when it is closed
\* meanwhile, and its descriptor is closed with the last of them.
OpenWhileUsed ==
    Arced /\ made => (osOpen <=> reg \/ arcs # {})

\* The child has one owner: its entry, or the one call that took it out and set
\* `waiting`, until its status is known; so no call ever finds an entry with
\* neither a child nor a status nor a call in progress.
ChildOwned ==
    /\ Cardinality(has) <= 1
    /\ ~ (slot /\ has # {})
    /\ kind = "child" /\ reg => /\ waiting <=> has # {}
                                /\ status \/ slot \/ waiting
    /\ \A t \in Threads : ans[t] # "nolive"

\* Somebody will still notify a call that sleeps on the condition variable.
SleeperIsTold ==
    \A t \in Threads : pc[t] = "cv" =>
        \E u \in Threads : \/ pc[u] = "notify"
                           \/ op[u] \in {"wait", "kill"}
                              /\ pc[u] \in {"body", "leave", "after"}

\* The collector waits for a RUNNING thread that waits for a mutex whose holder
\* is native and waits, or will wait, for the collector: the file's Mutex, or
\* the table's.
Jammed ==
    /\ stop
    /\ \E t \in Threads \ native :
          \/ pc[t] = "lock" /\ mutex \in native
          \/ pc[t] \in {"look", "after"} /\ kind = "child" /\ table \in native

\* Closing and killing come back even while a read blocks for ever, and a call
\* that sleeps for another's wait comes back once the child has ended or its
\* handle is gone.  Only the collector's jam is in the way.
CallsReturn ==
    \A t \in Threads :
        (\/ op[t] \in {"open", "close", "kill"} /\ pc[t] # "idle"
         \/ pc[t] \in {"cv", "woken"} /\ (exited \/ ~reg))
            ~> (pc[t] = "idle" \/ Jammed)
=============================================================================
