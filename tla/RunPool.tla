------------------------------ MODULE RunPool ------------------------------
(***************************************************************************)
(* What the executor's run queues promise, without queues, locks or        *)
(* sleeping workers: a runnable copy of a task that was handed to the      *)
(* executor is handed to one worker, once, and a copy that waits is        *)
(* eventually handed out.  WorkerPool implements this specification.       *)
(***************************************************************************)

CONSTANTS Copies,    \* the runnable task copies ever handed to the executor
          Workers,
          NoOne      \* the worker polls nothing

VARIABLES fresh,     \* copies not yet submitted
          waiting,   \* copies submitted and not yet picked up
          polling    \* the copy each worker has picked up and is polling

vars == <<fresh, waiting, polling>>

Init ==
    /\ fresh = Copies
    /\ waiting = {}
    /\ polling = [w \in Workers |-> NoOne]

Submit(c) ==
    /\ c \in fresh
    /\ fresh' = fresh \ {c}
    /\ waiting' = waiting \cup {c}
    /\ UNCHANGED polling

Take(w, c) ==
    /\ c \in waiting
    /\ polling[w] = NoOne
    /\ waiting' = waiting \ {c}
    /\ polling' = [polling EXCEPT ![w] = c]
    /\ UNCHANGED fresh

Finish(w) ==
    /\ polling[w] # NoOne
    /\ polling' = [polling EXCEPT ![w] = NoOne]
    /\ UNCHANGED <<fresh, waiting>>

TakeSome(c) == \E w \in Workers : Take(w, c)

Next ==
    \/ \E c \in Copies : Submit(c) \/ TakeSome(c)
    \/ \E w \in Workers : Finish(w)

\* A copy can be taken whenever a worker is idle, and every poll ends.
Spec ==
    /\ Init
    /\ [][Next]_vars
    /\ \A c \in Copies : SF_vars(TakeSome(c))
    /\ \A w \in Workers : WF_vars(Finish(w))
=============================================================================
