------------------------------ MODULE TaskLife ------------------------------
(***************************************************************************)
(* The life of an executor task as the rest of the runtime may see it:     *)
(* polled by one thread at a time, suspended in between, ended once, never *)
(* polled after its end, and its outcome published once, after the end.    *)
(* A task ends as cancelled only on request.  TaskExec implements this.    *)
(***************************************************************************)

CONSTANTS Tasks,
          Cancellable   \* tasks with a suspension point to be cancelled at

VARIABLES phase,       \* "suspended", "polled" or "ended"
          requested,   \* tasks whose cancellation was requested
          outcome      \* "none", or what a joiner is told

vars == <<phase, requested, outcome>>

Init ==
    /\ phase = [t \in Tasks |-> "suspended"]
    /\ requested = {}
    /\ outcome = [t \in Tasks |-> "none"]

Begin(t) ==
    /\ phase[t] = "suspended"
    /\ phase' = [phase EXCEPT ![t] = "polled"]
    /\ UNCHANGED <<requested, outcome>>

Suspend(t) ==
    /\ phase[t] = "polled"
    /\ phase' = [phase EXCEPT ![t] = "suspended"]
    /\ UNCHANGED <<requested, outcome>>

End(t) ==
    /\ phase[t] = "suspended"
    /\ phase' = [phase EXCEPT ![t] = "ended"]
    /\ UNCHANGED <<requested, outcome>>

RequestCancel(t) ==
    /\ requested' = requested \cup {t}
    /\ UNCHANGED <<phase, outcome>>

Publish(t, v) ==
    /\ phase[t] = "ended"
    /\ outcome[t] = "none"
    /\ v = "cancelled" => t \in requested \cap Cancellable
    /\ outcome' = [outcome EXCEPT ![t] = v]
    /\ UNCHANGED <<phase, requested>>

Next ==
    \E t \in Tasks :
        \/ Begin(t) \/ Suspend(t) \/ End(t) \/ RequestCancel(t)
        \/ \E v \in {"joined", "panicked", "cancelled"} : Publish(t, v)

Spec == Init /\ [][Next]_vars
=============================================================================
