--------------------------- MODULE HandlesProofs ---------------------------
(***************************************************************************)
(* A handle's OS object lives as long as its last user and a child has one *)
(* owner, for any number of threads, calls and collections.                *)
(***************************************************************************)
EXTENDS Handles, TLAPS, FiniteSetTheorems

\* The call that makes the handle is alone until it is registered.
OpensAlone ==
    \A t \in Threads :
        /\ pc[t] = "open" => op[t] = "open"
        /\ pc[t] # "idle" /\ op[t] = "open" =>
               ~made /\ \A u \in Threads \ {t} : pc[u] = "idle"

\* Before the handle is made there is nothing to hold.
Unmade == ~made => ~reg /\ arcs = {} /\ has = {} /\ ~slot /\ ~waiting

\* Who drops the object, or is about to, has removed or missed its entry.
EntryGone == \A t \in Threads : pc[t] \in {"notify", "drop"} => ~reg

\* Calls keep to their kind, and wait and kill hold the child from taking it
\* out of the entry to giving it back.
CallsHold ==
    \A t \in Threads :
        /\ pc[t] = "lock" => op[t] = "use"
        /\ op[t] \in {"wait", "kill"} => kind = "child"
        /\ op[t] \in {"wait", "kill"} /\ pc[t] \in {"body", "leave", "after"} =>
               t \in has

\* ChildOwned, with the one owner by equality.
OneOwner ==
    /\ \A t, u \in has : t = u
    /\ slot => has = {}
    /\ kind = "child" /\ reg => /\ waiting <=> has # {}
                                /\ status \/ slot \/ waiting
    /\ \A t \in Threads : ans[t] # "nolive"

IInv ==
    /\ TypeOK /\ (stop => gcs < MaxGC)
    /\ OpensAlone /\ Unmade /\ EntryGone /\ CallsHold
    /\ OpenWhileUsed /\ OneOwner

\* The invariant holds before any handle exists.
LEMMA HandlesInit == Init => IInv
<1> SUFFICES ASSUME Init  PROVE IInv
  OBVIOUS
<1>1. TypeOK
  <2>1. {made, reg, osOpen, slot, status, waiting, exited, stop} \subseteq BOOLEAN
    BY DEF Init
  <2>2. 0 \in 0 .. MaxCalls /\ 0 \in 0 .. MaxGC
    BY HandlesAssumption
  <2> QED  BY <2>1, <2>2 DEF Init, TypeOK
<1>2. stop => gcs < MaxGC
  BY DEF Init
<1>3. OpensAlone /\ Unmade /\ EntryGone /\ CallsHold
  BY DEF Init, OpensAlone, Unmade, EntryGone, CallsHold
<1>4. OpenWhileUsed /\ OneOwner
  BY DEF Init, OpenWhileUsed, OneOwner
<1> QED  BY <1>1, <1>2, <1>3, <1>4 DEF IInv

\* A call that goes native with the object in its hands keeps the types.
LEMMA EnterKeepsType ==
    ASSUME TypeOK, NEW t \in Threads, NEW l \in {"body", "drop"},
           Goto(t, l), Enter(t), UNCHANGED <<kind, begun, op, ans, mutex, gcs>>,
           ({made, reg, osOpen, slot, status, waiting, exited, stop} \subseteq BOOLEAN)',
           arcs' \subseteq Threads, has' \subseteq Threads,
           table' \in Threads \cup {NoOne}
    PROVE  TypeOK'
<1> DEFINE NativePcs == {"open", "body", "leave", "drop", "cv", "woken", "held"}
           Natively(u) == pc[u] \in NativePcs \/ (pc[u] = "lock" /\ kind = "socket")
<1>1. pc' \in [Threads -> {"idle", "open", "look", "lock", "body", "leave",
                           "after", "drop", "cv", "woken", "held", "again",
                           "notify"}]
  BY DEF TypeOK, Goto
<1>2. \A u \in Threads : (Natively(u))' <=> u = t \/ Natively(u)
  BY DEF TypeOK, Goto
<1>3. native = {u \in Threads : Natively(u)}
  BY DEF TypeOK
<1>4. native' = {u \in Threads : (Natively(u))'}
  <2> HIDE DEF Natively
  <2> QED  BY <1>2, <1>3 DEF Enter
<1> QED  BY <1>1, <1>4 DEF TypeOK

\* What notify_all leaves of the threads' places, the notifier's being set.
LEMMA NotifiedAt ==
    ASSUME NEW t \in Threads, NEW l \in {"idle", "drop"},
           pc' = [Notified(pc) EXCEPT ![t] = l]
    PROVE  pc' = [u \in Threads |-> IF u = t THEN l
                                   ELSE IF pc[u] = "cv" THEN "woken" ELSE pc[u]]
  BY DEF Notified

\* Every step keeps the invariant; what matters is that only a call that has the
\* child, or removed the entry, gives up either.
LEMMA HandlesStep == IInv /\ [Next]_vars => IInv'
<1> SUFFICES ASSUME IInv, [Next]_vars  PROVE IInv'
  OBVIOUS
<1> USE HandlesAssumption
    DEF IInv, TypeOK, OpensAlone, Unmade, EntryGone, CallsHold, OpenWhileUsed,
        OneOwner, Arced, shared, child, gc, thread
<1>0. CASE UNCHANGED vars
  BY <1>0 DEF vars
<1>1. ASSUME NEW t \in Threads, NEW o \in Ops, Begin(t, o)  PROVE IInv'
  BY <1>1 DEF Begin, Ops, Goto, Say, Enter
<1>2. ASSUME NEW t \in Threads, Opened(t)  PROVE IInv'
  BY <1>2 DEF Opened, Goto
<1>3. ASSUME NEW t \in Threads, LeaveNative(t)  PROVE IInv'
  BY <1>3 DEF LeaveNative, Leave, Goto
<1>4. ASSUME NEW t \in Threads, Register(t)  PROVE IInv'
  BY <1>4 DEF Register, Answer, Goto, Say
<1>5. ASSUME NEW t \in Threads, Lookup(t)  PROVE IInv'
  BY <1>5 DEF Lookup, Answer, Goto, Say, Enter
<1>6. ASSUME NEW t \in Threads, LockHandle(t)  PROVE IInv'
  BY <1>6 DEF LockHandle, Goto, Enter
<1>7. ASSUME NEW t \in Threads, BodyUse(t)  PROVE IInv'
  BY <1>7 DEF BodyUse, Goto
<1>8. ASSUME NEW t \in Threads, EndUse(t)  PROVE IInv'
  <2>1. TypeOK'
    BY <1>8 DEF EndUse, DropArc, Answer, Goto, Say
  <2>2. (stop => gcs < MaxGC)'
    BY <1>8 DEF EndUse, DropArc, Answer, Goto, Say
  <2>3. (OpensAlone /\ Unmade)'
    BY <1>8 DEF EndUse, DropArc, Answer, Goto, Say
  <2>4. (EntryGone /\ CallsHold)'
    BY <1>8 DEF EndUse, DropArc, Answer, Goto, Say
  <2>5. OpenWhileUsed'
    BY <1>8 DEF EndUse, DropArc, Answer, Goto, Say
  <2>6. OneOwner'
    BY <1>8 DEF EndUse, DropArc, Answer, Goto, Say
  <2> QED  BY <2>1, <2>2, <2>3, <2>4, <2>5, <2>6
<1>9. ASSUME NEW t \in Threads, Close(t)  PROVE IInv'
  <2>1. TypeOK'
    <3>1. CASE reg
      <4>1. ({made, reg, osOpen, slot, status, waiting, exited, stop} \subseteq BOOLEAN)'
        BY <1>9, <3>1 DEF Close
      <4>2. arcs' \subseteq Threads
        BY <1>9, <3>1 DEF Close
      <4> HIDE DEF TypeOK
      <4> QED  BY <1>9, <3>1, <4>1, <4>2, EnterKeepsType DEF Close, TypeOK
    <3>2. CASE ~reg
      BY <1>9, <3>2 DEF Close, Answer, Goto, Say
    <3> QED  BY <3>1, <3>2
  <2>2. (stop => gcs < MaxGC)'
    BY <1>9 DEF Close, Answer, Goto, Say, Enter
  <2>3. (OpensAlone /\ Unmade)'
    BY <1>9 DEF Close, Answer, Goto, Say, Enter
  <2>4. (EntryGone /\ CallsHold)'
    BY <1>9 DEF Close, Answer, Goto, Say, Enter
  <2>5. OpenWhileUsed'
    BY <1>9 DEF Close, Answer, Goto, Say, Enter
  <2>6. OneOwner'
    BY <1>9 DEF Close, Answer, Goto, Say, Enter
  <2> QED  BY <2>1, <2>2, <2>3, <2>4, <2>5, <2>6
<1>10. ASSUME NEW t \in Threads, Drop(t)  PROVE IInv'
  BY <1>10 DEF Drop, DropArc, Goto
<1>11. ASSUME NEW t \in Threads, EndClose(t)  PROVE IInv'
  BY <1>11 DEF EndClose, Answer, Goto, Say
<1>12. CASE Exit
  BY <1>12 DEF Exit
<1>13. ASSUME NEW t \in Threads, ChildWait(t)  PROVE IInv'
  <2> DEFINE answers(a) == Answer(t, a) /\ UNCHANGED <<slot, waiting, has>>
  <2>1. /\ UNCHANGED <<kind, begun, op, made, shared, status, exited, gc>>
        /\ op[t] = "wait" /\ pc[t] \in {"look", "again"} /\ table' = NoOne
    BY <1>13 DEF ChildWait, InTable
  <2>2. CASE \E a \in {"unknown", "status", "ok", "busy"} : answers(a)
    BY <2>1, <2>2 DEF Answer, Goto, Say
  <2>3. CASE /\ Enter(t) /\ Goto(t, "cv")
             /\ UNCHANGED <<ans, slot, waiting, has>>
    BY <2>1, <2>3 DEF Enter, Goto
  <2>4. CASE /\ reg /\ slot /\ slot' = FALSE /\ waiting' = TRUE /\ has' = has \cup {t}
             /\ Enter(t) /\ Goto(t, "body") /\ UNCHANGED ans
    <3>1. has = {} /\ kind = "child" /\ made
      BY <2>1, <2>4
    <3>2. TypeOK' /\ (stop => gcs < MaxGC)'
      <4>1. ({made, reg, osOpen, slot, status, waiting, exited, stop} \subseteq BOOLEAN)'
        BY <2>1, <2>4
      <4>2. /\ arcs' \subseteq Threads /\ has' \subseteq Threads
            /\ table' \in Threads \cup {NoOne}
        BY <2>1, <2>4
      <4>3. TypeOK /\ UNCHANGED <<kind, begun, op, ans, mutex, gcs>>
        BY <2>1, <2>4
      <4>4. TypeOK'
        <5> HIDE DEF IInv, TypeOK
        <5> QED  BY <2>4, <4>1, <4>2, <4>3, EnterKeepsType
      <4> QED  BY <2>1, <4>4
    <3>3. (OpensAlone /\ Unmade /\ EntryGone)'
      BY <2>1, <2>4, <3>1 DEF Goto
    <3>4. (CallsHold /\ OpenWhileUsed)'
      BY <2>1, <2>4, <3>1 DEF Goto
    <3>5. OneOwner'
      BY <2>1, <2>4, <3>1
    <3> QED  BY <3>2, <3>3, <3>4, <3>5
  <2>5. reg => status \/ slot \/ waiting
    BY <2>1
  <2> QED  BY <1>13, <2>2, <2>3, <2>4, <2>5 DEF ChildWait
<1>14. ASSUME NEW t \in Threads, ChildKill(t)  PROVE IInv'
  <2> DEFINE answers(a) == Answer(t, a) /\ UNCHANGED <<slot, waiting, has>>
  <2>1. /\ UNCHANGED <<kind, begun, op, made, shared, status, exited, gc>>
        /\ op[t] = "kill" /\ pc[t] \in {"look", "again"} /\ table' = table
    BY <1>14 DEF ChildKill, InTable
  <2>2. CASE \E a \in {"unknown", "status", "ok", "busy"} : answers(a)
    BY <2>1, <2>2 DEF Answer, Goto, Say
  <2>4. CASE /\ reg /\ slot /\ slot' = FALSE /\ waiting' = TRUE /\ has' = has \cup {t}
             /\ Enter(t) /\ Goto(t, "body") /\ UNCHANGED ans
    <3>1. has = {} /\ kind = "child" /\ made
      BY <2>1, <2>4
    <3>2. TypeOK' /\ (stop => gcs < MaxGC)'
      <4>1. ({made, reg, osOpen, slot, status, waiting, exited, stop} \subseteq BOOLEAN)'
        BY <2>1, <2>4
      <4>2. /\ arcs' \subseteq Threads /\ has' \subseteq Threads
            /\ table' \in Threads \cup {NoOne}
        BY <2>1, <2>4
      <4>3. TypeOK /\ UNCHANGED <<kind, begun, op, ans, mutex, gcs>>
        BY <2>1, <2>4
      <4>4. TypeOK'
        <5> HIDE DEF IInv, TypeOK
        <5> QED  BY <2>4, <4>1, <4>2, <4>3, EnterKeepsType
      <4> QED  BY <2>1, <4>4
    <3>3. (OpensAlone /\ Unmade /\ EntryGone)'
      BY <2>1, <2>4, <3>1 DEF Goto
    <3>4. (CallsHold /\ OpenWhileUsed)'
      BY <2>1, <2>4, <3>1 DEF Goto
    <3>5. OneOwner'
      BY <2>1, <2>4, <3>1
    <3> QED  BY <3>2, <3>3, <3>4, <3>5
  <2>5. reg => status \/ slot \/ waiting
    BY <2>1
  <2> QED  BY <1>14, <2>2, <2>4, <2>5 DEF ChildKill
<1>15. ASSUME NEW t \in Threads, WaitDone(t)  PROVE IInv'
  BY <1>15 DEF WaitDone, Goto, Say
<1>16. ASSUME NEW t \in Threads, KillDone(t)  PROVE IInv'
  BY <1>16 DEF KillDone, Goto, Say
<1>17. ASSUME NEW t \in Threads, ChildFails(t)  PROVE IInv'
  BY <1>17 DEF ChildFails, Goto, Say
<1>18. ASSUME NEW t \in Threads, ChildBack(t)  PROVE IInv'
  <2>1. t \in has /\ has = {t} /\ kind = "child"
    BY <1>18 DEF ChildBack
  <2>2. /\ UNCHANGED <<kind, begun, op, ans, made, shared, exited, gc>>
        /\ pc[t] = "after" /\ op[t] \in {"wait", "kill"}
    BY <1>18 DEF ChildBack
  <2>3. CASE reg
    <3>1. /\ pc' = [u \in Threads |-> IF u = t THEN "idle"
                      ELSE IF pc[u] = "cv" THEN "woken" ELSE pc[u]]
          /\ PutBack(t) /\ UNCHANGED <<native, table>>
      <4>1. /\ pc' = [Notified(pc) EXCEPT ![t] = "idle"]
            /\ PutBack(t) /\ UNCHANGED <<native, table>>
        BY <1>18, <2>3 DEF ChildBack
      <4> QED  BY <4>1, NotifiedAt, Zenon
    <3>2. (TypeOK /\ (stop => gcs < MaxGC))'
      <4>1. pc' \in [Threads -> {"idle", "open", "look", "lock", "body", "leave",
                                 "after", "drop", "cv", "woken", "held", "again",
                                 "notify"}]
        BY <3>1
      <4>2. native' = {u \in Threads :
                          \/ pc'[u] \in {"open", "body", "leave", "drop", "cv",
                                         "woken", "held"}
                          \/ pc'[u] = "lock" /\ kind' = "socket"}
        BY <2>2, <3>1
      <4>3. ({made, reg, osOpen, slot, status, waiting, exited, stop} \subseteq BOOLEAN)'
        BY <2>2, <3>1 DEF PutBack
      <4> QED  BY <2>2, <3>1, <4>1, <4>2, <4>3 DEF PutBack
    <3>3. (OpensAlone /\ Unmade)'
      BY <2>1, <2>2, <2>3, <3>1 DEF PutBack
    <3>4. (EntryGone /\ CallsHold)'
      BY <2>1, <2>2, <2>3, <3>1 DEF PutBack
    <3>5. (OpenWhileUsed /\ OneOwner)'
      BY <2>1, <2>2, <2>3, <3>1 DEF PutBack
    <3> QED  BY <3>2, <3>3, <3>4, <3>5
  <2>4. CASE ~reg
    <3>1. /\ pc' = [u \in Threads |-> IF u = t THEN "drop"
                      ELSE IF pc[u] = "cv" THEN "woken" ELSE pc[u]]
          /\ table' = t /\ Enter(t) /\ UNCHANGED <<slot, status, waiting, has>>
      <4>1. /\ pc' = [Notified(pc) EXCEPT ![t] = "drop"]
            /\ table' = t /\ Enter(t) /\ UNCHANGED <<slot, status, waiting, has>>
        BY <1>18, <2>4 DEF ChildBack
      <4> QED  BY <4>1, NotifiedAt, Zenon
    <3> QED  BY <2>1, <2>2, <2>4, <3>1 DEF Enter
  <2> QED  BY <2>3, <2>4
<1>19. ASSUME NEW t \in Threads, ChildRelease(t)  PROVE IInv'
  <2>1. TypeOK'
    <3>1. /\ pc' = [pc EXCEPT ![t] = "notify"] /\ pc[t] = "look" /\ kind = "child"
          /\ UNCHANGED <<kind, begun, op, native, made, osOpen, arcs, mutex, status,
                        waiting, table, exited, gc>>
      BY <1>19 DEF ChildRelease, Goto
    <3>2. reg' = FALSE /\ slot' = FALSE /\ has' \subseteq Threads
      BY <1>19 DEF ChildRelease
    <3>3. ans' = [ans EXCEPT ![t] = "ok"] \/ ans' = [ans EXCEPT ![t] = "unknown"]
      BY <1>19 DEF ChildRelease, Say
    <3>4. pc' \in [Threads -> {"idle", "open", "look", "lock", "body", "leave",
                               "after", "drop", "cv", "woken", "held", "again",
                               "notify"}]
      BY <3>1
    <3>5. native' = {u \in Threads :
                        \/ pc'[u] \in {"open", "body", "leave", "drop", "cv", "woken",
                                       "held"}
                        \/ pc'[u] = "lock" /\ kind' = "socket"}
      BY <3>1
    <3>6. ans' \in [Threads -> {"none", "ok", "error", "invalid", "unknown",
                                "status", "busy", "nolive"}]
      BY <3>3
    <3>7. ({made, reg, osOpen, slot, status, waiting, exited, stop} \subseteq BOOLEAN)'
      BY <3>1, <3>2
    <3> QED  BY <3>1, <3>2, <3>4, <3>5, <3>6, <3>7
  <2>2. (stop => gcs < MaxGC)'
    BY <1>19 DEF ChildRelease, Goto, Say
  <2>3. (OpensAlone /\ Unmade)'
    BY <1>19 DEF ChildRelease, Goto, Say
  <2>4. (EntryGone /\ CallsHold)'
    BY <1>19 DEF ChildRelease, Goto, Say
  <2>5. OpenWhileUsed'
    BY <1>19 DEF ChildRelease, Goto, Say
  <2>6. OneOwner'
    BY <1>19 DEF ChildRelease, Goto, Say
  <2> QED  BY <2>1, <2>2, <2>3, <2>4, <2>5, <2>6
<1>20. ASSUME NEW t \in Threads, ReleaseNotify(t)  PROVE IInv'
  <2>1. /\ UNCHANGED <<kind, begun, op, ans, made, shared, child, exited, gc>>
        /\ pc[t] = "notify"
    BY <1>20 DEF ReleaseNotify
  <2>2. CASE ans[t] = "ok"
    <3>1. /\ pc' = [u \in Threads |-> IF u = t THEN "drop"
                      ELSE IF pc[u] = "cv" THEN "woken" ELSE pc[u]]
          /\ Enter(t)
      <4>1. pc' = [Notified(pc) EXCEPT ![t] = "drop"] /\ Enter(t)
        BY <1>20, <2>2 DEF ReleaseNotify
      <4> QED  BY <4>1, NotifiedAt, Zenon
    <3> QED  BY <2>1, <3>1 DEF Enter
  <2>3. CASE ans[t] # "ok"
    <3>0. pc' = [Notified(pc) EXCEPT ![t] = "idle"] /\ UNCHANGED native
      BY <1>20, <2>3 DEF ReleaseNotify
    <3>1. /\ pc' = [u \in Threads |-> IF u = t THEN "idle"
                      ELSE IF pc[u] = "cv" THEN "woken" ELSE pc[u]]
          /\ UNCHANGED native
      BY <3>0, NotifiedAt, Zenon
    <3> QED  BY <2>1, <3>1
  <2> QED  BY <2>2, <2>3
<1>21. ASSUME NEW t \in Threads, DropChild(t)  PROVE IInv'
  BY <1>21 DEF DropChild, Goto
<1>22. ASSUME NEW t \in Threads, Spurious(t)  PROVE IInv'
  BY <1>22 DEF Spurious, Goto
<1>23. ASSUME NEW t \in Threads, Relock(t)  PROVE IInv'
  BY <1>23 DEF Relock, Goto
<1>24. ASSUME NEW t \in Threads, LeaveHeld(t)  PROVE IInv'
  BY <1>24 DEF LeaveHeld, Leave, Goto
<1>25. CASE RequestGC
  BY <1>25 DEF RequestGC
<1>26. CASE Collect
  <2>1. gcs' \in 0 .. MaxGC /\ stop' = FALSE
    BY <1>26 DEF Collect
  <2>2. UNCHANGED <<kind, begun, thread, made, shared, child, exited>>
    BY <1>26 DEF Collect
  <2>3. TypeOK'
    <3>1. ({made, reg, osOpen, slot, status, waiting, exited, stop} \subseteq BOOLEAN)'
      BY <2>1, <2>2
    <3> QED  BY <2>1, <2>2, <3>1
  <2> QED  BY <2>1, <2>2, <2>3
<1> HIDE DEF IInv
<1> QED
  BY <1>0, <1>1, <1>2, <1>3, <1>4, <1>5, <1>6, <1>7, <1>8, <1>9, <1>10, <1>11,
     <1>12, <1>13, <1>14, <1>15, <1>16, <1>17, <1>18, <1>19, <1>20, <1>21,
     <1>22, <1>23, <1>24, <1>25, <1>26
     DEF Next, Step

\* It is inductive.
LEMMA HandlesInvariant == Spec => []IInv
  BY HandlesInit, HandlesStep, PTL DEF Spec

\* Whichever calls cross, a file or socket is open exactly while the registry or
\* a call refers to it.
THEOREM ObjectStaysOpen == Spec => []OpenWhileUsed
<1>1. IInv => OpenWhileUsed
  BY DEF IInv
<1> QED  BY <1>1, HandlesInvariant, PTL

\* Whichever calls cross, a child belongs to its entry or to one call, and no
\* call finds an entry that has lost it.
THEOREM ChildHasOneOwner == Spec => []ChildOwned
<1>1. IInv => ChildOwned
  <2> SUFFICES ASSUME IInv  PROVE ChildOwned
    OBVIOUS
  <2>1. Cardinality(has) <= 1
    <3>1. CASE has = {}
      BY <3>1, FS_EmptySet
    <3>2. CASE has # {}
      <4>1. PICK t : has = {t}
        BY <3>2 DEF IInv, OneOwner
      <4> QED  BY <4>1, FS_Singleton
    <3> QED  BY <3>1, <3>2
  <2> QED  BY <2>1 DEF IInv, OneOwner, ChildOwned
<1> QED  BY <1>1, HandlesInvariant, PTL

-----------------------------------------------------------------------------
(* Nobody sleeps on the condition variable without a call that will notify.*)

\* While the entry is there, the child that is out of it is with a wait or a
\* kill that has yet to put it back.
HoldersWork ==
    reg => \A t \in has : /\ op[t] \in {"wait", "kill"}
                          /\ pc[t] \in {"body", "leave", "after"}

\* After notify_all nobody sleeps, and nobody else has moved.
LEMMA NotifiedWakes ==
    ASSUME NEW t \in Threads, NEW l \in {"idle", "drop"},
           pc' = [Notified(pc) EXCEPT ![t] = l]
    PROVE  \A u \in Threads : /\ pc'[u] # "cv"
                              /\ u = t \/ pc'[u] = pc[u] \/ pc[u] = "cv"
  BY DEF Notified

\* A call goes to sleep only on seeing `waiting`, set by the call that has the
\* child; that call, or the release that removes the entry, notifies everybody.
LEMMA ToldStep ==
    IInv /\ HoldersWork /\ SleeperIsTold /\ [Next]_vars => HoldersWork' /\ SleeperIsTold'
<1> SUFFICES ASSUME IInv, HoldersWork, SleeperIsTold, [Next]_vars
             PROVE  HoldersWork' /\ SleeperIsTold'
  OBVIOUS
<1> USE HandlesAssumption
    DEF IInv, TypeOK, OpensAlone, Unmade, EntryGone, CallsHold, OneOwner,
        HoldersWork, SleeperIsTold, shared, child, gc, thread
<1>0. CASE UNCHANGED vars
  BY <1>0 DEF vars
<1>1. ASSUME NEW t \in Threads, NEW o \in Ops, Begin(t, o)
      PROVE  HoldersWork' /\ SleeperIsTold'
  BY <1>1 DEF Begin, Goto, Say, Enter
<1>2. ASSUME NEW t \in Threads, Opened(t)  PROVE HoldersWork' /\ SleeperIsTold'
  BY <1>2 DEF Opened, Goto
<1>3. ASSUME NEW t \in Threads, LeaveNative(t)  PROVE HoldersWork' /\ SleeperIsTold'
  BY <1>3 DEF LeaveNative, Leave, Goto
<1>4. ASSUME NEW t \in Threads, Register(t)  PROVE HoldersWork' /\ SleeperIsTold'
  BY <1>4 DEF Register, Answer, Goto, Say
<1>5. ASSUME NEW t \in Threads, Lookup(t)  PROVE HoldersWork' /\ SleeperIsTold'
  BY <1>5 DEF Lookup, Answer, Goto, Say, Enter
<1>6. ASSUME NEW t \in Threads, LockHandle(t)  PROVE HoldersWork' /\ SleeperIsTold'
  BY <1>6 DEF LockHandle, Goto, Enter
<1>7. ASSUME NEW t \in Threads, BodyUse(t)  PROVE HoldersWork' /\ SleeperIsTold'
  BY <1>7 DEF BodyUse, Goto
<1>8. ASSUME NEW t \in Threads, EndUse(t)  PROVE HoldersWork' /\ SleeperIsTold'
  BY <1>8 DEF EndUse, DropArc, Answer, Goto, Say
<1>9. ASSUME NEW t \in Threads, Close(t)  PROVE HoldersWork' /\ SleeperIsTold'
  BY <1>9 DEF Close, Answer, Goto, Say, Enter
<1>10. ASSUME NEW t \in Threads, Drop(t)  PROVE HoldersWork' /\ SleeperIsTold'
  BY <1>10 DEF Drop, DropArc, Goto
<1>11. ASSUME NEW t \in Threads, EndClose(t)  PROVE HoldersWork' /\ SleeperIsTold'
  BY <1>11 DEF EndClose, Answer, Goto, Say
<1>12. ASSUME NEW t \in Threads, ChildWait(t)  PROVE HoldersWork' /\ SleeperIsTold'
  <2>1. /\ UNCHANGED <<op, reg, status>>
        /\ op[t] = "wait" /\ pc[t] \in {"look", "again"}
    BY <1>12 DEF ChildWait, InTable
  <2>2. CASE Goto(t, "idle") /\ UNCHANGED has
    BY <2>1, <2>2 DEF Goto
  <2>3. CASE reg /\ waiting /\ Goto(t, "cv") /\ UNCHANGED has
    BY <2>1, <2>3 DEF Goto
  <2>4. CASE has' = has \cup {t} /\ Goto(t, "body")
    BY <2>1, <2>4 DEF Goto
  <2> QED  BY <1>12, <2>2, <2>3, <2>4 DEF ChildWait, Answer
<1>13. ASSUME NEW t \in Threads, ChildKill(t)  PROVE HoldersWork' /\ SleeperIsTold'
  <2>1. /\ UNCHANGED <<op, reg, status>>
        /\ op[t] = "kill" /\ pc[t] \in {"look", "again"}
    BY <1>13 DEF ChildKill, InTable
  <2>2. CASE Goto(t, "idle") /\ UNCHANGED has
    BY <2>1, <2>2 DEF Goto
  <2>4. CASE has' = has \cup {t} /\ Goto(t, "body")
    BY <2>1, <2>4 DEF Goto
  <2> QED  BY <1>13, <2>2, <2>4 DEF ChildKill, Answer
<1>14. ASSUME NEW t \in Threads, WaitDone(t)  PROVE HoldersWork' /\ SleeperIsTold'
  BY <1>14 DEF WaitDone, Goto, Say
<1>15. ASSUME NEW t \in Threads, KillDone(t)  PROVE HoldersWork' /\ SleeperIsTold'
  BY <1>15 DEF KillDone, Goto, Say
<1>16. ASSUME NEW t \in Threads, ChildFails(t)  PROVE HoldersWork' /\ SleeperIsTold'
  BY <1>16 DEF ChildFails, Goto, Say
<1>17. ASSUME NEW t \in Threads, ChildBack(t)  PROVE HoldersWork' /\ SleeperIsTold'
  <2>1. \E l \in {"idle", "drop"} : pc' = [Notified(pc) EXCEPT ![t] = l]
    BY <1>17 DEF ChildBack
  <2>2. \A u \in Threads : pc'[u] # "cv" /\ (u = t \/ pc'[u] = pc[u] \/ pc[u] = "cv")
    BY <2>1, NotifiedWakes
  <2>3. UNCHANGED <<op, reg>> /\ (reg => has' = has \ {t})
    BY <1>17 DEF ChildBack, PutBack
  <2> QED  BY <2>2, <2>3
<1>18. ASSUME NEW t \in Threads, ChildRelease(t)  PROVE HoldersWork' /\ SleeperIsTold'
  BY <1>18 DEF ChildRelease, Goto, Say
<1>19. ASSUME NEW t \in Threads, ReleaseNotify(t)  PROVE HoldersWork' /\ SleeperIsTold'
  <2>1. \E l \in {"idle", "drop"} : pc' = [Notified(pc) EXCEPT ![t] = l]
    BY <1>19 DEF ReleaseNotify
  <2>2. \A u \in Threads : pc'[u] # "cv"
    BY <2>1, NotifiedWakes
  <2>3. ~reg /\ UNCHANGED reg
    BY <1>19 DEF ReleaseNotify
  <2> QED  BY <2>2, <2>3
<1>20. ASSUME NEW t \in Threads, DropChild(t)  PROVE HoldersWork' /\ SleeperIsTold'
  BY <1>20 DEF DropChild, Goto
<1>21. ASSUME NEW t \in Threads, Spurious(t)  PROVE HoldersWork' /\ SleeperIsTold'
  BY <1>21 DEF Spurious, Goto
<1>22. ASSUME NEW t \in Threads, Relock(t)  PROVE HoldersWork' /\ SleeperIsTold'
  BY <1>22 DEF Relock, Goto
<1>23. ASSUME NEW t \in Threads, LeaveHeld(t)  PROVE HoldersWork' /\ SleeperIsTold'
  BY <1>23 DEF LeaveHeld, Leave, Goto
<1>24. CASE Exit
  BY <1>24 DEF Exit
<1>25. CASE RequestGC
  BY <1>25 DEF RequestGC
<1>26. CASE Collect
  BY <1>26 DEF Collect
<1> HIDE DEF IInv, HoldersWork, SleeperIsTold
<1> QED
  BY <1>0, <1>1, <1>2, <1>3, <1>4, <1>5, <1>6, <1>7, <1>8, <1>9, <1>10,
     <1>11, <1>12, <1>13, <1>14, <1>15, <1>16, <1>17, <1>18, <1>19, <1>20,
     <1>21, <1>22, <1>23, <1>24, <1>25, <1>26
     DEF Next, Step

\* Whoever waits for a child that another call waits for or kills is notified,
\* also when that call fails or the handle is released meanwhile.
THEOREM SleepersAreTold == Spec => []SleeperIsTold
<1>1. Init => HoldersWork /\ SleeperIsTold
  BY DEF Init, HoldersWork, SleeperIsTold
<1> QED  BY <1>1, ToldStep, HandlesInvariant, PTL DEF Spec
=============================================================================
