------------------------------- MODULE GcHeap -------------------------------
(***************************************************************************)
(* The managed heap (crates/runtime/src/gc.rs, gc_alloc.rs): the slab      *)
(* allocator with its per-thread caches, the object registry and the       *)
(* per-thread allocation logs, the mark-sweep collection with its          *)
(* finalizer queue, and the @RefCounted strong counts kept by generated    *)
(* code (crates/backend/src/gen_struct.rs, gen_hir.rs).                    *)
(*                                                                         *)
(* A collection is one step: GcWorld shows that the collector works alone. *)
(* An object is a block with one pointer field.  Generated code of any     *)
(* thread runs between the steps of the others, and inside drop bodies.    *)
(***************************************************************************)
EXTENDS Integers, Sequences, FiniteSets, SequencesExt

CONSTANTS Threads,
          Kinds,       \* types of objects the program allocates
          RcKinds,     \* @RefCounted structs
          DropKinds,   \* types with a Drop impl
          HolderKinds, \* List, Map, ...: traced slots without the rc trailer
          Chunk,       \* TLAB_CHUNK, in blocks
          Batch,       \* REFILL_BATCH
          MaxBlocks,   \* bound on the blocks carved from the slabs
          MaxAllocs,   \* bound on the allocations
          MaxGcs,      \* bound on the collections
          MaxCount,    \* bound on the counts, which a list slot only ever raises
          Null, NoOne

Blocks == 1 .. MaxBlocks

ASSUME HeapAssumption ==
    /\ IsFiniteSet(Threads) /\ Kinds # {}
    /\ RcKinds \subseteq Kinds /\ DropKinds \subseteq Kinds
    /\ HolderKinds \subseteq Kinds \ RcKinds
    /\ Chunk \in Nat \ {0} /\ Batch \in Nat \ {0}
    /\ MaxBlocks \in Nat /\ MaxAllocs \in Nat /\ MaxGcs \in Nat /\ MaxCount \in Nat
    /\ Null \notin Blocks /\ NoOne \notin Threads

VARIABLES
    \* gc_alloc.rs
    carved,    \* GlobalAlloc.cursor: blocks carved into chunks
    gfree,     \* GlobalAlloc.free, one size class
    lfree,     \* LocalCache.free of each thread
    tlab,      \* LocalCache.cursor .. end of each thread
    \* the objects
    used,      \* blocks that hold an object
    kind,      \* header.desc
    field,     \* the pointer field
    count,     \* the strong-count word
    \* gc.rs
    objects,   \* Heap.objects
    log,       \* Mutator.alloc_log
    pending,   \* FINALIZE_PENDING
    turn,      \* the thread that holds GC_TURN to run finalizers
    \* generated code
    alive,     \* threads that have not exited
    refs,      \* bindings of the code each thread runs
    stack,     \* drops, finalizer loops and field stores a thread is inside of,
               \* each with the bindings of the code it interrupts
    \* bounds and histories
    allocs, gcs,
    drops,     \* drop bodies run on the object in this block
    loose,     \* objects that a list slot or an abandoned frame retained for good
    tame,      \* no drop body handed out an object being destroyed
    apart      \* nothing kept for the finalizers named another object they free

slabs == <<carved, gfree, lfree, tlab>>
gcvars == <<objects, log, pending, turn>>
bounds == <<allocs, gcs>>
vars == <<slabs, used, kind, field, count, gcvars, alive, refs, stack, bounds, drops, loose, tame, apart>>

Init ==
    /\ carved = 0 /\ gfree = <<>>
    /\ lfree = [t \in Threads |-> <<>>]
    /\ tlab = [t \in Threads |-> {}]
    /\ used = {}
    /\ kind = [b \in Blocks |-> CHOOSE k \in Kinds : TRUE]
    /\ field = [b \in Blocks |-> Null]
    /\ count = [b \in Blocks |-> 0]
    /\ objects = {} /\ pending = {} /\ turn = NoOne
    /\ log = [t \in Threads |-> {}]
    /\ alive = Threads
    /\ refs = [t \in Threads |-> {}]
    /\ stack = [t \in Threads |-> <<>>]
    /\ allocs = 0 /\ gcs = 0
    /\ drops = [b \in Blocks |-> 0]
    /\ loose = {} /\ tame = TRUE /\ apart = TRUE

-----------------------------------------------------------------------------
(* What generated code on a thread may do now, and what it can name.       *)

Rc(x)      == x # Null /\ kind[x] \in RcKinds
Counted(o) == kind[o] \notin HolderKinds   \* desc_rc_offsets lists the field

Top(t)    == Last(stack[t])
At(t, pc) == stack[t] # <<>> /\ Top(t).pc = pc

\* The thread runs generated code: the program's, or a drop body.
InCode(t) == t \in alive /\ (stack[t] = <<>> \/ At(t, "drop"))
Self(t)   == IF At(t, "drop") THEN {Top(t).obj} ELSE {}
Frames(t) == {stack[t][i] : i \in DOMAIN stack[t]}
AllFrames == UNION {Frames(t) : t \in Threads}
Writes(t) == {f.obj : f \in {g \in Frames(t) : g.pc = "store"}}

\* What its code can name.  The program has no data races on fields: an object
\* that another thread is writing to is left alone.
Visible(t) == (refs[t] \cup Self(t)) \ UNION {Writes(u) : u \in Threads \ {t}}

\* Objects whose destruction has begun, by the count or by the finalizer.
Dying == {f.obj : f \in {g \in AllFrames : g.pc \in {"drop", "kids", "free"}}}

-----------------------------------------------------------------------------
(* The allocator.                                                          *)

\* What refill leaves in the thread's cache: a batch of recycled blocks, or
\* a fresh chunk.
Refill(t) ==
    LET n == IF Len(gfree) < Batch THEN Len(gfree) ELSE Batch
    IN  IF lfree[t] # <<>> \/ tlab[t] # {}
        THEN [lf |-> lfree[t], tl |-> tlab[t], gf |-> gfree, cv |-> carved]
        ELSE IF gfree # <<>>
        THEN [lf |-> SubSeq(gfree, Len(gfree) - n + 1, Len(gfree)), tl |-> {},
              gf |-> SubSeq(gfree, 1, Len(gfree) - n), cv |-> carved]
        ELSE [lf |-> <<>>, tl |-> (carved + 1) .. (carved + Chunk),
              gf |-> gfree, cv |-> carved + Chunk]

\* gc_alloc::alloc: a recycled block of this thread, else its bump region.
Block(t) ==
    LET c == Refill(t)
    IN  IF c.lf # <<>> THEN Last(c.lf) ELSE CHOOSE b \in c.tl : \A d \in c.tl : b <= d

\* Mutation: the batch is copied into the local list and stays in the global.
TakeBlock_CopyBatch(t) ==
    LET c == Refill(t)
    IN  /\ carved' = c.cv /\ gfree' = gfree
        /\ lfree' = [lfree EXCEPT ![t] = IF c.lf # <<>> THEN Front(c.lf) ELSE <<>>]
        /\ tlab' = [tlab EXCEPT ![t] = IF c.lf # <<>> THEN c.tl ELSE c.tl \ {Block(t)}]

TakeBlock(t) ==
    LET c == Refill(t)
    IN  /\ carved' = c.cv /\ gfree' = c.gf
        /\ lfree' = [lfree EXCEPT ![t] = IF c.lf # <<>> THEN Front(c.lf) ELSE <<>>]
        /\ tlab' = [tlab EXCEPT ![t] = IF c.lf # <<>> THEN c.tl ELSE c.tl \ {Block(t)}]

\* gc_alloc::free: always back to the global list.
FreeBlock(b) ==
    /\ gfree' = Append(gfree, b)
    /\ used' = used \ {b}
    /\ UNCHANGED <<carved, lfree, tlab>>

\* alloc_raw: the block is zeroed and gets its header; a @RefCounted object is
\* registered globally, any other one in the thread's own log.
Alloc(t, k) ==
    LET b == Block(t)
    IN  /\ InCode(t)
        /\ allocs < MaxAllocs /\ Refill(t).cv <= MaxBlocks
        /\ TakeBlock(t)
        /\ used' = used \cup {b}
        /\ kind' = [kind EXCEPT ![b] = k]
        /\ field' = [field EXCEPT ![b] = Null]
        /\ count' = [count EXCEPT ![b] = IF k \in RcKinds THEN 1 ELSE 0]
        /\ IF k \in RcKinds
           THEN objects' = objects \cup {b} /\ UNCHANGED log
           ELSE log' = [log EXCEPT ![t] = @ \cup {b}] /\ UNCHANGED objects
        /\ refs' = [refs EXCEPT ![t] = @ \cup {b}]
        /\ allocs' = allocs + 1
        /\ drops' = [drops EXCEPT ![b] = 0]
        /\ loose' = loose \ {b}
        /\ UNCHANGED <<pending, turn, alive, stack, gcs, tame, apart>>

-----------------------------------------------------------------------------
(* Strong counts, and the generated code that keeps them.                  *)

Retained(c, x) == IF Rc(x) THEN [c EXCEPT ![x] = @ + 1] ELSE c

Frm(pc, obj, val, gc, outer) ==
    [pc |-> pc, obj |-> obj, val |-> val, gc |-> gc, outer |-> outer]

\* lang_rc_release by thread t, whose stack is stk and whose bindings are rs:
\* the last reference starts rc_finalize.
Release(t, x, c, stk, rs) ==
    LET last == Rc(x) /\ c[x] = 1
        pc   == IF Rc(x) /\ kind[x] \in DropKinds THEN "drop" ELSE "kids"
    IN  /\ count' = IF Rc(x) /\ c[x] > 0 THEN [c EXCEPT ![x] = @ - 1] ELSE c
        /\ stack' = [stack EXCEPT ![t] =
               IF last THEN Append(stk, Frm(pc, x, Null, FALSE, rs)) ELSE stk]
        /\ refs' = [refs EXCEPT ![t] = IF last THEN {} ELSE rs]

\* A binding of another object's field: var x = o.f, or a list element.
Load(t, o) ==
    LET x == field[o]
    IN  /\ InCode(t) /\ o \in Visible(t)
        /\ x # Null /\ x \notin refs[t]
        /\ refs' = [refs EXCEPT ![t] = @ \cup {x}]
        /\ count' = Retained(count, x)
        /\ tame' = (tame /\ x \notin Dying)
        /\ UNCHANGED <<slabs, used, kind, field, gcvars, alive, stack, bounds, drops, loose, apart>>

\* Another thread gets a binding: a captured or received value.
Share(t, u, x) ==
    /\ InCode(t) /\ InCode(u) /\ u # t
    /\ x \in refs[t] \ refs[u]
    /\ refs' = [refs EXCEPT ![u] = @ \cup {x}]
    /\ count' = Retained(count, x)
    /\ UNCHANGED <<slabs, used, kind, field, gcvars, alive, stack, bounds, drops, loose, tame, apart>>

\* The binding ends: reassigned, or its function returns.
Unbind(t, x) ==
    /\ InCode(t) /\ x \in refs[t]
    /\ Release(t, x, count, stack[t], refs[t] \ {x})
    /\ UNCHANGED <<slabs, used, kind, field, gcvars, alive, bounds, drops, loose, tame, apart>>

\* o.f = x: retain the new value, release the old one, then write.  When that
\* destroys the old value the field is written after its drop (Reclaim).  A
\* list or map slot retains and never releases.
Store(t, o, x) ==
    LET old  == IF Counted(o) THEN field[o] ELSE Null
        c    == Retained(count, x)
        last == Rc(old) /\ c[old] = 1
    IN  /\ InCode(t) /\ o \in Visible(t)
        /\ x \in refs[t] \cup Self(t) \cup {Null} /\ x # field[o]
        /\ Rc(x) => count[x] < MaxCount
        /\ Release(t, old, c,
               IF last THEN Append(stack[t], Frm("store", o, x, FALSE, {})) ELSE stack[t],
               refs[t])
        /\ field' = IF last THEN field ELSE [field EXCEPT ![o] = x]
        /\ loose' = IF Counted(o) THEN loose ELSE loose \cup ({x} \ {Null})
        /\ tame' = (tame /\ {x, field[o]} \cap Dying = {})
        /\ UNCHANGED <<slabs, used, kind, gcvars, alive, bounds, drops, apart>>

\* rc_finalize after drop, whose own bindings have ended: release the owned
\* references, which may destroy the child first.
ReleaseKids(t) ==
    LET f    == Top(t)
        stk  == Append(Front(stack[t]), [f EXCEPT !.pc = "free"])
        kid  == IF Counted(f.obj) THEN field[f.obj] ELSE Null
    IN  /\ At(t, "drop") \/ At(t, "kids")
        /\ ~f.gc /\ refs[t] = {}
        /\ drops' = [drops EXCEPT ![f.obj] = IF f.pc = "drop" THEN @ + 1 ELSE @]
        /\ Release(t, kid, count, stk, {})
        /\ UNCHANGED <<slabs, used, kind, field, gcvars, alive, bounds, loose, tame, apart>>

\* rc_finalize's end: unregister, unpin and free, if it was registered; the
\* store that dropped the last reference now writes its field.
Reclaim(t) ==
    LET x   == Top(t).obj
        stk == Front(stack[t])
        st  == stk # <<>> /\ Last(stk).pc = "store"
    IN  /\ At(t, "free")
        /\ objects' = objects \ {x}
        /\ stack' = [stack EXCEPT ![t] = IF st THEN Front(stk) ELSE stk]
        /\ field' = IF st THEN [field EXCEPT ![Last(stk).obj] = Last(stk).val] ELSE field
        /\ refs' = [refs EXCEPT ![t] = Top(t).outer]
        /\ IF x \in objects THEN FreeBlock(x) ELSE UNCHANGED <<slabs, used>>
        /\ UNCHANGED <<kind, count, log, pending, turn, alive, bounds, drops, loose, tame, apart>>

-----------------------------------------------------------------------------
(* A collection, and the finalizers it leaves to run.                      *)

\* mark_reachable from the blocks in S, through registered objects: the least
\* set that has the roots and what its members' fields name.
Reach(S, bases) ==
    LET Closed(C) == /\ S \cap bases \subseteq C
                     /\ \A b \in C : field[b] \in bases => field[b] \in C
    IN  {b \in bases : \A C \in SUBSET bases : Closed(C) => b \in C}

\* Mutation: rc_finalize does not pin its object.
ExtraRoots_None == {}

\* EXTRA_ROOTS: rc_finalize pins its object for the whole destruction.
ExtraRoots == {f.obj : f \in {g \in AllFrames : g.pc \in {"drop", "kids", "free"} /\ ~g.gc}}

\* The roots of a stopped world: bindings, the operands of stores, the pins
\* and the finalizer queue.
StackRoots == (UNION {refs[t] : t \in Threads}) \cup (UNION {f.outer : f \in AllFrames})
              \cup (UNION {{f.obj, f.val} : f \in {g \in AllFrames : g.pc = "store"}})
Roots == StackRoots \cup ExtraRoots \cup pending

\* drain_alloc_logs_into: every object the collector knows of.
Registered == objects \cup UNION {log[u] : u \in Threads}

Marked == Reach(Roots, Registered \cup pending)
Newly  == {b \in Registered \ Marked : kind[b] \in DropKinds}
Kept   == Marked \cup Reach(Newly, Registered \cup pending)
ToFree == Registered \ Kept

\* Mutation: the counts of survivors are left alone.
Swept_NoDecrement == count

\* The sweep's rc_dec_no_free: a dying object's references to survivors.
Swept ==
    [x \in Blocks |->
        LET n == Cardinality({b \in ToFree : Counted(b) /\ field[b] = x})
        IN  IF Rc(x) /\ x \notin ToFree
            THEN IF count[x] >= n THEN count[x] - n ELSE 0
            ELSE count[x]]

\* Something kept only for the finalizers refers to another object they free.
Entangled == \E b \in Kept \ Marked : field[b] \in Newly \ {b}

\* maybe_collect, run_collection and collect, with the world stopped: nobody
\* else holds the turn.  Finalizers run afterwards under the turn.
Collect(t) ==
    /\ InCode(t) /\ turn = NoOne
    /\ gcs < MaxGcs
    /\ gcs' = gcs + 1
    /\ log' = [u \in Threads |-> {}]
    /\ objects' = (Registered \cap Kept) \ Newly
    /\ pending' = pending \cup Newly
    /\ count' = Swept
    /\ gfree' = gfree \o SetToSeq(ToFree)
    /\ used' = used \ ToFree
    /\ apart' = (apart /\ ~Entangled)
    /\ IF pending' # {}
       THEN /\ turn' = t
            /\ stack' = [stack EXCEPT ![t] =
                   Append(@, Frm("loop", Null, Null, TRUE, {}))]
       ELSE UNCHANGED <<turn, stack>>
    /\ UNCHANGED <<carved, lfree, tlab, kind, field, alive, refs, allocs, drops, loose, tame>>

\* run_finalizers takes the next object and calls its drop.
RunFinalizer(t) ==
    /\ At(t, "loop")
    /\ \E x \in pending :
        /\ pending' = pending \ {x}
        /\ stack' = [stack EXCEPT ![t] =
               Append(@, Frm("drop", x, Null, TRUE, refs[t]))]
    /\ refs' = [refs EXCEPT ![t] = {}]
    /\ UNCHANGED <<slabs, used, kind, field, count, objects, log, turn, alive, bounds, drops, loose, tame, apart>>

\* The queue is empty: the turn is released.
FinalizersDone(t) ==
    /\ At(t, "loop") /\ pending = {}
    /\ stack' = [stack EXCEPT ![t] = Front(@)]
    /\ turn' = NoOne
    /\ UNCHANGED <<slabs, used, kind, field, count, objects, log, pending, alive, refs, bounds, drops, loose, tame, apart>>

\* Mutation: the finalized object is queued for the next collection, too.
FinalizerEnd_Again(t) ==
    LET x == Top(t).obj
        y == field[x]
    IN  /\ At(t, "drop") /\ Top(t).gc /\ refs[t] = {}
        /\ drops' = [drops EXCEPT ![x] = @ + 1]
        /\ count' = IF Rc(y) /\ Counted(x) /\ y \in objects /\ count[y] > 0
                    THEN [count EXCEPT ![y] = @ - 1] ELSE count
        /\ FreeBlock(x)
        /\ objects' = objects \cup {x}
        /\ stack' = [stack EXCEPT ![t] = Front(@)]
        /\ refs' = [refs EXCEPT ![t] = Top(t).outer]
        /\ UNCHANGED <<kind, field, log, pending, turn, alive, bounds, loose, tame, apart>>

\* drop has returned: a registered child loses one count, without the zero
\* transition, and the object is freed.
FinalizerEnd(t) ==
    LET x == Top(t).obj
        y == field[x]
    IN  /\ At(t, "drop") /\ Top(t).gc /\ refs[t] = {}
        /\ drops' = [drops EXCEPT ![x] = @ + 1]
        /\ count' = IF Rc(y) /\ Counted(x) /\ y \in objects /\ count[y] > 0
                    THEN [count EXCEPT ![y] = @ - 1] ELSE count
        /\ FreeBlock(x)
        /\ stack' = [stack EXCEPT ![t] = Front(@)]
        /\ refs' = [refs EXCEPT ![t] = Top(t).outer]
        /\ UNCHANGED <<kind, field, gcvars, alive, bounds, loose, tame, apart>>

\* The thread exits, or its worker body panics and its frames are abandoned:
\* no release runs.  MutatorHandle's drop hands its log over, LocalCache's
\* drop its recycled blocks; the tail of the chunk is lost.
Exit(t) ==
    /\ t \in alive /\ stack[t] = <<>>
    /\ alive' = alive \ {t}
    /\ refs' = [refs EXCEPT ![t] = {}]
    /\ objects' = objects \cup log[t]
    /\ log' = [log EXCEPT ![t] = {}]
    /\ loose' = loose \cup refs[t]
    /\ gfree' = gfree \o lfree[t]
    /\ lfree' = [lfree EXCEPT ![t] = <<>>]
    /\ tlab' = [tlab EXCEPT ![t] = {}]
    /\ UNCHANGED <<carved, used, kind, field, count, pending, turn, stack, bounds, drops, tame, apart>>

-----------------------------------------------------------------------------
Next ==
    \E t \in Threads :
        \/ \E k \in Kinds : Alloc(t, k)
        \/ \E o \in Blocks : Load(t, o)
        \/ \E u \in Threads, x \in Blocks : Share(t, u, x)
        \/ \E x \in Blocks : Unbind(t, x)
        \/ \E o \in Blocks, x \in Blocks \cup {Null} : Store(t, o, x)
        \/ ReleaseKids(t) \/ Reclaim(t)
        \/ Collect(t) \/ RunFinalizer(t) \/ FinalizersDone(t) \/ FinalizerEnd(t)
        \/ Exit(t)

Spec == Init /\ [][Next]_vars

-----------------------------------------------------------------------------
(* Properties.                                                             *)

Frame == [pc : {"drop", "kids", "free", "store", "loop"},
          obj : Blocks \cup {Null}, val : Blocks \cup {Null}, gc : BOOLEAN,
          outer : SUBSET Blocks]

\* Allocator, registry and threads have their types; the turn is held exactly
\* by the thread inside run_finalizers.
TypeOK ==
    /\ carved \in 0 .. MaxBlocks
    /\ gfree \in Seq(Blocks) /\ lfree \in [Threads -> Seq(Blocks)]
    /\ tlab \in [Threads -> SUBSET Blocks]
    /\ used \subseteq Blocks
    /\ kind \in [Blocks -> Kinds] /\ field \in [Blocks -> Blocks \cup {Null}]
    /\ count \in [Blocks -> Nat]
    /\ objects \subseteq Blocks /\ log \in [Threads -> SUBSET Blocks]
    /\ pending \subseteq Blocks
    /\ turn \in Threads \cup {NoOne}
    /\ alive \subseteq Threads /\ refs \in [Threads -> SUBSET Blocks]
    /\ stack \in [Threads -> Seq(Frame)]
    /\ \A t \in Threads : (\E f \in Frames(t) : f.pc = "loop") <=> turn = t
    /\ drops \in [Blocks -> Nat] /\ loose \subseteq Blocks /\ tame \in BOOLEAN /\ apart \in BOOLEAN

Recycled == Range(gfree) \cup UNION {Range(lfree[t]) : t \in Threads}
Cache(t) == Range(lfree[t]) \cup tlab[t]

\* A block is free in one list at most, and never while it holds an object: no
\* path of the sweep, the finalizer loop, rc_finalize and a thread's exit frees
\* a block twice or hands one out twice, whatever drop bodies do.
BlocksApart ==
    /\ IsInjective(gfree) /\ Range(gfree) \cap used = {}
    /\ \A t \in Threads :
        /\ IsInjective(lfree[t]) /\ Range(lfree[t]) \cap tlab[t] = {}
        /\ Cache(t) \cap (used \cup Range(gfree)) = {}
        /\ \A u \in Threads \ {t} : Cache(t) \cap Cache(u) = {}

\* What the code's guarantees rest on.
Clean == tame /\ apart

\* Nothing generated code can reach is freed: from the bindings of all threads,
\* the operands of a store, and the objects that running or pending drops are
\* given.  An object whose drop has returned is not looked into any more.
NoDangling ==
    Clean =>
        LET Objs(pc) == {f.obj : f \in {g \in AllFrames : g.pc = pc}}
            roots == (StackRoots \cup Objs("drop") \cup pending) \ {Null}
        IN  Reach(roots, Blocks \ Objs("free")) \subseteq used

\* References to x that somebody will release: bindings, values on their way
\* into a field, and fields whose release has not happened yet.
Owners(x) ==
    Cardinality({t \in Threads : x \in refs[t]})
    + Cardinality({f \in AllFrames : x \in f.outer})
    + Cardinality({f \in AllFrames : f.pc = "store" /\ f.val = x})
    + Cardinality({o \in used : /\ field[o] = x
                                /\ ~ \E f \in AllFrames : f.pc \in {"free", "store"} /\ f.obj = o})

\* The strong count covers all references to the object, so a release to zero is
\* the last one; it is exact, so the drop is not late, unless the object went
\* into a list or a thread died with a binding of it.
CountsExact ==
    Clean =>
        \A x \in used \ Dying :
            Rc(x) => /\ count[x] >= Owners(x)
                     /\ x \notin loose => count[x] = Owners(x)

\* drop runs once on an object before its block is free, whoever destroys it.
DropOnce ==
    Clean =>
        /\ \A b \in Blocks : drops[b] <= 1
        /\ \A b \in Recycled : kind[b] \in DropKinds => drops[b] = 1

\* A value is never freed while a binding still names it, as long as no drop body
\* hands out the object it is given.
HeldAlive == tame => \A t \in Threads : refs[t] \subseteq used
=============================================================================
