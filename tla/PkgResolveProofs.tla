-------------------------- MODULE PkgResolveProofs --------------------------
(***************************************************************************)
(* The package manager: a directory of the store is complete or not there  *)
(* at all, and a finished resolution is closed.  Both for any packages,    *)
(* any uploads and any number of commands.                                 *)
(***************************************************************************)
EXTENDS PkgResolve, SequenceTheorems, TLAPS

-----------------------------------------------------------------------------
(* The inductive invariant.                                                *)

EntryFields == {"name", "ver", "deps", "features", "sum", "yanked"}

\* No dependency of an index entry is named twice.
Once(e) == \A i, j \in DOMAIN e.deps : e.deps[i].name = e.deps[j].name => i = j

Entries == \A e \in index : DOMAIN e = EntryFields /\ Once(e)

Pinning == pc \in {"download", "extract", "unpack", "rename", "pin"}
Fetched == pc \in {"extract", "unpack", "rename", "pin"}

\* The package being pinned is an entry of the index, as it was when it was read.
Chose == Pinning => EntryFields \subseteq DOMAIN picked /\ Once(picked)

\* What is extracted was verified; what is renamed into place is complete.
StoreInv ==
    /\ DOMAIN trees = Sums /\ DOMAIN tmp = Sums
    /\ Fetched => picked.bytes = picked.sum
    /\ pc = "rename" /\ Sum \in Sums => tmp[Sum] = [state |-> "full", bytes |-> Sum]
    /\ TreesComplete

RunFields == {"existing", "stack", "pending", "reqs", "features", "processed",
              "resolved", "edges", "named", "repicked"}

\* The root, a directory or a git repository.
Foreign(id) == id.kind # "registry"

IsFrame(f) == DOMAIN f = {"parent", "m", "requested", "deps"} /\ Foreign(f.parent)

\* Only manifests are seeded; an index entry is pinned in one step.
Stacked == \E S : run.stack \in Seq(S) /\ \A f \in S : IsFrame(f)

\* The enabled dependencies of the entry e of the package id are named, asked
\* for, and asked for the features they should have.
Led(r, id, e, requested) ==
    \A i \in DOMAIN e.deps : Enabled(e, requested, e.deps[i]) =>
       LET d == e.deps[i]
           c == ReqKey(d, IF d.reg = 0 THEN id.reg ELSE d.reg)
       IN  /\ <<id, d.name>> \in DOMAIN r.named /\ r.named[<<id, d.name>>] = c
           /\ c \in DOMAIN r.reqs
           /\ FeaturesFor(e, requested, d) \subseteq At(r.features, c)

\* Edges lead to packages that are resolved or asked for.
EdgesLead(r) == \A e \in r.edges : e[2] \in DOMAIN r.resolved \cup DOMAIN r.reqs

\* The worklist is about registry packages, and these are recorded only when
\* they are processed.
Listed(r) ==
    /\ \A id \in DOMAIN r.reqs \cup r.pending \cup DOMAIN r.processed : ~Foreign(id)
    /\ \A id \in DOMAIN r.resolved : ~Foreign(id) => id \in DOMAIN r.processed

\* What was processed stays good for the features it was processed with, whatever
\* is recorded later.
StillGood(r) ==
    \A id \in DOMAIN r.processed :
       id \in DOMAIN r.resolved /\ Led(r, id, r.resolved[id].entry, r.processed[id])

RunInv(r) == DOMAIN r = RunFields /\ EdgesLead(r) /\ Listed(r) /\ StillGood(r)

IInv == Entries /\ Chose /\ StoreInv /\ Stacked /\ RunInv(run)

-----------------------------------------------------------------------------
(* The maps of a run.                                                      *)

\* BTreeMap::insert.
LEMMA Inserted ==
    ASSUME NEW f, NEW k, NEW v
    PROVE  /\ DOMAIN Insert(f, k, v) = DOMAIN f \cup {k} /\ Insert(f, k, v)[k] = v
           /\ \A x \in DOMAIN f : x # k => Insert(f, k, v)[x] = f[x]
  BY DEF Insert

\* What recording dependencies leaves alone.
LEMMA EnrolledSame ==
    ASSUME NEW r, DOMAIN r = RunFields, NEW parent, NEW p, NEW requested, NEW to
    PROVE  LET n == Enrolled(r, parent, p, requested, to)
           IN  /\ DOMAIN n = RunFields
               /\ n.existing = r.existing /\ n.stack = r.stack /\ n.pending = r.pending
               /\ n.processed = r.processed /\ n.resolved = r.resolved
  BY DEF Enrolled, RunFields

\* What recording dependencies adds.
LEMMA EnrolledMaps ==
    ASSUME NEW r, DOMAIN r = RunFields, NEW parent, NEW p, NEW requested, NEW to
    PROVE  LET n == Enrolled(r, parent, p, requested, to)
           IN  /\ n.edges = r.edges \cup {<<parent, id>> : id \in {to[d] : d \in DOMAIN to}}
               /\ DOMAIN n.reqs = DOMAIN r.reqs \cup {i \in {to[d] : d \in DOMAIN to} : i.kind = "registry"}
               /\ \A id, nm : id # parent /\ <<id, nm>> \in DOMAIN r.named =>
                    <<id, nm>> \in DOMAIN n.named /\ n.named[<<id, nm>>] = r.named[<<id, nm>>]
               /\ \A x : At(r.features, x) \subseteq At(n.features, x)
               /\ \A d \in DOMAIN to : FeaturesFor(p, requested, d) \subseteq At(n.features, to[d])
<1> DEFINE n    == Enrolled(r, parent, p, requested, to)
           Ids  == {to[d] : d \in DOMAIN to}
           On(id) == {d \in DOMAIN to : to[d] = id}
           Keys == {<<parent, d.name>> : d \in DOMAIN to}
<1>1. n.edges = r.edges \cup {<<parent, id>> : id \in Ids}
  BY DEF Enrolled, RunFields
<1>2. n.reqs = [id \in DOMAIN r.reqs \cup {i \in Ids : i.kind = "registry"} |->
                  At(r.reqs, id) \cup {d.req : d \in On(id)}]
  BY DEF Enrolled, RunFields
<1>3. n.named = [k \in DOMAIN r.named \cup Keys |->
                   IF k \in Keys THEN to[CHOOSE d \in DOMAIN to : <<parent, d.name>> = k] ELSE r.named[k]]
  BY DEF Enrolled, RunFields
<1>4. n.features = [id \in DOMAIN r.features \cup Ids |->
                      At(r.features, id) \cup UNION {FeaturesFor(p, requested, d) : d \in On(id)}]
  BY DEF Enrolled, RunFields
<1> HIDE DEF n
<1>5. \A id, nm : id # parent /\ <<id, nm>> \in DOMAIN r.named =>
         <<id, nm>> \in DOMAIN n.named /\ n.named[<<id, nm>>] = r.named[<<id, nm>>]
  BY <1>3
<1>6. \A x : At(r.features, x) \subseteq At(n.features, x)
  <2> HIDE DEF On, Ids
  <2> SUFFICES ASSUME NEW x, x \in DOMAIN r.features  PROVE At(r.features, x) \subseteq At(n.features, x)
    BY DEF At
  <2> QED  BY <1>4 DEF At
<1>7. \A d \in DOMAIN to : FeaturesFor(p, requested, d) \subseteq At(n.features, to[d])
  <2> SUFFICES ASSUME NEW d \in DOMAIN to  PROVE FeaturesFor(p, requested, d) \subseteq At(n.features, to[d])
    OBVIOUS
  <2>1. to[d] \in Ids /\ d \in On(to[d])
    OBVIOUS
  <2> HIDE DEF On, Ids
  <2>2. n.features[to[d]] = At(r.features, to[d]) \cup UNION {FeaturesFor(p, requested, c) : c \in On(to[d])}
        /\ to[d] \in DOMAIN n.features
    BY <1>4, <2>1
  <2> QED  BY <2>1, <2>2 DEF At
<1> QED  BY <1>1, <1>2, <1>5, <1>6, <1>7 DEF n

\* Dependencies with names of their own are recorded each under its name.
LEMMA EnrolledNames ==
    ASSUME NEW r, DOMAIN r = RunFields, NEW parent, NEW p, NEW requested, NEW to,
           \A d, c \in DOMAIN to : d.name = c.name => d = c
    PROVE  LET n == Enrolled(r, parent, p, requested, to)
           IN  \A d \in DOMAIN to : /\ <<parent, d.name>> \in DOMAIN n.named
                                    /\ n.named[<<parent, d.name>>] = to[d]
<1> DEFINE n    == Enrolled(r, parent, p, requested, to)
           Keys == {<<parent, d.name>> : d \in DOMAIN to}
<1>1. n.named = [k \in DOMAIN r.named \cup Keys |->
                   IF k \in Keys THEN to[CHOOSE d \in DOMAIN to : <<parent, d.name>> = k] ELSE r.named[k]]
  BY DEF Enrolled, RunFields
<1> HIDE DEF n
<1> SUFFICES ASSUME NEW d \in DOMAIN to
             PROVE  <<parent, d.name>> \in DOMAIN n.named /\ n.named[<<parent, d.name>>] = to[d]
  BY DEF n
<1>2. (CHOOSE c \in DOMAIN to : <<parent, c.name>> = <<parent, d.name>>) = d
  <2>1. d \in DOMAIN to /\ <<parent, d.name>> = <<parent, d.name>>
    OBVIOUS
  <2> DEFINE c == CHOOSE c \in DOMAIN to : <<parent, c.name>> = <<parent, d.name>>
  <2>2. c \in DOMAIN to /\ <<parent, c.name>> = <<parent, d.name>>
    BY <2>1
  <2> QED  BY <2>2
<1> QED  BY <1>1, <1>2

\* What was led to before stays led to, except by the parent.
LEMMA LedKept ==
    ASSUME NEW r, DOMAIN r = RunFields, NEW parent, NEW p, NEW requested, NEW to,
           NEW id, id # parent, NEW e, NEW asked, Led(r, id, e, asked)
    PROVE  Led(Enrolled(r, parent, p, requested, to), id, e, asked)
<1> DEFINE n == Enrolled(r, parent, p, requested, to)
<1>0. /\ n.edges = r.edges \cup {<<parent, x>> : x \in {to[d] : d \in DOMAIN to}}
      /\ DOMAIN n.reqs = DOMAIN r.reqs \cup {i \in {to[d] : d \in DOMAIN to} : i.kind = "registry"}
      /\ \A x, nm : x # parent /\ <<x, nm>> \in DOMAIN r.named =>
           <<x, nm>> \in DOMAIN n.named /\ n.named[<<x, nm>>] = r.named[<<x, nm>>]
      /\ \A x : At(r.features, x) \subseteq At(n.features, x)
      /\ \A d \in DOMAIN to : FeaturesFor(p, requested, d) \subseteq At(n.features, to[d])
  BY EnrolledMaps, Zenon
<1> HIDE DEF n
<1>1. /\ DOMAIN r.reqs \subseteq DOMAIN n.reqs
      /\ \A nm : <<id, nm>> \in DOMAIN r.named =>
            <<id, nm>> \in DOMAIN n.named /\ n.named[<<id, nm>>] = r.named[<<id, nm>>]
      /\ \A x : At(r.features, x) \subseteq At(n.features, x)
  BY <1>0
<1>2. Led(n, id, e, asked)
  BY <1>1 DEF Led
<1> QED  BY <1>2 DEF n

-----------------------------------------------------------------------------
(* Seeding.                                                                *)

\* Which dependencies lead to registry packages.
LEMMA Kinds ==
    /\ \A d : Foreign(DepId(d)) <=> d.kind # "registry"
    /\ \A d, reg : ~Foreign(ReqKey(d, reg))
    /\ Foreign(RootId)
  BY DEF Foreign, DepId, ReqKey, Id, RootId

\* A run is as good as another that has the same maps.
LEMMA SameMaps ==
    ASSUME NEW r, NEW v, RunInv(r), DOMAIN v = RunFields,
           v.edges = r.edges, v.reqs = r.reqs, v.features = r.features, v.named = r.named,
           v.resolved = r.resolved, v.processed = r.processed,
           \A id \in v.pending : ~Foreign(id)
    PROVE  RunInv(v)
<1>1. EdgesLead(v)
  BY DEF RunInv, EdgesLead
<1>2. Listed(v)
  BY DEF RunInv, Listed
<1>3. StillGood(v)
  <2> SUFFICES ASSUME NEW id \in DOMAIN r.processed
               PROVE  /\ id \in DOMAIN r.resolved
                      /\ Led(v, id, r.resolved[id].entry, r.processed[id])
    BY DEF StillGood
  <2>1. /\ id \in DOMAIN r.resolved
        /\ Led(r, id, r.resolved[id].entry, r.processed[id])
    BY DEF RunInv, StillGood
  <2> QED  BY <2>1 DEF Led
<1> QED  BY <1>1, <1>2, <1>3 DEF RunInv

\* A manifest's dependency is recorded, and what it leads to resolved or asked for.
LEMMA DependGood ==
    ASSUME NEW r, RunInv(r), NEW parent, Foreign(parent), NEW p, NEW requested, NEW d, NEW id,
           NEW v, DOMAIN v = RunFields,
           v.pending = r.pending, v.processed = r.processed,
           v.edges = Depend(r, parent, p, requested, d, id).edges,
           v.reqs = Depend(r, parent, p, requested, d, id).reqs,
           v.named = Depend(r, parent, p, requested, d, id).named,
           v.features = Depend(r, parent, p, requested, d, id).features,
           DOMAIN r.resolved \subseteq DOMAIN v.resolved,
           \A x \in DOMAIN r.resolved : ~Foreign(x) => v.resolved[x] = r.resolved[x],
           \A x \in DOMAIN v.resolved : x \in DOMAIN r.resolved \/ Foreign(x),
           Foreign(id) => id \in DOMAIN v.resolved
    PROVE  RunInv(v)
<1> DEFINE to == [x \in {d} |-> id]
           n  == Enrolled(r, parent, p, requested, to)
<1>0. DOMAIN r = RunFields
  BY DEF RunInv
<1>1. /\ v.edges = n.edges /\ v.reqs = n.reqs /\ v.named = n.named /\ v.features = n.features
  BY Zenon DEF Depend
<1>3. /\ v.edges = r.edges \cup {<<parent, id>>}
      /\ DOMAIN v.reqs = DOMAIN r.reqs \cup {i \in {id} : i.kind = "registry"}
  <2>1. DOMAIN to = {d} /\ {to[c] : c \in DOMAIN to} = {id}
    OBVIOUS
  <2>2. n.edges = r.edges \cup {<<parent, x>> : x \in {to[c] : c \in DOMAIN to}}
    BY <1>0 DEF Enrolled, RunFields
  <2>3. DOMAIN n.reqs = DOMAIN r.reqs \cup {i \in {to[c] : c \in DOMAIN to} : i.kind = "registry"}
    BY <1>0 DEF Enrolled, RunFields
  <2> HIDE DEF n, to
  <2>4. {<<parent, x>> : x \in {id}} = {<<parent, id>>}
    OBVIOUS
  <2> QED  BY <1>1, <2>1, <2>2, <2>3, <2>4
<1> HIDE DEF n, to
<1>4. EdgesLead(v)
  BY <1>3 DEF RunInv, EdgesLead, Foreign
<1>5. Listed(v)
  <2>1. \A x \in DOMAIN v.reqs : x \in DOMAIN r.reqs \/ ~Foreign(x)
    BY <1>3 DEF Foreign
  <2> QED  BY <2>1 DEF RunInv, Listed
<1>6. StillGood(v)
  <2> SUFFICES ASSUME NEW x \in DOMAIN r.processed
               PROVE  x \in DOMAIN v.resolved /\ Led(v, x, v.resolved[x].entry, v.processed[x])
    BY DEF StillGood
  <2>1. ~Foreign(x) /\ x \in DOMAIN r.resolved /\ Led(r, x, r.resolved[x].entry, r.processed[x])
    BY DEF RunInv, Listed, StillGood
  <2>2. Led(n, x, r.resolved[x].entry, r.processed[x])
    BY <1>0, <2>1, LedKept DEF n
  <2>3. Led(v, x, r.resolved[x].entry, r.processed[x])
    BY <1>1, <2>2 DEF Led
  <2> QED  BY <2>1, <2>3
<1> QED  BY <1>4, <1>5, <1>6 DEF RunInv

\* The frame of the manifest being seeded.
LEMMA TopFrame ==
    ASSUME NEW S, run.stack \in Seq(S), \A f \in S : IsFrame(f), run.stack # <<>>
    PROVE  /\ Len(run.stack) \in DOMAIN run.stack /\ Top \in S /\ Foreign(Top.parent)
           /\ DOMAIN Top = {"parent", "m", "requested", "deps"}
<1>1. Len(run.stack) \in 1 .. Len(run.stack) /\ DOMAIN run.stack = 1 .. Len(run.stack)
  OBVIOUS
<1> QED  BY <1>1 DEF Top, IsFrame

\* Taking a dependency off the manifest's list changes nothing else.
LEMMA Popped ==
    ASSUME DOMAIN run = RunFields, Stacked, run.stack # <<>>
    PROVE  LET r == PopDep(run)
           IN  /\ DOMAIN r = RunFields /\ r.pending = run.pending /\ r.processed = run.processed
               /\ r.edges = run.edges /\ r.reqs = run.reqs /\ r.named = run.named
               /\ r.features = run.features /\ r.resolved = run.resolved
               /\ \E S : r.stack \in Seq(S) /\ \A f \in S : IsFrame(f)
<1> DEFINE r == PopDep(run)
           g == [Top EXCEPT !.deps = Tail(@)]
<1>1. /\ DOMAIN r = RunFields /\ r.pending = run.pending /\ r.processed = run.processed
      /\ r.edges = run.edges /\ r.reqs = run.reqs /\ r.named = run.named
      /\ r.features = run.features /\ r.resolved = run.resolved
  BY DEF PopDep, RunFields
<1>2. r.stack = [run.stack EXCEPT ![Len(run.stack)] = g]
  BY DEF PopDep, RunFields, Top
<1>3. PICK S : run.stack \in Seq(S) /\ \A f \in S : IsFrame(f)
  BY DEF Stacked
<1>4. IsFrame(g)
  <2>1. Foreign(Top.parent) /\ DOMAIN Top = {"parent", "m", "requested", "deps"}
    BY <1>3, TopFrame
  <2> QED  BY <2>1 DEF IsFrame
<1> HIDE DEF r, g
<1>5. r.stack \in Seq(S \cup {g}) /\ \A f \in S \cup {g} : IsFrame(f)
  <2>1. run.stack \in Seq(S \cup {g})
    BY <1>3
  <2> QED  BY <1>2, <1>3, <1>4, <2>1
<1>6. \E Q : r.stack \in Seq(Q) /\ \A f \in Q : IsFrame(f)
  BY <1>5
<1> QED  BY <1>1, <1>6 DEF r

\* A step outside the pinning of a package touches neither the store nor the index.
LEMMA StoreQuiet ==
    ASSUME IInv, pc' \notin {"download", "extract", "unpack", "rename", "pin"},
           UNCHANGED <<index, trees, tmp>>
    PROVE  Entries' /\ Chose' /\ StoreInv'
  BY DEF IInv, Entries, Chose, Pinning, StoreInv, Fetched, TreesComplete, Sum

\* The run of a resolver that has not started is good.
LEMMA EmptyGood == RunInv(EmptyRun)
<1>1. /\ DOMAIN EmptyRun = RunFields /\ EmptyRun.edges = {} /\ EmptyRun.pending = {}
      /\ DOMAIN EmptyRun.reqs = {} /\ DOMAIN EmptyRun.processed = {} /\ DOMAIN EmptyRun.resolved = {}
  BY DEF EmptyRun, RunFields
<1> QED  BY <1>1 DEF RunInv, EdgesLead, Listed, StillGood

\* A command that ends, for whatever reason, forgets its run.
LEMMA Forgotten ==
    ASSUME IInv, pc' = "idle", run' = EmptyRun, UNCHANGED <<index, trees, tmp>>
    PROVE  IInv'
<1>1. Entries' /\ Chose' /\ StoreInv'
  BY StoreQuiet
<1>2. run'.stack = <<>>
  BY DEF EmptyRun
<1>3. <<>> \in Seq({})
  OBVIOUS
<1>4. Stacked'
  BY <1>2, <1>3 DEF Stacked
<1>5. RunInv(run')
  BY EmptyGood
<1> QED  BY <1>1, <1>4, <1>5 DEF IInv

\* A command that fails.
LEMMA GoodFail == IInv /\ Fail => IInv'
  BY Forgotten DEF Fail, server

\* A command starts with the features of the root package and its manifest.
LEMMA GoodStart ==
    ASSUME IInv, NEW c, Start(c)
    PROVE  IInv'
<1> DEFINE r == [EmptyRun EXCEPT !.existing = Existing(c), !.features = [x \in {RootId} |-> {"default"}]]
           f == Frame(RootId, manifest, {"default"})
<1>1. /\ UNCHANGED <<index, trees, tmp, picked>>
      /\ \/ pc' = "seed" /\ run' = [r EXCEPT !.stack = <<f>>]
         \/ UNCHANGED <<pc, run>>
  BY DEF Start, server
<1>2. CASE pc' = "seed" /\ run' = [r EXCEPT !.stack = <<f>>]
  <2>1. Entries' /\ Chose' /\ StoreInv'
    BY <1>1, <1>2, StoreQuiet
  <2>2. RunInv(EmptyRun) /\ DOMAIN EmptyRun = RunFields
    BY EmptyGood DEF RunInv
  <2>3. /\ DOMAIN run' = RunFields /\ run'.stack = <<f>> /\ run'.edges = EmptyRun.edges
        /\ run'.pending = {} /\ run'.reqs = <<>> /\ run'.processed = <<>> /\ run'.resolved = <<>>
    BY <1>2 DEF EmptyRun, RunFields
  <2>4. run'.edges = {} /\ DOMAIN run'.reqs = {} /\ DOMAIN run'.processed = {} /\ DOMAIN run'.resolved = {}
    BY <2>3 DEF EmptyRun
  <2>5. RunInv(run')
    BY <2>3, <2>4 DEF RunInv, EdgesLead, Listed, StillGood
  <2>6. IsFrame(f)
    BY Kinds DEF IsFrame, Frame
  <2>7. run'.stack \in Seq({f}) /\ \A g \in {f} : IsFrame(g)
    BY <2>3, <2>6
  <2>8. Stacked'
    BY <2>7 DEF Stacked
  <2> QED  BY <2>1, <2>5, <2>8 DEF IInv
<1>3. CASE UNCHANGED <<pc, run>>
  BY <1>1, <1>3 DEF IInv, Entries, Chose, Pinning, StoreInv, Fetched, TreesComplete, Sum, Stacked
<1> QED  BY <1>1, <1>2, <1>3

\* seed() returns to the manifest that led to this one.
LEMMA GoodSeedDone == IInv /\ SeedDone => IInv'
<1> SUFFICES ASSUME IInv, SeedDone  PROVE IInv'
  OBVIOUS
<1>1. /\ run' = [run EXCEPT !.stack = SubSeq(@, 1, Len(@) - 1)] /\ pc' \in {"run", "seed"}
      /\ UNCHANGED <<index, trees, tmp>>
  BY DEF SeedDone, Local, server
<1>2. Entries' /\ Chose' /\ StoreInv'
  BY <1>1, StoreQuiet
<1>3. DOMAIN run = RunFields /\ RunInv(run)
  BY DEF IInv, RunInv
<1>4. /\ DOMAIN run' = RunFields /\ run'.pending = run.pending /\ run'.processed = run.processed
      /\ run'.edges = run.edges /\ run'.reqs = run.reqs /\ run'.named = run.named
      /\ run'.features = run.features /\ run'.resolved = run.resolved
      /\ run'.stack = SubSeq(run.stack, 1, Len(run.stack) - 1)
  BY <1>1, <1>3 DEF RunFields
<1>5. RunInv(run')
  <2>1. \A id \in run'.pending : ~Foreign(id)
    BY <1>3, <1>4 DEF RunInv, Listed
  <2> QED  BY <1>3, <1>4, <2>1, SameMaps
<1>6. Stacked'
  <2>1. PICK S : run.stack \in Seq(S) /\ \A f \in S : IsFrame(f)
    BY DEF IInv, Stacked
  <2>2. SubSeq(run.stack, 1, Len(run.stack) - 1) \in Seq(S)
    <3>1. Len(run.stack) \in Nat
      BY <2>1
    <3>2. CASE Len(run.stack) = 0
      BY <2>1, <3>2
    <3>3. CASE Len(run.stack) # 0
      <4>1. 1 \in 1 .. Len(run.stack) + 1 /\ Len(run.stack) - 1 \in 1 - 1 .. Len(run.stack)
        BY <3>1, <3>3
      <4> QED  BY <2>1, <4>1, SubSeqProperties
    <3> QED  BY <3>2, <3>3
  <2> QED  BY <1>4, <2>1, <2>2 DEF Stacked
<1> QED  BY <1>2, <1>5, <1>6 DEF IInv

\* An optional dependency that nobody enables.
LEMMA GoodSeedSkip == IInv /\ SeedSkip => IInv'
<1> SUFFICES ASSUME IInv, SeedSkip  PROVE IInv'
  OBVIOUS
<1>1. /\ run' = PopDep(run) /\ pc' = "seed" /\ run.stack # <<>>
      /\ UNCHANGED <<index, trees, tmp>>
  BY DEF SeedSkip, Seeding, Local, server
<1>2. Entries' /\ Chose' /\ StoreInv'
  BY <1>1, StoreQuiet
<1>3. DOMAIN run = RunFields /\ RunInv(run) /\ Stacked
  BY DEF IInv, RunInv
<1> DEFINE v == PopDep(run)
<1>4. /\ DOMAIN v = RunFields /\ v.pending = run.pending /\ v.processed = run.processed
      /\ v.edges = run.edges /\ v.reqs = run.reqs /\ v.named = run.named
      /\ v.features = run.features /\ v.resolved = run.resolved
      /\ \E S : v.stack \in Seq(S) /\ \A f \in S : IsFrame(f)
  BY <1>1, <1>3, Popped
<1> HIDE DEF v
<1>5. RunInv(v)
  <2>1. \A id \in v.pending : ~Foreign(id)
    BY <1>3, <1>4 DEF RunInv, Listed
  <2> QED  BY <1>3, <1>4, <2>1, SameMaps
<1>6. run' = v
  BY <1>1 DEF v
<1>7. Stacked' /\ RunInv(run')
  BY <1>4, <1>5, <1>6 DEF Stacked
<1> QED  BY <1>2, <1>7 DEF IInv

\* The run with one dependency taken off the list.
LEMMA PoppedGood ==
    ASSUME IInv, run.stack # <<>>
    PROVE  /\ RunInv(PopDep(run)) /\ PopDep(run).resolved = run.resolved
           /\ Foreign(Top.parent)
           /\ \E S : PopDep(run).stack \in Seq(S) /\ \A f \in S : IsFrame(f)
<1>3. DOMAIN run = RunFields /\ RunInv(run) /\ Stacked
  BY DEF IInv, RunInv
<1> DEFINE v == PopDep(run)
<1>4. /\ DOMAIN v = RunFields /\ v.pending = run.pending /\ v.processed = run.processed
      /\ v.edges = run.edges /\ v.reqs = run.reqs /\ v.named = run.named
      /\ v.features = run.features /\ v.resolved = run.resolved
      /\ \E S : v.stack \in Seq(S) /\ \A f \in S : IsFrame(f)
  BY <1>3, Popped
<1>5. Foreign(Top.parent)
  BY <1>3, TopFrame DEF Stacked
<1> HIDE DEF v
<1>6. RunInv(v)
  <2>1. \A id \in v.pending : ~Foreign(id)
    BY <1>3, <1>4 DEF RunInv, Listed
  <2> QED  BY <1>3, <1>4, <2>1, SameMaps
<1> QED  BY <1>4, <1>5, <1>6 DEF v

\* What recording a dependency of a manifest leaves alone.
LEMMA SeededSame ==
    ASSUME IInv, run.stack # <<>>
    PROVE  /\ DOMAIN Seeded = RunFields /\ Seeded.resolved = run.resolved
           /\ Seeded.pending = PopDep(run).pending /\ Seeded.processed = PopDep(run).processed
           /\ Seeded.stack = PopDep(run).stack
<1>1. DOMAIN PopDep(run) = RunFields /\ PopDep(run).resolved = run.resolved
  BY PoppedGood DEF RunInv
<1> DEFINE r  == PopDep(run)
           to == [x \in {Dep} |-> DepId(Dep)]
<1>2. Seeded = Enrolled(r, Top.parent, Top.m, Top.requested, to)
  BY DEF Seeded, Depend
<1> HIDE DEF r, to
<1>3. /\ DOMAIN Seeded = RunFields /\ Seeded.stack = r.stack /\ Seeded.pending = r.pending
      /\ Seeded.processed = r.processed /\ Seeded.resolved = r.resolved
  BY <1>1, <1>2, EnrolledSame DEF r
<1> QED  BY <1>1, <1>3 DEF r

\* A dependency of a manifest is recorded, and its package with it if it is new.
LEMMA SeededGood ==
    ASSUME IInv, run.stack # <<>>, NEW v, DOMAIN v = RunFields,
           v.pending = Seeded.pending, v.processed = Seeded.processed, v.edges = Seeded.edges,
           v.reqs = Seeded.reqs, v.named = Seeded.named, v.features = Seeded.features,
           \/ v.resolved = run.resolved /\ (Dep.kind # "registry" => DepId(Dep) \in DOMAIN run.resolved)
           \/ Dep.kind # "registry" /\ \E x : v.resolved = Insert(run.resolved, DepId(Dep), x)
    PROVE  RunInv(v)
<1> DEFINE r == PopDep(run)
<1>1. RunInv(r) /\ r.resolved = run.resolved /\ Foreign(Top.parent)
  BY PoppedGood
<1>2. v.pending = r.pending /\ v.processed = r.processed
  BY SeededSame
<1>3. /\ v.edges = Depend(r, Top.parent, Top.m, Top.requested, Dep, DepId(Dep)).edges
      /\ v.reqs = Depend(r, Top.parent, Top.m, Top.requested, Dep, DepId(Dep)).reqs
      /\ v.named = Depend(r, Top.parent, Top.m, Top.requested, Dep, DepId(Dep)).named
      /\ v.features = Depend(r, Top.parent, Top.m, Top.requested, Dep, DepId(Dep)).features
  BY DEF Seeded
<1> HIDE DEF r
<1>4. /\ DOMAIN r.resolved \subseteq DOMAIN v.resolved
      /\ \A x \in DOMAIN r.resolved : ~Foreign(x) => v.resolved[x] = r.resolved[x]
      /\ \A x \in DOMAIN v.resolved : x \in DOMAIN r.resolved \/ Foreign(x)
      /\ Foreign(DepId(Dep)) => DepId(Dep) \in DOMAIN v.resolved
  <2>1. CASE v.resolved = run.resolved /\ (Dep.kind # "registry" => DepId(Dep) \in DOMAIN run.resolved)
    BY <1>1, <2>1, Kinds
  <2>2. CASE Dep.kind # "registry" /\ \E x : v.resolved = Insert(run.resolved, DepId(Dep), x)
    <3>1. PICK x : v.resolved = Insert(run.resolved, DepId(Dep), x)
      BY <2>2
    <3>2. /\ DOMAIN v.resolved = DOMAIN run.resolved \cup {DepId(Dep)}
          /\ \A y \in DOMAIN run.resolved : y # DepId(Dep) => v.resolved[y] = run.resolved[y]
      BY <3>1, Zenon DEF Insert
    <3>3. Foreign(DepId(Dep))
      BY <2>2, Kinds
    <3> QED  BY <1>1, <3>2, <3>3
  <2> QED  BY <2>1, <2>2
<1> QED  BY <1>1, <1>2, <1>3, <1>4, DependGood

\* A dependency that leads to a package known before, or to the registry.
LEMMA GoodSeedKnown ==
    ASSUME IInv, Seeding, run' = Seeded, UNCHANGED <<index, trees, tmp, pc>>,
           Dep.kind # "registry" => DepId(Dep) \in DOMAIN run.resolved
    PROVE  IInv'
<1>1. run.stack # <<>> /\ pc' = "seed"
  BY DEF Seeding
<1>2. Entries' /\ Chose' /\ StoreInv'
  BY <1>1, StoreQuiet
<1>3. DOMAIN Seeded = RunFields /\ Seeded.resolved = run.resolved /\ Seeded.stack = PopDep(run).stack
  BY <1>1, SeededSame
<1>4. RunInv(Seeded)
  BY <1>1, <1>3, SeededGood
<1>5. \E S : PopDep(run).stack \in Seq(S) /\ \A f \in S : IsFrame(f)
  BY <1>1, PoppedGood
<1> QED  BY <1>2, <1>3, <1>4, <1>5 DEF IInv, Stacked

\* A registry package is asked for.
LEMMA GoodSeedRegistry == IInv /\ SeedRegistry => IInv'
  BY GoodSeedKnown DEF SeedRegistry, Local, server

\* A directory or git repository that was seeded before.
LEMMA GoodSeedAgain == IInv /\ SeedAgain => IInv'
  BY GoodSeedKnown DEF SeedAgain, Local, server

\* A directory or a git repository found for the first time: its own manifest
\* is seeded next.
LEMMA GoodSeedSource == IInv /\ SeedSource => IInv'
<1> SUFFICES ASSUME IInv, SeedSource  PROVE IInv'
  OBVIOUS
<1>1. /\ run.stack # <<>> /\ pc' = "seed" /\ Dep.kind # "registry" /\ UNCHANGED <<index, trees, tmp>>
  BY DEF SeedSource, SourceWanted, Seeding, Local, server
<1>2. PICK s \in Source :
        run' = [Seeded EXCEPT
                  !.resolved = Insert(@, DepId(Dep), [name |-> Dep.name, src |-> Dep.kind,
                                                      ver |-> s.ver, sum |-> s.sum]),
                  !.stack = Append(@, Frame(DepId(Dep), s.m, Requested(Seeded, DepId(Dep))))]
  BY DEF SeedSource
<1> DEFINE x == [name |-> Dep.name, src |-> Dep.kind, ver |-> s.ver, sum |-> s.sum]
           f == Frame(DepId(Dep), s.m, Requested(Seeded, DepId(Dep)))
<1>3. Entries' /\ Chose' /\ StoreInv'
  BY <1>1, StoreQuiet
<1>4. DOMAIN Seeded = RunFields /\ Seeded.resolved = run.resolved /\ Seeded.stack = PopDep(run).stack
  BY <1>1, SeededSame
<1>5. IsFrame(f)
  BY <1>1, Kinds DEF IsFrame, Frame
<1>6. run' = [Seeded EXCEPT !.resolved = Insert(@, DepId(Dep), x), !.stack = Append(@, f)]
  BY <1>2
<1> HIDE DEF x, f
<1>7. /\ DOMAIN run' = RunFields
      /\ run'.pending = Seeded.pending /\ run'.processed = Seeded.processed /\ run'.edges = Seeded.edges
      /\ run'.reqs = Seeded.reqs /\ run'.named = Seeded.named /\ run'.features = Seeded.features
      /\ run'.resolved = Insert(run.resolved, DepId(Dep), x)
      /\ run'.stack = Append(PopDep(run).stack, f)
  BY <1>4, <1>6 DEF RunFields
<1>8. RunInv(run')
  BY <1>1, <1>7, SeededGood
<1>9. Stacked'
  <2>1. PICK S : PopDep(run).stack \in Seq(S) /\ \A g \in S : IsFrame(g)
    BY <1>1, PoppedGood
  <2>2. PopDep(run).stack \in Seq(S \cup {f})
    BY <2>1
  <2>3. run'.stack \in Seq(S \cup {f}) /\ \A g \in S \cup {f} : IsFrame(g)
    BY <1>5, <1>7, <2>1, <2>2
  <2> QED  BY <2>3 DEF Stacked
<1> QED  BY <1>3, <1>8, <1>9 DEF IInv

\* Every step of seed().
LEMMA GoodSeed == IInv /\ Seed => IInv'
  BY GoodSeedDone, GoodSeedSkip, GoodSeedRegistry, GoodSeedAgain, GoodSeedSource, GoodFail
     DEF Seed, SeedFail

-----------------------------------------------------------------------------
(* Pinning a registry package.                                             *)

\* The batch holds packages that are asked for.
LEMMA GoodNextBatch == IInv /\ NextBatch => IInv'
<1> SUFFICES ASSUME IInv, NextBatch  PROVE IInv'
  OBVIOUS
<1>1. /\ run' = [run EXCEPT !.pending = Pending(run)] /\ pc' = "run" /\ UNCHANGED <<index, trees, tmp>>
  BY DEF NextBatch, Local, server
<1>2. Entries' /\ Chose' /\ StoreInv'
  BY <1>1, StoreQuiet
<1>3. DOMAIN run = RunFields /\ RunInv(run) /\ Pending(run) \subseteq DOMAIN run.reqs
  BY DEF IInv, RunInv, Pending
<1>4. /\ DOMAIN run' = RunFields /\ run'.pending = Pending(run) /\ run'.processed = run.processed
      /\ run'.edges = run.edges /\ run'.reqs = run.reqs /\ run'.named = run.named
      /\ run'.features = run.features /\ run'.resolved = run.resolved /\ run'.stack = run.stack
  BY <1>1, <1>3 DEF RunFields
<1>5. \A id \in run'.pending : ~Foreign(id)
  BY <1>3, <1>4 DEF RunInv, Listed
<1>6. RunInv(run')
  BY <1>3, <1>4, <1>5, SameMaps
<1>7. Stacked'
  BY <1>4 DEF IInv, Stacked
<1> QED  BY <1>2, <1>6, <1>7 DEF IInv

\* The entry is taken from the index.
LEMMA GoodFetchIndex == IInv /\ FetchIndex => IInv'
<1> SUFFICES ASSUME IInv, FetchIndex  PROVE IInv'
  OBVIOUS
<1>1. /\ pc' = "download" /\ UNCHANGED <<index, trees, tmp, run>>
      /\ \E id : picked' \in Chosen(id)
  BY DEF FetchIndex, Local, server
<1>2. picked' \in index
  BY <1>1 DEF Chosen, LockHonored, EntriesOf
<1>3. Entries' /\ Chose'
  BY <1>1, <1>2 DEF IInv, Entries, Chose
<1>4. StoreInv'
  BY <1>1 DEF IInv, StoreInv, Fetched, TreesComplete
<1> QED  BY <1>1, <1>3, <1>4 DEF IInv, Stacked

\* The archive that came back has the checksum of the entry.
LEMMA GoodDownload == IInv /\ Download => IInv'
<1> SUFFICES ASSUME IInv, Download  PROVE IInv'
  OBVIOUS
<1> DEFINE b == tars[<<picked.name, picked.ver>>]
<1>1. /\ pc = "download" /\ pc' \in {"extract", "pin"} /\ b = picked.sum
      /\ picked' = Insert(picked, "bytes", b)
      /\ UNCHANGED <<index, trees, tmp, run>>
  BY DEF Download, Verified, Local, server
<1>2. EntryFields \subseteq DOMAIN picked /\ Once(picked)
  BY <1>1 DEF IInv, Chose, Pinning
<1> HIDE DEF b
<1>3. /\ DOMAIN picked' = DOMAIN picked \cup {"bytes"} /\ picked'.bytes = b
      /\ picked'.sum = picked.sum /\ picked'.deps = picked.deps
  BY <1>1, <1>2 DEF Insert, EntryFields
<1>4. Chose'
  BY <1>2, <1>3 DEF Chose, Once
<1>5. StoreInv'
  BY <1>1, <1>3 DEF IInv, StoreInv, Fetched, TreesComplete
<1> QED  BY <1>1, <1>4, <1>5 DEF IInv, Entries, Stacked

\* Only a complete directory is renamed into place.
LEMMA GoodExtract == IInv /\ Extract => IInv'
<1> SUFFICES ASSUME IInv, Extract  PROVE IInv'
  OBVIOUS
<1>1. UNCHANGED <<index, run, picked>>
  BY DEF Extract, ExtractBegin, Unpack, Rename, Local, server
<1>2. DOMAIN trees = Sums /\ DOMAIN tmp = Sums /\ TreesComplete
  BY DEF IInv, StoreInv
<1>3. Entries' /\ Stacked' /\ RunInv(run')
  BY <1>1 DEF IInv, Entries, Stacked
<1>4. CASE ExtractBegin
  <2>1. Chose'
    BY <1>1, <1>4 DEF ExtractBegin, IInv, Chose, Pinning
  <2>2. StoreInv'
    BY <1>1, <1>2, <1>4 DEF ExtractBegin, IInv, StoreInv, Fetched, TreesComplete
  <2> QED  BY <1>3, <2>1, <2>2 DEF IInv
<1>5. CASE Unpack
  <2>1. Chose'
    BY <1>1, <1>5 DEF Unpack, IInv, Chose, Pinning
  <2>2. StoreInv'
    BY <1>1, <1>2, <1>5 DEF Unpack, IInv, StoreInv, Fetched, TreesComplete, Sum
  <2> QED  BY <1>3, <2>1, <2>2 DEF IInv
<1>6. CASE Rename
  <2>1. Chose'
    BY <1>1, <1>6 DEF Rename, IInv, Chose, Pinning
  <2>2. Sum \in Sums => tmp[Sum] = [state |-> "full", bytes |-> Sum]
    BY <1>6 DEF Rename, IInv, StoreInv
  <2>3. TreesComplete'
    BY <1>2, <1>6, <2>2 DEF Rename, TreesComplete
  <2>4. DOMAIN trees' = Sums /\ DOMAIN tmp' = Sums
    BY <1>2, <1>6 DEF Rename
  <2>5. picked'.bytes = picked'.sum /\ pc' = "pin"
    BY <1>1, <1>6 DEF Rename, IInv, StoreInv, Fetched
  <2>6. StoreInv'
    BY <2>3, <2>4, <2>5 DEF StoreInv
  <2> QED  BY <1>3, <2>1, <2>6 DEF IInv
<1> QED  BY <1>4, <1>5, <1>6 DEF Extract

\* The dependencies of an index entry lead to registry packages, each under a
\* name of its own.
LEMMA LeadsTo ==
    ASSUME NEW id, NEW e, NEW requested, Once(e)
    PROVE  /\ \A i \in DOMAIN e.deps : Enabled(e, requested, e.deps[i]) =>
                LET d == e.deps[i]
                IN  /\ d \in DOMAIN Leads(id, e, requested)
                    /\ Leads(id, e, requested)[d] = ReqKey(d, IF d.reg = 0 THEN id.reg ELSE d.reg)
           /\ \A d \in DOMAIN Leads(id, e, requested) : ~Foreign(Leads(id, e, requested)[d])
           /\ \A d, c \in DOMAIN Leads(id, e, requested) : d.name = c.name => d = c
<1> DEFINE D == {e.deps[i] : i \in {j \in DOMAIN e.deps : Enabled(e, requested, e.deps[j])}}
<1>1. Leads(id, e, requested) = [d \in D |-> ReqKey(d, IF d.reg = 0 THEN id.reg ELSE d.reg)]
  BY DEF Leads
<1>2. \A i \in DOMAIN e.deps : Enabled(e, requested, e.deps[i]) => e.deps[i] \in D
  OBVIOUS
<1>3. \A d, c \in D : d.name = c.name => d = c
  BY DEF Once
<1> HIDE DEF D
<1> QED  BY <1>1, <1>2, <1>3, Kinds

\* What pinning records before the dependencies are.
LEMMA PinnedRun ==
    ASSUME DOMAIN run = RunFields, NEW id
    PROVE  LET r == [run EXCEPT
                       !.resolved = Insert(@, id, [name |-> id.name, src |-> "registry", ver |-> picked.ver,
                                                   sum |-> picked.sum, entry |-> picked]),
                       !.repicked = @ \/ (id \in DOMAIN run.resolved /\ run.resolved[id].ver # picked.ver),
                       !.processed = Processed(run, id),
                       !.pending = @ \ {id}]
           IN  /\ DOMAIN r = RunFields /\ r.edges = run.edges /\ r.reqs = run.reqs /\ r.named = run.named
               /\ r.features = run.features /\ r.stack = run.stack /\ r.pending = run.pending \ {id}
               /\ DOMAIN r.resolved = DOMAIN run.resolved \cup {id} /\ r.resolved[id].entry = picked
               /\ \A y \in DOMAIN run.resolved : y # id => r.resolved[y] = run.resolved[y]
               /\ DOMAIN r.processed = DOMAIN run.processed \cup {id}
               /\ r.processed[id] = Requested(run, id)
               /\ \A y \in DOMAIN run.processed : y # id => r.processed[y] = run.processed[y]
<1> DEFINE x == [name |-> id.name, src |-> "registry", ver |-> picked.ver, sum |-> picked.sum, entry |-> picked]
           again == run.repicked \/ (id \in DOMAIN run.resolved /\ run.resolved[id].ver # picked.ver)
           r == [run EXCEPT !.resolved = Insert(@, id, x), !.repicked = again,
                            !.processed = Processed(run, id), !.pending = @ \ {id}]
<1>0. x.entry = picked
  OBVIOUS
<1> HIDE DEF x, again
<1>1. /\ DOMAIN r = RunFields /\ r.edges = run.edges /\ r.reqs = run.reqs /\ r.named = run.named
      /\ r.features = run.features /\ r.stack = run.stack /\ r.pending = run.pending \ {id}
      /\ r.resolved = Insert(run.resolved, id, x) /\ r.processed = Processed(run, id)
  BY DEF RunFields
<1>2. r.processed = Insert(run.processed, id, Requested(run, id))
  BY <1>1 DEF Processed
<1> HIDE DEF r
<1>3. /\ DOMAIN r.resolved = DOMAIN run.resolved \cup {id} /\ r.resolved[id].entry = picked
      /\ \A y \in DOMAIN run.resolved : y # id => r.resolved[y] = run.resolved[y]
  BY <1>0, <1>1 DEF Insert
<1>4. /\ DOMAIN r.processed = DOMAIN run.processed \cup {id}
      /\ r.processed[id] = Requested(run, id)
      /\ \A y \in DOMAIN run.processed : y # id => r.processed[y] = run.processed[y]
  BY <1>2 DEF Insert
<1>5. r = [run EXCEPT
             !.resolved = Insert(@, id, [name |-> id.name, src |-> "registry", ver |-> picked.ver,
                                         sum |-> picked.sum, entry |-> picked]),
             !.repicked = @ \/ (id \in DOMAIN run.resolved /\ run.resolved[id].ver # picked.ver),
             !.processed = Processed(run, id),
             !.pending = @ \ {id}]
  BY DEF r, x, again
<1> QED  BY <1>1, <1>3, <1>4, <1>5

\* A package is pinned: its enabled dependencies are recorded with the features
\* it was asked for, and nothing another package led to is lost.
LEMMA PinGood ==
    ASSUME RunInv(run), NEW id, ~Foreign(id), PinAs(id), Once(picked)
    PROVE  RunInv(run') /\ run'.stack = run.stack
<1> DEFINE requested == Requested(run, id)
           to == Leads(id, picked, requested)
<1>0. DOMAIN run = RunFields
  BY DEF RunInv
<1>1. PICK r : /\ DOMAIN r = RunFields /\ r.edges = run.edges /\ r.reqs = run.reqs /\ r.named = run.named
               /\ r.features = run.features /\ r.stack = run.stack /\ r.pending = run.pending \ {id}
               /\ DOMAIN r.resolved = DOMAIN run.resolved \cup {id} /\ r.resolved[id].entry = picked
               /\ \A y \in DOMAIN run.resolved : y # id => r.resolved[y] = run.resolved[y]
               /\ DOMAIN r.processed = DOMAIN run.processed \cup {id}
               /\ r.processed[id] = requested
               /\ \A y \in DOMAIN run.processed : y # id => r.processed[y] = run.processed[y]
               /\ run' = Enrolled(r, id, picked, requested, to)
  <2> DEFINE r == [run EXCEPT
                     !.resolved = Insert(@, id, [name |-> id.name, src |-> "registry", ver |-> picked.ver,
                                                 sum |-> picked.sum, entry |-> picked]),
                     !.repicked = @ \/ (id \in DOMAIN run.resolved /\ run.resolved[id].ver # picked.ver),
                     !.processed = Processed(run, id),
                     !.pending = @ \ {id}]
  <2>1. run' = Enrolled(r, id, picked, requested, to)
    BY Zenon DEF PinAs
  <2>2. /\ DOMAIN r = RunFields /\ r.edges = run.edges /\ r.reqs = run.reqs /\ r.named = run.named
        /\ r.features = run.features /\ r.stack = run.stack /\ r.pending = run.pending \ {id}
        /\ DOMAIN r.resolved = DOMAIN run.resolved \cup {id} /\ r.resolved[id].entry = picked
        /\ \A y \in DOMAIN run.resolved : y # id => r.resolved[y] = run.resolved[y]
        /\ DOMAIN r.processed = DOMAIN run.processed \cup {id}
        /\ r.processed[id] = requested
        /\ \A y \in DOMAIN run.processed : y # id => r.processed[y] = run.processed[y]
    BY <1>0, PinnedRun, Zenon
  <2> HIDE DEF r
  <2> QED  BY <2>1, <2>2
<1>2. /\ \A i \in DOMAIN picked.deps : Enabled(picked, requested, picked.deps[i]) =>
           LET d == picked.deps[i]
           IN  d \in DOMAIN to /\ to[d] = ReqKey(d, IF d.reg = 0 THEN id.reg ELSE d.reg)
      /\ \A d \in DOMAIN to : ~Foreign(to[d])
      /\ \A d, c \in DOMAIN to : d.name = c.name => d = c
  BY LeadsTo
<1> HIDE DEF to
<1> DEFINE n == Enrolled(r, id, picked, requested, to)
<1>3. /\ DOMAIN n = RunFields /\ n.stack = r.stack /\ n.pending = r.pending
      /\ n.processed = r.processed /\ n.resolved = r.resolved
  BY <1>1, EnrolledSame
<1>4. /\ n.edges = r.edges \cup {<<id, x>> : x \in {to[d] : d \in DOMAIN to}}
      /\ DOMAIN n.reqs = DOMAIN r.reqs \cup {i \in {to[d] : d \in DOMAIN to} : i.kind = "registry"}
      /\ \A x, nm : x # id /\ <<x, nm>> \in DOMAIN r.named =>
           <<x, nm>> \in DOMAIN n.named /\ n.named[<<x, nm>>] = r.named[<<x, nm>>]
      /\ \A x : At(r.features, x) \subseteq At(n.features, x)
      /\ \A d \in DOMAIN to : FeaturesFor(picked, requested, d) \subseteq At(n.features, to[d])
  <2>1. DOMAIN r = RunFields
    BY <1>1
  <2> QED  BY <2>1, EnrolledMaps, Zenon
<1>5. \A d \in DOMAIN to : <<id, d.name>> \in DOMAIN n.named /\ n.named[<<id, d.name>>] = to[d]
  BY <1>1, <1>2, EnrolledNames
<1>6. \A y \in DOMAIN run.processed : y # id => Led(n, y, run.resolved[y].entry, run.processed[y])
  <2> SUFFICES ASSUME NEW y \in DOMAIN run.processed, y # id
               PROVE  Led(n, y, run.resolved[y].entry, run.processed[y])
    OBVIOUS
  <2>1. Led(run, y, run.resolved[y].entry, run.processed[y])
    BY DEF RunInv, StillGood
  <2>2. Led(r, y, run.resolved[y].entry, run.processed[y])
    BY <1>1, <2>1 DEF Led
  <2> QED  BY <1>1, <2>2, LedKept
<1>7. run' = n
  BY <1>1
<1> HIDE DEF n, requested
<1>8. \A d \in DOMAIN to : to[d] \in DOMAIN n.reqs
  <2> SUFFICES ASSUME NEW d \in DOMAIN to  PROVE to[d] \in DOMAIN n.reqs
    OBVIOUS
  <2>1. to[d].kind = "registry"
    BY <1>2 DEF Foreign
  <2> QED  BY <1>4, <2>1
<1>9. EdgesLead(n)
  <2> SUFFICES ASSUME NEW e \in n.edges  PROVE e[2] \in DOMAIN n.resolved \cup DOMAIN n.reqs
    BY DEF EdgesLead
  <2>1. CASE e \in r.edges
    <3>1. e[2] \in DOMAIN run.resolved \cup DOMAIN run.reqs
      BY <1>1, <2>1 DEF RunInv, EdgesLead
    <3> QED  BY <1>1, <1>3, <1>4, <3>1
  <2>2. CASE e \notin r.edges
    <3>1. PICK d \in DOMAIN to : e = <<id, to[d]>>
      BY <1>4, <2>2
    <3> QED  BY <1>8, <3>1
  <2> QED  BY <2>1, <2>2
<1>10. Listed(n)
  <2>1. \A x \in DOMAIN n.reqs : ~Foreign(x)
    BY <1>1, <1>4 DEF RunInv, Listed, Foreign
  <2>2. \A x \in n.pending \cup DOMAIN n.processed : ~Foreign(x)
    BY <1>1, <1>3 DEF RunInv, Listed
  <2>3. \A x \in DOMAIN n.resolved : ~Foreign(x) => x \in DOMAIN n.processed
    BY <1>1, <1>3 DEF RunInv, Listed
  <2> QED  BY <2>1, <2>2, <2>3 DEF Listed
<1>11. Led(n, id, picked, requested)
  <2> SUFFICES ASSUME NEW i \in DOMAIN picked.deps, Enabled(picked, requested, picked.deps[i]),
                      NEW c, c = ReqKey(picked.deps[i], IF picked.deps[i].reg = 0 THEN id.reg ELSE picked.deps[i].reg)
               PROVE  /\ <<id, picked.deps[i].name>> \in DOMAIN n.named
                      /\ n.named[<<id, picked.deps[i].name>>] = c
                      /\ c \in DOMAIN n.reqs
                      /\ FeaturesFor(picked, requested, picked.deps[i]) \subseteq At(n.features, c)
    BY DEF Led
  <2>1. picked.deps[i] \in DOMAIN to /\ to[picked.deps[i]] = c
    BY <1>2
  <2> QED  BY <1>4, <1>5, <1>8, <2>1
<1>12. StillGood(n)
  <2> SUFFICES ASSUME NEW y \in DOMAIN n.processed
               PROVE  y \in DOMAIN n.resolved /\ Led(n, y, n.resolved[y].entry, n.processed[y])
    BY DEF StillGood
  <2>1. CASE y = id
    BY <1>1, <1>3, <1>11, <2>1
  <2>2. CASE y # id
    <3>1. y \in DOMAIN run.processed /\ y \in DOMAIN run.resolved
      BY <1>1, <1>3, <2>2 DEF RunInv, StillGood
    <3> QED  BY <1>1, <1>3, <1>6, <2>2, <3>1
  <2> QED  BY <2>1, <2>2
<1>13. RunInv(n)
  BY <1>3, <1>9, <1>10, <1>12 DEF RunInv
<1> QED  BY <1>1, <1>3, <1>7, <1>13

\* Every pin keeps the invariant.
LEMMA GoodPin == IInv /\ Pin => IInv'
<1> SUFFICES ASSUME IInv, Pin  PROVE IInv'
  OBVIOUS
<1>1. PICK id \in Turn : PinAs(id)
  BY DEF Pin
<1>2. pc = "pin" /\ pc' = "run" /\ UNCHANGED <<index, trees, tmp>>
  BY DEF Pin, Local, server
<1>3. Entries' /\ Chose' /\ StoreInv'
  BY <1>2, StoreQuiet
<1>4. RunInv(run) /\ Once(picked)
  BY <1>2 DEF IInv, Chose, Pinning
<1>5. ~Foreign(id)
  BY <1>4 DEF Turn, RunInv, Listed
<1>6. RunInv(run') /\ run'.stack = run.stack
  BY <1>1, <1>4, <1>5, PinGood
<1>7. Stacked'
  BY <1>6 DEF IInv, Stacked
<1> QED  BY <1>3, <1>6, <1>7 DEF IInv

\* The lockfile is written, or the process dies.
LEMMA GoodEnd == IInv /\ (Finish \/ Crash) => IInv'
  BY Forgotten DEF Finish, Crash, server

\* Others publish, yank, push and edit; none of it reaches a command that runs.
LEMMA GoodWorld == IInv /\ World => IInv'
<1> SUFFICES ASSUME IInv, World  PROVE IInv'
  OBVIOUS
<1>1. UNCHANGED <<trees, tmp, pc, run, picked>>
  BY DEF World, Publish, PublishTorn, SetYanked, GitPush, EditCheckout, EditManifest, Client
<1>2. Chose' /\ StoreInv' /\ Stacked' /\ RunInv(run')
  BY <1>1 DEF IInv, Chose, Pinning, StoreInv, Fetched, TreesComplete, Sum, Stacked
<1>3. Entries'
  <2>1. CASE UNCHANGED index
    BY <2>1 DEF IInv, Entries
  <2>2. ASSUME NEW u \in Uploads, Publish(u)  PROVE Entries'
    <3>1. DOMAIN Entry(u) = EntryFields /\ Entry(u).deps = u.deps
      BY DEF Entry, EntryFields
    <3>2. Once(Entry(u))
      BY <3>1, NamedOnce DEF Once
    <3>3. index' = Others(u) \cup {Entry(u)} /\ Others(u) \subseteq index
      BY <2>2 DEF Publish, Others
    <3> QED  BY <3>1, <3>2, <3>3 DEF IInv, Entries
  <2>3. ASSUME NEW e \in index, SetYanked(e)  PROVE Entries'
    <3>1. DOMAIN e = EntryFields /\ Once(e)
      BY DEF IInv, Entries
    <3> DEFINE y == [e EXCEPT !.yanked = ~e.yanked]
    <3>2. DOMAIN y = EntryFields /\ y.deps = e.deps
      BY <3>1 DEF EntryFields
    <3>3. index' = (index \ {e}) \cup {y}
      BY <2>3 DEF SetYanked
    <3> HIDE DEF y
    <3> QED  BY <3>1, <3>2, <3>3 DEF IInv, Entries, Once
  <2> QED  BY <2>1, <2>2, <2>3 DEF World, PublishTorn, GitPush, EditCheckout, EditManifest, server
<1> QED  BY <1>2, <1>3 DEF IInv

\* The invariant holds at first ...
LEMMA GoodInit == Init => IInv
<1> SUFFICES ASSUME Init  PROVE IInv
  OBVIOUS
<1>1. Entries
  <2> SUFFICES ASSUME NEW u \in Published  PROVE DOMAIN Entry(u) = EntryFields /\ Once(Entry(u))
    BY DEF Init, Entries
  <2>1. DOMAIN Entry(u) = EntryFields /\ Entry(u).deps = u.deps
    BY DEF Entry, EntryFields
  <2> QED  BY <2>1, NamedOnce DEF Once
<1>2. Chose /\ StoreInv
  BY DEF Init, Chose, Pinning, StoreInv, Fetched, TreesComplete, NoTree
<1>3. Stacked
  <2>1. run.stack = <<>> /\ <<>> \in Seq({})
    BY DEF Init, EmptyRun
  <2> QED  BY <2>1 DEF Stacked
<1>4. RunInv(run)
  BY EmptyGood DEF Init
<1> QED  BY <1>1, <1>2, <1>3, <1>4 DEF IInv

\* ... every step keeps it ...
LEMMA GoodStep == IInv /\ [Next]_vars => IInv'
<1>1. IInv /\ UNCHANGED vars => IInv'
  BY DEF vars, server, IInv, Entries, Chose, Pinning, StoreInv, Fetched, TreesComplete, Sum, Stacked
<1>2. IInv /\ Step => IInv'
  BY GoodSeed, GoodNextBatch, GoodFetchIndex, GoodDownload, GoodExtract, GoodPin, GoodEnd, GoodFail
     DEF Step, FetchFail, NetFail, DownloadFail, PinFail
<1> QED  BY <1>1, <1>2, GoodStart, GoodEnd, GoodWorld DEF Next

\* ... and so it always holds.
LEMMA PkgInvariant == Spec => []IInv
  BY GoodInit, GoodStep, PTL DEF Spec

-----------------------------------------------------------------------------
(* The theorems.                                                           *)

\* Store::extract: a keyed directory is absent or complete, and holds the archive
\* with that checksum, wherever a command crashes and whatever is published
\* between the index request and the download.
THEOREM TreesStayComplete == Spec => []TreesComplete
<1>1. IInv => TreesComplete
  BY DEF IInv, StoreInv
<1> QED  BY <1>1, PkgInvariant, PTL

\* Run::run: when the worklist is empty every edge leads to a resolved package,
\* and the dependencies that the final features of each registry package enable
\* are there, with the features they should have.
THEOREM GraphsClose == Spec => []GraphClosed
<1>1. ASSUME IInv  PROVE GraphClosed
  <2> SUFFICES ASSUME Complete  PROVE GraphClosed
    BY DEF GraphClosed
  <2>1. RunInv(run)
    BY <1>1 DEF IInv
  <2>2. \A id \in DOMAIN run.reqs :
          /\ id \in DOMAIN run.resolved /\ id \in DOMAIN run.processed
          /\ At(run.processed, id) = Requested(run, id) /\ run.processed[id] = Requested(run, id)
    <3> SUFFICES ASSUME NEW id \in DOMAIN run.reqs
                 PROVE  /\ id \in DOMAIN run.resolved /\ id \in DOMAIN run.processed
                        /\ At(run.processed, id) = Requested(run, id)
                        /\ run.processed[id] = Requested(run, id)
      OBVIOUS
    <3>1. id \in DOMAIN run.resolved /\ At(run.processed, id) = Requested(run, id)
      BY DEF Complete, Pending
    <3>2. id \in DOMAIN run.processed
      BY <2>1, <3>1 DEF RunInv, Listed
    <3> QED  BY <3>1, <3>2 DEF At
  <2>3. \A e \in run.edges : e[2] \in DOMAIN run.resolved
    BY <2>1, <2>2 DEF RunInv, EdgesLead
  <2>4. ASSUME NEW id \in DOMAIN run.reqs,
               NEW i \in DOMAIN run.resolved[id].entry.deps,
               Enabled(run.resolved[id].entry, Requested(run, id), run.resolved[id].entry.deps[i])
        PROVE  LET d == run.resolved[id].entry.deps[i]
                   c == ReqKey(d, IF d.reg = 0 THEN id.reg ELSE d.reg)
               IN  /\ run.named[<<id, d.name>>] = c
                   /\ FeaturesFor(run.resolved[id].entry, Requested(run, id), d)
                        \subseteq At(run.processed, c)
    <3> DEFINE d == run.resolved[id].entry.deps[i]
               c == ReqKey(d, IF d.reg = 0 THEN id.reg ELSE d.reg)
    <3>1. Led(run, id, run.resolved[id].entry, Requested(run, id))
      BY <2>1, <2>2 DEF RunInv, StillGood
    <3>2. /\ run.named[<<id, d.name>>] = c /\ c \in DOMAIN run.reqs
          /\ FeaturesFor(run.resolved[id].entry, Requested(run, id), d) \subseteq At(run.features, c)
      BY <2>4, <3>1 DEF Led
    <3> HIDE DEF c
    <3>3. At(run.processed, c) = At(run.features, c)
      BY <2>2, <3>2 DEF Requested
    <3>4. /\ run.named[<<id, d.name>>] = c
          /\ FeaturesFor(run.resolved[id].entry, Requested(run, id), d) \subseteq At(run.processed, c)
      BY <3>2, <3>3
    <3> QED  BY <3>4 DEF c
  <2> QED  BY <2>3, <2>4 DEF GraphClosed
<1> QED  BY <1>1, PkgInvariant, PTL
=============================================================================
