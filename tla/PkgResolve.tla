----------------------------- MODULE PkgResolve -----------------------------
(***************************************************************************)
(* The package manager: the resolver (crates/pkg/src/resolve.rs) driven by *)
(* the commands lock, update and lock --check (crates/cli/src/main.rs),    *)
(* the lockfile it reads and writes (lockfile.rs), the content-addressed   *)
(* store it extracts into (store.rs), git sources (git.rs) and the         *)
(* registry server other people publish to while it runs (server.rs).      *)
(*                                                                         *)
(* The resolver asks the registry for an index and, in a second request,   *)
(* for the archive of the version it picked; a publish, a yank or a crash  *)
(* of either side may come between any two steps.                          *)
(*                                                                         *)
(* Data.  A package name and a registry are numbers (the order of the      *)
(* numbers is the order of the strings, which is the order of the maps).   *)
(* Version x.y is the number 10x + y; a requirement is the half-open       *)
(* interval it accepts, or `*'.  The sha256 of an archive is its identity: *)
(* `sum' names both the bytes and their checksum.  A feature entry is      *)
(*   [dep |-> n, feat |-> ""]   `dep:n'                                    *)
(*   [dep |-> n, feat |-> "f"]  `n/f'                                      *)
(*   [dep |-> 0, feat |-> "f"]  `f'                                        *)
(***************************************************************************)
EXTENDS Naturals, FiniteSets, Sequences

CONSTANTS
    Manifests,     \* the root manifests the user switches between (add, remove)
    PathManifest,  \* directory of a path dependency -> its manifest
    GitManifest,   \* commit of the git repository -> the manifest in its tree
    Published,     \* what the registry serves at first
    Uploads,       \* what other people may publish later
    Regs,          \* the registries that could be connected
    MaxCmds,       \* bound: commands run
    MaxEnv         \* bound: changes made by others (publish, yank, push, edit)

ASSUME ConstantsOK == /\ Regs \subseteq Nat \ {0}
                      /\ 1 \in DOMAIN GitManifest /\ DOMAIN GitManifest \subseteq Nat
                      /\ MaxCmds \in Nat /\ MaxEnv \in Nat

\* package.rs writes an entry's dependencies from the manifest's map of names.
ASSUME NamedOnce == \A u \in Published \cup Uploads : \A i, j \in DOMAIN u.deps :
                       u.deps[i].name = u.deps[j].name => i = j

VARIABLES
    index,     \* registry server: the entries of the index files
    tars,      \* registry server: <<name, version>> -> archive
    head,      \* the git repository's HEAD commit
    edited,    \* checkouts whose files were changed after the checkout
    trees,     \* store: archive -> extracted directory src/<hex>
    tmp,       \* store: archive -> the sibling src/<hex>.tmp
    manifest,  \* the project's project.toml
    lock,      \* the project's project.lock: absent, torn or ok, and the pinned packages
    pc,        \* what the command is doing
    cmd,       \* the command
    run,       \* struct Run of the resolver
    picked,    \* the index entry chosen for the package being pinned
    quiet,     \* history: nothing the lock pins has changed since ...
    wrote,     \* history: the packages the last finished lock or update wrote
    cmds, env  \* counters of the bounds

server == <<index, tars>>
vars == <<index, tars, head, edited, trees, tmp, manifest, lock, pc, cmd, run, picked,
          quiet, wrote, cmds, env>>

-----------------------------------------------------------------------------
(* Versions and requirements (version.rs).                                 *)

Matches(req, v) == req.star \/ (req.lo <= v /\ v < req.hi)

\* The range a requirement is filed under: its major version, 0.minor below 1.0,
\* and a group of its own for `*', which has no comparator.
compat_key(req) == CASE req.star     -> 100
                     [] req.lo < 10  -> req.lo
                     [] OTHER        -> 10 * (req.lo \div 10)

\* The highest version that meets every requirement.
pick_version(reqs, avail) ==
    LET fit == {v \in avail : \A r \in reqs : Matches(r, v)}
    IN  {v \in fit : \A w \in fit : w <= v}

(* Package instance ids (resolve.rs): the key of every map of a Run.       *)
Id(kind, reg, name, key) == [kind |-> kind, reg |-> reg, name |-> name, key |-> key]
RootId == Id("root", 0, 0, 0)
ReqKey(d, reg) == Id("registry", reg, d.name, compat_key(d.req))
DepId(d) == CASE d.kind = "registry" -> ReqKey(d, d.reg)
              [] d.kind = "path"     -> Id("path", 0, d.name, d.dir)
              [] OTHER               -> Id("git", 0, d.name, 0)

\* BTreeMap order of the registry ids.
IdBefore(a, b) == \/ a.reg < b.reg
                  \/ a.reg = b.reg /\ a.name < b.name
                  \/ a.reg = b.reg /\ a.name = b.name /\ a.key < b.key

At(f, k) == IF k \in DOMAIN f THEN f[k] ELSE {}

\* BTreeMap::insert.
Insert(f, k, v) == [x \in DOMAIN f \cup {k} |-> IF x = k THEN v ELSE f[x]]

-----------------------------------------------------------------------------
(* FeaturePlan (resolve.rs): what the requested features of a package      *)
(* enable.                                                                 *)

\* The features reached from the requested ones.
Active(features, requested) ==
    LET Next1(S) == S \cup {i.feat : i \in {j \in UNION {features[f] : f \in S \cap DOMAIN features}
                                              : j.dep = 0}}
        step[n \in 0..Cardinality(DOMAIN features)] ==
            IF n = 0 THEN requested ELSE Next1(step[n - 1])
    IN  step[Cardinality(DOMAIN features)]

Items(features, requested) ==
    UNION {features[f] : f \in Active(features, requested) \cap DOMAIN features}

DepNames(deps) == {deps[i].name : i \in DOMAIN deps}

\* An unknown feature or a feature of an unknown dependency is an error; only
\* "default" may be requested of a package that does not define it.
PlanOk(p, requested) ==
    /\ Active(p.features, requested) \subseteq DOMAIN p.features \cup {"default"}
    /\ \A i \in Items(p.features, requested) : i.dep # 0 => i.dep \in DepNames(p.deps)
    /\ \A i \in Items(p.features, requested) : i.dep = 0 => i.feat \in DOMAIN p.features

Enabled(p, requested, d) ==
    d.optional => \E i \in Items(p.features, requested) : i.dep = d.name

\* request_dependency_features: what one parent asks of a dependency.
FeaturesFor(p, requested, d) ==
    (IF d.dflt THEN {"default"} ELSE {}) \cup d.feats
      \cup {i.feat : i \in {j \in Items(p.features, requested) : j.dep = d.name /\ j.feat # ""}}

-----------------------------------------------------------------------------
EmptyRun == [ existing |-> {}, stack |-> <<>>, pending |-> {},
              reqs |-> <<>>, features |-> <<>>, processed |-> <<>>,
              resolved |-> <<>>, edges |-> {}, named |-> <<>>, repicked |-> FALSE ]

Requested(r, id) == At(r.features, id)

\* record_dependency and request_dependency_features for the dependencies of
\* `parent', each of which leads to the package to[d].
Enrolled(r, parent, p, requested, to) ==
    LET Ids    == {to[d] : d \in DOMAIN to}
        On(id) == {d \in DOMAIN to : to[d] = id}
        Keys   == {<<parent, d.name>> : d \in DOMAIN to}
    IN  [r EXCEPT
           !.edges = @ \cup {<<parent, id>> : id \in Ids},
           !.named = [k \in DOMAIN @ \cup Keys |->
                         IF k \in Keys THEN to[CHOOSE d \in DOMAIN to : <<parent, d.name>> = k]
                         ELSE @[k]],
           !.features = [id \in DOMAIN @ \cup Ids |->
                            At(@, id) \cup UNION {FeaturesFor(p, requested, d) : d \in On(id)}],
           !.reqs = [id \in DOMAIN @ \cup {i \in Ids : i.kind = "registry"} |->
                        At(@, id) \cup {d.req : d \in On(id)}]]

Depend(r, parent, p, requested, d, id) == Enrolled(r, parent, p, requested, [x \in {d} |-> id])

\* The list of packages still to be seeded from a manifest, with the feature
\* plan computed when seed() was entered.
Frame(parent, m, requested) ==
    [parent |-> parent, m |-> m, requested |-> requested, deps |-> m.deps]

\* existing_lock: a lockfile that does not parse counts as absent; update
\* resolves from scratch.
Existing(c) == IF c = "update" THEN {} ELSE lock.pkgs
LockFile(state, pkgs) == [state |-> state, pkgs |-> pkgs]

Fail == /\ pc' = "idle" /\ cmd' = "none" /\ run' = EmptyRun /\ picked' = <<>>
        /\ UNCHANGED <<server, head, edited, trees, tmp, manifest, lock, quiet, wrote, cmds, env>>

Local == UNCHANGED <<server, head, edited, manifest, lock, cmd, quiet, wrote, cmds, env>>

(* resolve(): a command starts, reads the lockfile and seeds the worklist. *)
Start(c) ==
    /\ pc = "idle" /\ cmds < MaxCmds
    /\ LET r == [EmptyRun EXCEPT
                   !.existing = Existing(c),
                   !.features = [x \in {RootId} |-> {"default"}]]
       IN  IF PlanOk(manifest, {"default"})
             THEN /\ pc' = "seed" /\ cmd' = c
                  /\ run' = [r EXCEPT !.stack = <<Frame(RootId, manifest, {"default"})>>]
             ELSE UNCHANGED <<pc, cmd, run>>
    /\ cmds' = cmds + 1
    /\ quiet' = [quiet EXCEPT !.run = TRUE]
    /\ UNCHANGED <<server, head, edited, trees, tmp, manifest, lock, picked, wrote, env>>

-----------------------------------------------------------------------------
(* seed(): one dependency of the manifest on top of the stack.             *)

Top == run.stack[Len(run.stack)]
Dep == Head(Top.deps)
PopDep(r) == [r EXCEPT !.stack[Len(r.stack)].deps = Tail(@)]
Wanted == Enabled(Top.m, Top.requested, Dep)
Seeding == pc = "seed" /\ run.stack # <<>> /\ Top.deps # <<>>
Seeded == Depend(PopDep(run), Top.parent, Top.m, Top.requested, Dep, DepId(Dep))

\* seed() returns; after the root's the worklist loop starts.
SeedDone ==
    /\ pc = "seed" /\ Top.deps = <<>>
    /\ run' = [run EXCEPT !.stack = SubSeq(@, 1, Len(@) - 1)]
    /\ pc' = IF Len(run.stack) = 1 THEN "run" ELSE "seed"
    /\ UNCHANGED <<trees, tmp, picked>> /\ Local

SeedSkip ==
    /\ Seeding /\ ~Wanted
    /\ run' = PopDep(run)
    /\ UNCHANGED <<pc, trees, tmp, picked>> /\ Local

SeedRegistry ==
    /\ Seeding /\ Wanted /\ Dep.kind = "registry"
    /\ run' = Seeded
    /\ UNCHANGED <<pc, trees, tmp, picked>> /\ Local

SeedAgain ==
    /\ Seeding /\ Wanted /\ Dep.kind # "registry" /\ DepId(Dep) \in DOMAIN run.resolved
    /\ run' = Seeded
    /\ UNCHANGED <<pc, trees, tmp, picked>> /\ Local

LockedGit == {p \in run.existing : p.name = Dep.name /\ p.src = "git"}

\* The tree checksum of a checkout: that of its commit, unless its files were
\* changed in the store afterwards.
TreeSum(rev) == IF rev \in edited THEN 100 + rev ELSE rev

\* git::fetch of the locked commit, else of the branch's head; the locked
\* checksum, if there is one, must match the checkout's.
GitSource ==
    {[m |-> GitManifest[rev], ver |-> rev, sum |-> TreeSum(rev)] :
       rev \in {c \in IF LockedGit = {} THEN {head} ELSE {p.ver : p \in LockedGit} :
                 \A p \in LockedGit : p.sum \in {0, TreeSum(c)}}}

\* The manifest in the directory of a path dependency, if there is one.
PathSource ==
    {[m |-> PathManifest[dir], ver |-> PathManifest[dir].ver, sum |-> 0] :
       dir \in {Dep.dir} \cap DOMAIN PathManifest}

\* What the dependency leads to; nothing if the package cannot be read or its
\* features do not resolve.
Source == {s \in IF Dep.kind = "path" THEN PathSource ELSE GitSource :
             PlanOk(s.m, Requested(Seeded, DepId(Dep)))}
SourceWanted == /\ Seeding /\ Wanted /\ Dep.kind # "registry"
                /\ DepId(Dep) \notin DOMAIN run.resolved

\* resolve_path_dep, resolve_git_dep: a package found for the first time is
\* recorded and its own manifest seeded, with the features asked of it so far.
SeedSource ==
    /\ SourceWanted
    /\ \E s \in Source :
         run' = [Seeded EXCEPT
                   !.resolved = Insert(@, DepId(Dep), [name |-> Dep.name, src |-> Dep.kind,
                                                       ver |-> s.ver, sum |-> s.sum]),
                   !.stack = Append(@, Frame(DepId(Dep), s.m, Requested(Seeded, DepId(Dep))))]
    /\ UNCHANGED <<pc, trees, tmp, picked>> /\ Local

SeedFail == SourceWanted /\ Source = {} /\ Fail

-----------------------------------------------------------------------------
(* run(): the worklist of registry packages.                               *)

\* Mutation: a package is done once it is resolved, whatever is asked of it later.
Pending_Once(r) == {id \in DOMAIN r.reqs : id \notin DOMAIN r.resolved}

\* Not resolved yet, or resolved with fewer features than are asked for now.
Pending(r) == {id \in DOMAIN r.reqs :
                 id \notin DOMAIN r.resolved \/ At(r.processed, id) # Requested(r, id)}

NextBatch ==
    /\ pc = "run" /\ run.pending = {} /\ Pending(run) # {}
    /\ run' = [run EXCEPT !.pending = Pending(run)]
    /\ UNCHANGED <<pc, trees, tmp, picked>> /\ Local

\* The package of the batch whose turn it is: the first in the map's order.
Turn == {id \in run.pending : \A j \in run.pending \ {id} : IdBefore(id, j)}
EntriesOf(id) == {e \in index : e.name = id.name}

\* The first record of the lockfile with the package's name and registry.
FirstLocked(id) ==
    LET same == {p \in run.existing : p.name = id.name /\ p.src = "registry" /\ p.reg = id.reg}
    IN  {p \in same : \A q \in same : p.ver <= q.ver}

\* Mutation: the lockfile is not consulted.
LockHonored_Never(id) == {}

\* The entry the lock asks for, if it still meets every requirement known now
\* and is not yanked.
LockHonored(id) ==
    {e \in EntriesOf(id) : /\ ~e.yanked
                           /\ \E p \in FirstLocked(id) : p.ver = e.ver
                           /\ \A r \in run.reqs[id] : Matches(r, e.ver)}

Chosen(id) ==
    IF LockHonored(id) # {} THEN LockHonored(id)
    ELSE {e \in EntriesOf(id) :
            e.ver \in pick_version(run.reqs[id], {x.ver : x \in {y \in EntriesOf(id) : ~y.yanked}})}

\* resolve_registry_dep: one request for the index, and the choice.
FetchIndex ==
    /\ pc = "run"
    /\ \E id \in Turn : id.reg \in Regs /\ \E e \in Chosen(id) : picked' = e
    /\ pc' = "download"
    /\ UNCHANGED <<run, trees, tmp>> /\ Local

\* An undeclared registry, or no version that matches.
FetchFail ==
    /\ pc = "run"
    /\ \E id \in Turn : id.reg \notin Regs \/ Chosen(id) = {}
    /\ Fail

\* A request that gets no answer.
NetFail ==
    /\ pc \in {"run", "download"} /\ run.pending # {}
    /\ Fail

\* store::verify.
Verified(bytes, sum) == bytes = sum

\* The archive is downloaded by name and version and verified against the
\* checksum of the index entry read before.
Download ==
    /\ pc = "download"
    /\ Verified(tars[<<picked.name, picked.ver>>], picked.sum)
    /\ pc' = IF trees[picked.sum].state = "none" THEN "extract" ELSE "pin"
    /\ picked' = Insert(picked, "bytes", tars[<<picked.name, picked.ver>>])
    /\ UNCHANGED <<run, trees, tmp>> /\ Local

DownloadFail ==
    /\ pc = "download"
    /\ ~Verified(tars[<<picked.name, picked.ver>>], picked.sum)
    /\ Fail

NoTree == [state |-> "none", bytes |-> 0]
Sum == picked.sum

\* Mutation: the archive is unpacked straight into the keyed directory.
ExtractBegin_InPlace ==
    /\ pc = "extract"
    /\ trees' = [trees EXCEPT ![Sum] = [state |-> "part", bytes |-> picked.bytes]]
    /\ tmp' = [tmp EXCEPT ![Sum] = [state |-> "part", bytes |-> picked.bytes]]
    /\ pc' = "unpack"
    /\ UNCHANGED <<run, picked>> /\ Local

\* Store::extract: whatever an earlier build left in the .tmp sibling goes away.
ExtractBegin ==
    /\ pc = "extract"
    /\ tmp' = [tmp EXCEPT ![Sum] = [state |-> "part", bytes |-> picked.bytes]]
    /\ pc' = "unpack"
    /\ UNCHANGED <<run, picked, trees>> /\ Local

Unpack ==
    /\ pc = "unpack"
    /\ tmp' = [tmp EXCEPT ![Sum] = [state |-> "full", bytes |-> picked.bytes]]
    /\ pc' = "rename"
    /\ UNCHANGED <<run, picked, trees>> /\ Local

\* The directory is renamed into place unless a concurrent build won the race.
Rename ==
    /\ pc = "rename"
    /\ trees' = IF trees[Sum].state = "none" THEN [trees EXCEPT ![Sum] = tmp[Sum]] ELSE trees
    /\ tmp' = [tmp EXCEPT ![Sum] = NoTree]
    /\ pc' = "pin"
    /\ UNCHANGED <<run, picked>> /\ Local

-----------------------------------------------------------------------------
\* The packages that the enabled dependencies of an index entry lead to; one
\* without a registry of its own comes from its parent's.
Leads(id, e, requested) ==
    [d \in {e.deps[i] : i \in {j \in DOMAIN e.deps : Enabled(e, requested, e.deps[j])}} |->
        ReqKey(d, IF d.reg = 0 THEN id.reg ELSE d.reg)]

\* Mutation: the features a package was processed with are not recorded.
Processed_Never(r, id) == r.processed

Processed(r, id) == Insert(r.processed, id, Requested(r, id))

PinAs(id) ==
    LET requested == Requested(run, id)
        r == [run EXCEPT
                !.resolved = Insert(@, id, [name |-> id.name, src |-> "registry", ver |-> picked.ver,
                                            sum |-> picked.sum, entry |-> picked]),
                !.repicked = @ \/ (id \in DOMAIN run.resolved /\ run.resolved[id].ver # picked.ver),
                !.processed = Processed(run, id),
                !.pending = @ \ {id}]
    IN  /\ PlanOk(picked, requested)
        /\ run' = Enrolled(r, id, picked, requested, Leads(id, picked, requested))

Pin ==
    /\ pc = "pin" /\ \E id \in Turn : PinAs(id)
    /\ pc' = "run" /\ picked' = <<>>
    /\ UNCHANGED <<trees, tmp>> /\ Local

PinFail == pc = "pin" /\ (\E id \in Turn : ~PlanOk(picked, Requested(run, id))) /\ Fail

\* The lockfile of a finished run: one record for every resolved package.
NewLock(r) ==
    {[name |-> r.resolved[id].name, src |-> r.resolved[id].src, reg |-> id.reg,
      ver |-> r.resolved[id].ver, sum |-> r.resolved[id].sum] : id \in DOMAIN r.resolved}

Complete == pc = "run" /\ run.pending = {} /\ Pending(run) = {}

\* lock and update write project.lock; lock --check only compares.
Finish ==
    /\ Complete
    /\ lock' = IF cmd = "check" THEN lock ELSE LockFile("ok", NewLock(run))
    /\ quiet' = IF cmd = "check" THEN quiet
                ELSE [quiet EXCEPT !.lock = quiet.run, !.once = ~run.repicked]
    /\ wrote' = IF cmd = "check" THEN wrote ELSE NewLock(run)
    /\ pc' = "idle" /\ cmd' = "none" /\ run' = EmptyRun
    /\ UNCHANGED <<server, head, edited, trees, tmp, manifest, picked, cmds, env>>

\* The order of the records in the file (to_toml sorts by name, then version).
LockBefore(p, q) == p.name < q.name \/ (p.name = q.name /\ p.ver < q.ver)

\* What existing_lock makes of a file whose write was cut short.  A cut inside a
\* record does not parse and counts as absent; one between two records leaves a
\* shorter lock, and one before a record's last line a package without checksum.
CutLocks(l) ==
    LET Heads     == {k \in SUBSET l : \A p \in k, q \in l : LockBefore(q, p) => q \in k}
        LastOf(k) == {p \in k : \A q \in k : ~LockBefore(p, q)}
    IN  {LockFile("torn", {})} \cup {LockFile("ok", k) : k \in Heads}
          \cup {LockFile("ok", (k \ LastOf(k)) \cup {[p EXCEPT !.sum = 0] : p \in LastOf(k)}) :
                  k \in Heads}

\* The process dies, perhaps in fs::write, which truncates project.lock and fills
\* it in place.  What an update meant to write is nobody's lock then.
Crash ==
    /\ pc # "idle"
    /\ lock' \in {lock} \cup (IF Complete /\ cmd # "check" THEN CutLocks(NewLock(run)) ELSE {})
    /\ quiet' = IF cmd = "update" /\ lock' # lock THEN [quiet EXCEPT !.lock = FALSE] ELSE quiet
    /\ pc' = "idle" /\ cmd' = "none" /\ run' = EmptyRun /\ picked' = <<>>
    /\ UNCHANGED <<server, head, edited, trees, tmp, manifest, wrote, cmds, env>>

-----------------------------------------------------------------------------
(* Everybody else.                                                         *)

Client == UNCHANGED <<trees, tmp, lock, pc, cmd, run, picked, wrote, cmds>>
Change == env < MaxEnv /\ env' = env + 1
Disturb == quiet' = [quiet EXCEPT !.lock = FALSE, !.run = FALSE]

Entry(u) == [name |-> u.name, ver |-> u.ver, deps |-> u.deps, features |-> u.features,
             sum |-> u.sum, yanked |-> FALSE]
Others(u) == {e \in index : ~(e.name = u.name /\ e.ver = u.ver)}
IsNew(u) == Others(u) = index

\* publish: the archive is written, then the index line is inserted or replaced.
Publish(u) ==
    /\ Change
    /\ tars' = Insert(tars, <<u.name, u.ver>>, u.sum)
    /\ index' = Others(u) \cup {Entry(u)}
    /\ IF IsNew(u) THEN UNCHANGED quiet ELSE Disturb
    /\ UNCHANGED <<head, edited, manifest>> /\ Client

\* The server dies between the two writes.
PublishTorn(u) ==
    /\ Change /\ ~IsNew(u)
    /\ tars' = Insert(tars, <<u.name, u.ver>>, u.sum)
    /\ Disturb
    /\ UNCHANGED <<index, head, edited, manifest>> /\ Client

\* set_yanked: yank and unyank.
SetYanked(e) ==
    /\ Change /\ e \in index
    /\ index' = (index \ {e}) \cup {[e EXCEPT !.yanked = ~e.yanked]}
    /\ Disturb
    /\ UNCHANGED <<tars, head, edited, manifest>> /\ Client

GitPush ==
    /\ Change /\ head + 1 \in DOMAIN GitManifest /\ head' = head + 1
    /\ UNCHANGED <<server, edited, manifest, quiet>> /\ Client

EditCheckout(rev) ==
    /\ Change /\ edited' = edited \cup {rev} /\ rev <= head
    /\ Disturb
    /\ UNCHANGED <<server, head, manifest>> /\ Client

\* add and remove rewrite the manifest between two commands.
EditManifest(m) ==
    /\ Change /\ pc = "idle" /\ m # manifest /\ manifest' = m
    /\ Disturb
    /\ UNCHANGED <<server, head, edited>> /\ Client

Sums == {u.sum : u \in Published \cup Uploads}

Init ==
    /\ index = {Entry(u) : u \in Published}
    /\ tars = [k \in {<<u.name, u.ver>> : u \in Published} |->
                 (CHOOSE u \in Published : <<u.name, u.ver>> = k).sum]
    /\ head = 1 /\ edited = {}
    /\ trees = [s \in Sums |-> NoTree] /\ tmp = [s \in Sums |-> NoTree]
    /\ manifest \in Manifests
    /\ lock = LockFile("none", {}) /\ pc = "idle" /\ cmd = "none" /\ run = EmptyRun /\ picked = <<>>
    /\ quiet = [lock |-> FALSE, run |-> FALSE, once |-> FALSE] /\ wrote = {}
    /\ cmds = 0 /\ env = 0

Seed == SeedDone \/ SeedSkip \/ SeedRegistry \/ SeedAgain \/ SeedSource \/ SeedFail
Extract == ExtractBegin \/ Unpack \/ Rename
Step == \/ Seed \/ NextBatch \/ FetchIndex \/ FetchFail \/ NetFail
        \/ Download \/ DownloadFail \/ Extract \/ Pin \/ PinFail \/ Finish

World == \/ \E u \in Uploads : Publish(u) \/ PublishTorn(u)
         \/ \E e \in index : SetYanked(e)
         \/ GitPush
         \/ \E rev \in DOMAIN GitManifest : EditCheckout(rev)
         \/ \E m \in Manifests : EditManifest(m)

Next == \/ \E c \in {"lock", "update", "check"} : Start(c)
        \/ Step \/ Crash \/ World

Spec == Init /\ [][Next]_vars
FairSpec == Spec /\ WF_vars(Step)

-----------------------------------------------------------------------------
(* Properties                                                              *)

TypeOK ==
    /\ \A e, f \in index : e.name = f.name /\ e.ver = f.ver => e = f
    /\ {<<e.name, e.ver>> : e \in index} = DOMAIN tars
    /\ \A s \in Sums : trees[s].state \in {"none", "part", "full"}
                       /\ tmp[s].state \in {"none", "part", "full"}
    /\ manifest \in Manifests
    /\ pc \in {"idle", "seed", "run", "download", "extract", "unpack", "rename", "pin"}
    /\ (pc = "idle") = (cmd = "none") /\ cmd \in {"none", "lock", "update", "check"}
    /\ pc = "idle" => run = EmptyRun
    /\ (pc \in {"download", "extract", "unpack", "rename", "pin"}) = (picked # <<>>)
    /\ DOMAIN run.processed \subseteq DOMAIN run.resolved
    /\ run.pending # {} => Cardinality(Turn) = 1

\* Store: a keyed directory is either absent or complete, and holds the files
\* of the archive with that checksum, whatever crashes and whatever is
\* published between the index request and the download.
TreesComplete == \A s \in Sums : trees[s].state # "none" =>
                    trees[s] = [state |-> "full", bytes |-> s]

\* Resolver: at the fixpoint every dependency edge leads to a resolved package,
\* and for every registry package the dependencies its final set of features
\* enables have an edge to the right instance and were asked for the features
\* they should have.
GraphClosed ==
    Complete =>
      /\ \A e \in run.edges : e[2] \in DOMAIN run.resolved
      /\ \A id \in DOMAIN run.reqs :
           LET e   == run.resolved[id].entry
               req == Requested(run, id)
           IN  \A i \in DOMAIN e.deps : Enabled(e, req, e.deps[i]) =>
                 LET d == e.deps[i]
                     c == ReqKey(d, IF d.reg = 0 THEN id.reg ELSE d.reg)
                 IN  /\ run.named[<<id, d.name>>] = c
                     /\ FeaturesFor(e, req, d) \subseteq At(run.processed, c)

UniqueNames(l) == \A p, q \in l : p.name = q.name => p = q

\* The run reads a lock that promises something: since the run that wrote the
\* last one nothing it pins was yanked, replaced or edited, and the manifest is the
\* same.
Relocks == Complete /\ cmd # "update" /\ quiet.lock
Pinned  == NewLock(run) = wrote

\* What a lock must be for the code to keep it: the file is the one the last
\* finished command wrote, that command picked no package twice, and no package
\* is in it in two versions.
Whole     == lock = LockFile("ok", wrote)
OneChoice == quiet.once
OneMajor  == UniqueNames(wrote)

\* Lockfile: resolving again gives the same lockfile, even if new versions were
\* published and the git branch moved on, of a lock that is Whole, OneChoice and
\* OneMajor.
LockStable == Relocks /\ Whole /\ OneChoice /\ OneMajor => Pinned

\* The next three say that each of these is needed: they drop one of them and do
\* not hold (MCPkgTorn.cfg, MCPkgMajors.cfg, MCPkgRepick.cfg).
\* What lockfile.rs:4-6 says of every lock, a command that died over it included:
\* the lock is mutated only when the manifest demands a change.
LockIsTruth == Relocks /\ OneChoice /\ OneMajor => Pinned

\* What resolve.rs:8-9 says of every lock, one with two majors of a package
\* included: it is preserved while it satisfies the constraints.
MajorsPinned == Relocks /\ Whole /\ OneChoice => Pinned

\* The same of a lock whose run picked a version and then, asked for more
\* features, another: the packages only the first one needed are in it too.
RepicksPinned == Relocks /\ Whole /\ OneMajor => Pinned

\* What version.rs:3-6 says of the version picked: the highest one that every
\* requirement on it accepts, so at the end of a run every requirement is met.  It
\* does not hold (MCPkgUnify.cfg): one may come after the version was picked.
RequirementsMet ==
    Complete => \A id \in DOMAIN run.reqs : \A r \in run.reqs[id] :
                   Matches(r, run.resolved[id].ver)

\* Every command ends, also with cyclic dependencies and cyclic features.
CommandEnds == (pc # "idle") ~> (pc = "idle")
=============================================================================
