# Otter Fusion: TLA+ models and proofs

Otter Fusion is a compiled language (lexer, parser, type checker, HIR, Cranelift
backend) with a runtime that is linked into every program: a garbage collector,
an M:N task executor, an async lock `Shared<T>`, channels, timers and I/O
futures; and with a package manager (resolver, lock file, store, registry
server). The compiler is sequential text-to-text work that golden files test
well. The runtime is where several threads race on a few atomic flags, and the
package manager is where other people's publishing, crashes and half-written
files meet a long loop. These models are about those two.

The reference is the source at this commit. Every definition that models code
has its lines in the `map` of `PROJECT.json`.

## 1. Inventory

| Component | State | Operations | Meets | What makes it correct |
|---|---|---|---|---|
| Worker pool (`threads.rs` 424-660) | a deque per worker, the injector, `sleep_epoch`, `sleepers`, `EXEC_READY` | spawn, inject, pop, steal, sleep, wake | tasks are what it queues | a pushed copy is taken once, and never sleeps behind sleeping workers |
| Tasks (`threads.rs` 660-880, 1215-1270) | `queued`, `polling`, `reschedule`, `done`, `cancel_requested`, `poll_lock`, waker registry, input root | `poll_task`, `task_wake`, `cancel_task_by_id` | pool, `Shared`, channels, GC roots | one poll at a time, one ending, no lost wake |
| `Shared<T>` (`shared.rs`) | `locked`, ticket queue, held-lock sets | lock, try_lock, body, release, drain | wakes tasks; drained by panics and cancellation | exclusion, FIFO, hand-off |
| Channels (`channels.rs`) | message queue, waiters, endpoint counts, extra roots, active recv futures | send, recv, try_recv, acquire, release, cancel | wakes tasks; pins messages in the GC | FIFO, exact delivery, no lost wake, roots balance, close is final |
| Join handles, OS threads (`threads.rs` 80-400, 1096-1562) | `ThreadInner` (done, taken, outcome, result_pinned, detached, waiters, os) | spawn, publish, join, detach, cancel, spawn future | publishes what tasks end with; the collector | one outcome, rooted by one owner until it is taken |
| Timers and reactor (`async_rt.rs` 90-845) | timer heap, tokens, registrations, sleep and timeout registries, root driver | sleep, yield, timeout, cancel, fire | wakes tasks, cancels losers | a timer fires or is cancelled, once, and its waker is called |
| I/O futures (`async_rt.rs` 849-3090) | `IoCell`: started, cancelled, result, registration; helper threads | poll, run, complete, cancel | helper threads wake tasks; results carry handles | a completion is delivered or discarded once, with its handle and its root |
| Handles (`fs.rs`, `net.rs`, `process.rs`) | registries of `Arc<Mutex<_>>`, the child table and its condition variable | open, use, close, wait, kill, release | called by helpers; native waits meet the collector | open as long as it is used, one owner of a child, nobody sleeps for ever |
| GC world (`gc.rs` 789-810, 1052-1403) | `STOP`, `WORLD`, `GC_TURN`, mutator states, published roots | park, enter and leave native, start and end of a thread, stop the world | every runtime lock may park | nobody mutates during a mark, no deadlock with other locks |
| GC heap (`gc.rs`, `gc_alloc.rs`, retain and release sites of the backend) | objects, logs, strong counts, finalizer queue, extra roots, slabs, thread caches | alloc, retain, release, destroy, collect, finalize, exit | used by all | what is reachable lives, counts are exact, `drop` runs once |
| Package manager (`crates/pkg`, `cli` 1730-1911) | index and archives of the server, store, checkouts, manifest, lock file, the run's worklist | lock, update, check, add, remove, publish, yank | file system, network | whole trees, a closed graph, a stable lock, an end |
| Compiler, LSP, macros, stdlib | trees and tables | passes | – | not concurrent |

What is hard here: interleavings of atomics that are read one after the other
(`task_wake`, `poll_task`, timer tokens); state read before a lock and used after
it (`done`, `cancelled`, a child taken out of its table); wake-ups made after an
unlock; timeouts that give up a future which still has a place in somebody's
queue; cancellation that meets a poll or a completion in flight; roots taken by one
function and dropped by three others; locks that are held while a thread stops for
the collector; user code (`drop`) in the middle of a destruction; a crash between
two writes. `hazards` in `PROJECT.json` lists them by line, with the property that
covers each, or the reason why none does.

## 2. Modules

```
RunPool        what the run queues promise            (abstract)
WorkerPool     queues, stealing, sleep protocol       implements RunPool
TaskLife       what a task's observers may see        (abstract)
TaskExec       poll_task / task_wake / cancel         implements TaskLife,
                                                      uses RunPool's promise
  TaskExecProofs
SharedLock     one Shared<T> cell
  SharedLockProofs
Channel        one channel with its recv futures
  ChannelProofs
JoinHandle     one handle: worker, joiners, detach, cancel, collector
  ExecutorProofs                                      WorkerPool and JoinHandle
AsyncIo        root driver, reactor, timer driver, sleep, yield, timeout, I/O
  AsyncIoProofs
Handles        one file, socket or child process and the calls on it
  HandlesProofs
GcWorld        stopping the world, native waits, runtime locks
GcHeap         slabs, counts, mark and sweep, finalizers
  GcProofs                                            GcWorld and GcHeap
PkgResolve     resolver, lock file, store, git, registry server
  PkgResolveProofs
MC*            the modules TLC runs; constants are in the .cfg files
```

Each layer uses the one below by its promise. `WorkerPool` is shown to hand each
copy to one worker, once and eventually; `TaskExec` therefore keeps just the
number of runnable copies of each task. `SharedLock`, `Channel`, `JoinHandle` and
`AsyncIo` assume tasks that are polled after a wake; `TaskExec` says when that is so,
and the first of the observed disagreements below when it is not. `GcWorld` is what all of them
run on: their steps are steps of a thread that is not stopped, and the places where
they hold a mutex while they may park are its `LockedSafepoint` and `SendSafepoint`.
`JoinHandle` and `Handles` compose with the collector themselves, in the reduced
form that `GcWorld` justifies (a thread is RUNNING, stopped or native; the collector
waits for the RUNNING ones), because their hazards are about it. `GcHeap` takes a
collection as one step: `MarkAlone` of `GcWorld` is why it may. It takes every root as seen, which
`RootsComplete` grants but for a thread inside `runtime_lock` (`MCGcRoots.cfg`, below).

### WorkerPool

| TLA+ | Code |
|---|---|
| `queue[w]`, `queue[Injector]` | `Worker.queue`, `Injector.queue` |
| `epochLock` | the guard of `Injector.sleep_epoch`, held across `pop_task_definitive` |
| `sleepers` | the set behind the counter `Injector.sleepers` |
| `moved` | sleeping workers for which `*epoch != observed` holds |
| `stage[t]` | a submitter between its push and the end of `wake_one_sleeper` |
| `ready` | `EXEC_READY` |

A queue operation takes one mutex and nothing else: one step. A scan is one step
per queue. `pop_task` uses `try_lock`, so `PopTaskSkip` may pass a non-empty
queue; the definitive scan may not. `Condvar::wait` may return spuriously.
The load of `sleepers` is a step of its own. The model is sequentially
consistent; for the load of `sleepers` after a push this is justified by the
queue mutexes: if the scanning worker did not see the push, its unlock of that
queue precedes the submitter's lock, and its increment of `sleepers` precedes both.

### TaskExec

One step per atomic operation, critical section or call. `pc` follows
`poll_task`, `op` follows `task_wake`, `cancel_task_by_id` and the tail common to
all endings of a task. `held` and `pins` are the task's Shared locks and the extra
root of its input. Three histories (`begun`, `owed`, `wakes`) have no effect on
the code's steps other than the bound `MaxWakes`. `EndBody` is the whole poll of the
user's future; what the body did meanwhile is any number of wakes and cancellations
(`WakeLookup`, `CancelLookup` by a worker in `body`). A body that panics has its locks drained by the
boundary and a cancelled one by `cancel_task_by_id`; one that returns keeps those it has, so `EndsCleanly`
promises nothing about them there. Wakes of joiners, made when an
outcome is published, are covered by the outside thread, which may wake any task that
has been polled at any time.

### SharedLock and Channel

A poll decides under the object's mutex: one step. What comes after the unlock
(calling a waker, boxing a received value) is a step of its own, so that other tasks
come in between. `timeout_poll` polls the inner future first and looks at the timer
only if that was `Pending`: giving up is a branch of `Pending` and the actions
`TimeoutBody` and `Timeout`. `StaleWake` is any other event of the task.
`cancel_runtime_future` does nothing for lock futures and calls
`cancel_recv_future` for recv futures; that is what both models do.
In `SharedLock` the panic drain runs while the panicking task's waker is still live
and a cancellation drains after `done` is set (`Drain(t, live)`), as in the code.

### GcWorld

| TLA+ | Code |
|---|---|
| `stop`, `world`, `gcTurn` | `STOP`, the guards of `WORLD` and `GC_TURN` |
| `registered`, `mstate` | `MUTATORS`, `Mutator.state` |
| `frames` | threads whose generated frames hold managed pointers |
| `roots` | threads whose `Mutator.roots` have those pointers |
| `pc`, `back` | where a thread is, and where it continues after a park or a native wait |
| `mu` | a mutex taken with `runtime_lock` (executor queues, `sleep_epoch`, the Shared registry, the timer heap) |
| `inner` | `Channel.inner`, taken with a plain blocking lock |
| `marking` | history: the collector, from the end of the quiescence wait to `STOP = false` |

One step is one store, one load or one critical section; publishing roots and storing
the state are two steps, as in `park_self` and `enter_native`. The main thread starts
like any other: it registers before a second thread exists. `runtime_lock` tries the
mutex, and on contention goes native with no roots, gets the mutex while it is native
and returns through `leave_native` with the mutex in hand (`Granted`). A condition
variable wait under such a mutex behaves the same way and is covered by it.
`run_collection` that finds the threshold no longer met is a `TakeTurn` that is not
chosen. The sweep's release of channel endpoints is part of the collection:
`ReleaseEndpoint` takes `Channel.inner` and then a runtime mutex for the wake. The
reader-writer shard it also reads is never held by a stopped thread, so it is left out.
Any thread may call `runtime_lock`, one with live pointers in its generated frames too: a runtime
function of the program does. `RootsComplete` is stated for all threads and names the one that is
native in a runtime lock (`InRuntimeLock`) as its exception; `RootsOfAll` makes none.

### JoinHandle

| TLA+ | Code |
|---|---|
| `done`, `taken`, `outcome`, `pinned`, `detached`, `waiters`, `os` | the fields of `ThreadInner` |
| `registered` | the id is in `registry()` |
| `wpc`, `hand` | the worker from its first poll to the end of `finish_worker`, and the outcome it has yet to publish |
| `roots`, `inRoots`, `alive` | extra roots of the result or message and of the input; the object has not been freed |
| `jpc`, `first`, `held` | each joiner's poll; who took the outcome; whose frames reach it |
| `wstop`, `stop` | the worker is stopped at a contended runtime lock; a collection is wanted |
| `caught` | history: a collection found the outcome of a finished body without a root |

The four kinds differ as in the code: only an OS thread has an `os` handle and pins its
result as a pointer, only futures suspend and can be cancelled, only a spawn
future raises the panic of its task again. The poll of a joiner decides under the
`ThreadInner` mutex (one step); `os.join()`, boxing and unpinning come after it.
`EndBody` leaves the worker with the outcome in hand. The panic boundary pins a message before that, and an OS
thread goes straight on to pin its result; the result of the three executor kinds is pinned by `publish_done`
only, after `unregister_task_waker` may have stopped the worker. `HandoffAlive` is stated for all kinds and
names that window as its exception (`caught`); `ResultKept` makes none.

### AsyncIo

A source is a task's sleep, timeout or I/O cell. One step is one critical section or one
atomic operation: `active`, `fired` and the registration slot of a `TimerToken` are
separate steps of the driver (`DSwap`, `DFire`, `DTake`) and of `cancel`
(`DropDeadline`, `TakeSlot`), `reactor_cancel` and `reactor_wake_ready` are two steps
each. `hpc` is the helper thread of an operation (`io_run`, `io_complete`). `nap`
is the deadline for which the driver sleeps, so that a missing `notify_one` shows.
A plan is the shape of what the task awaits. `IoOp` has some ninety operations and
`io_run` one arm for each; for the properties they are of two kinds, those whose result
carries a new handle ("open") and the others ("read"). An "open" that fails behaves as a "read", so the
run has only the former.

### Handles

One handle is enough, since ids are never used again. A call is made by a helper
thread; `native` is its state for the collector. `arcs` and `mutex` are the clones
and the lock of an `Arc<Mutex<_>>`; `slot`, `status`, `waiting` the fields of
`ChildEntry`, `has` the call that took the child out, `table` the holder of the
table's mutex where it is held over a native wait: in `wait_child_table` and in
the early return of `wait` and `kill`, which drops the child under the guard.

### GcHeap

| TLA+ | Code |
|---|---|
| `carved`, `gfree`, `lfree`, `tlab` | `GlobalAlloc` and each thread's `LocalCache` |
| `objects`, `log`, `pending` | `Heap.objects`, `Mutator.alloc_log`, `FINALIZE_PENDING` |
| `count`, `kind`, `field` | the strong count, the descriptor and the one reference of an object |
| `refs` | what a thread's current frame has bound |
| `stack` | destructions in progress: `rc_finalize` (drop, children, free), the store that waits for one, `run_finalizers` |
| `drops`, `loose`, `tame`, `apart` | histories |

Objects have one field and one size class. Generated code is free to allocate, bind, share,
store, unbind and exit, also inside drop bodies; it has no data races on fields, which
the language leaves to `Shared<T>`. Two histories say what the guarantees rest on:
`tame` (no drop body gave away the object it was dropping, which the code frees all the
same) and `apart` (no two finalizable objects that refer to each other died in one
collection; `heap_held` shows what happens then).
What the marker reaches is the least set that contains the roots and is closed under `field`
(`Reach`); the code's worklist computes it, and `Blocks` is small enough for TLC to compute it
from the definition. `Threads` is finite and there is a kind of object (`HeapAssumption`).

### PkgResolve

| TLA+ | Code |
|---|---|
| `run` | `struct Run`: `reqs`, `features` (`features_of`), `processed` (`processed_features`), `resolved`, `edges`, `named` (`dependency_edges`) |
| `run.stack` | the calls of `seed` in progress, each with the dependencies it has yet to look at |
| `run.pending`, `Turn` | the batch of `Run::run`, and the first of it in the order of the ids |
| `picked` | the index entry `pin_registry` is called with, and then its archive |
| `trees`, `tmp` | `src/<hex>` of the store and its `.tmp` sibling |

A command is a sequence of steps: the seeding walk over path and git packages, the
worklist of registry packages (index request, download, verification, extraction,
pinning), and the writing of the lock. Between any two of them the server may publish a
version, replace one or yank one, a branch may move, a checkout may be edited, a request
may fail, and client or server may crash. Versions are numbers with a range function,
checksums identify contents; requirement matching is external (`semver`). Features,
optional dependencies and identity of package instances are as in `FeaturePlan` and `ReqKey`.
`Enrolled` is what `record_dependency` and `request_dependency_features` do for all the
dependencies that one manifest entry or one index entry brings in; since they only add to sets
and maps, the order in which an index entry's dependencies are visited does not matter as long
as no two have the same name. That is the assumption `NamedOnce`: an index entry is written from the
manifest's map of names (`package.rs:76`, `manifest.rs:20`). `resolved[id].entry` is kept beside what the code
keeps, so that `GraphClosed` can speak of the entry's dependencies.

A crash may come while the lock file is written. `fs::write` truncates and fills it in place, so what is left is a
prefix (`CutLocks`): cut inside a record it does not parse and counts as no lock, cut between two it is a
shorter lock, cut before the last line of a record it lacks that checksum. `wrote` remembers what the last finished
command wrote, and `quiet` whether anything the lock pins has changed since (`lock`), whether anything
has since the command started (`run`) and whether that run picked each package once (`once`). Stability of a lock has
three exceptions, each needed because the code does not keep such a lock: the file was cut (`Whole`), its run changed
its mind about a version (`OneChoice`), it pins two versions of a name (`OneMajor`). The counterexamples are in section 3.

## 3. Runs

Passing:

| Run | Instance | Checks |
|---|---|---|
| `worker_pool` | 2 workers, 1 outside thread, 3 copies | `NoLostSubmission`, `WorkConserving`, `ImplementsRunPool` (with liveness); deadlock checked |
| `task_exec` | 1 future, 2 workers, 1 outside thread, 4 wakes | `PollsLiveInput`, `EndsCleanly`, `WakeRecorded`, `ImplementsTaskLife` |
| `task_served` | 1 future and 1 closure on 2 workers, each body may wake (once) and cancel (ever again) the other task | `WokenIsPolled`, `CancelledEnds` |
| `shared` | 3 tasks, one with two lock futures under `timeout()`, one cancellable, all may panic | `LockHeldByOne`; and, until a cancellation or a given-up future, `HeadIsWoken`, `NoBarging`, `QueuedIsServed` |
| `channel_safety` | 2 messages, 2 receiving tasks with 2 futures each, a timeout and a cancellation, clones | `RootsMatch`, `FifoDelivery`, `NoLostWake`, `CloseReachesWaiters` |
| `join_handle` | all four kinds of worker, 2 joiners, 2 collections | `RootOwned`, `HandoffAlive`, `JoinersAnswered` |
| `async_io` | a task with any plan, cancellable, and a sleeper; deadlines 1 and 2 | `NothingLeft`, `NoLostWake`, `TimersEnd`, `CompletionIsSeen` |
| `handles` | 3 threads, a file, a socket or a child, 4 calls, 1 collection | `OpenWhileUsed`, `ChildOwned`, `SleeperIsTold`, `CallsReturn` |
| `gc_world` | 3 threads (generated code, worker, helper), 1 runtime mutex and 1 channel used by the first two, 2 collections | `MarkAlone`, `RootsComplete`, `NoLostResume`, `EndsUnlessJammed` |
| `gc_heap` | 2 threads, 2 blocks, 4 allocations of 4 kinds, 2 collections | `BlocksApart`, `NoDangling`, `CountsExact`, `DropOnce` |
| `pkg_resolve` | 5 projects over 3 registry, 1 git and 3 path packages with cyclic features; 3 commands, 1 outside event | `TreesComplete`, `GraphClosed`, `LockStable`, `CommandEnds` |

Every detailed module has a `TypeOK` that documents its state. Most inductive invariants of the
proofs contain it; no run lists one, since any of the properties above says more.

Violation, of what a comment and a document say (quoted under `findings`):

| Run | What happens |
|---|---|
| `heap_held` | two finalizable objects die together, one refers to the other; `run_finalizers` drops and frees the referent first, and the other's `drop` reads it |

Kept beside the runs, for whoever changes the code in question: seven configurations in which TLC finds a
counterexample to a property that a passing run checks with a named exception, stated without it. Each ends within
seconds, with the trace described.

| Configuration | Property | Its counterpart in a run | What the code does |
|---|---|---|---|
| `MCSharedLeak.cfg` | `DeadHoldNothing` | `EndsCleanly` | a body given up by `timeout()` keeps the lock, and the task returns without draining its held set: a dead task holds the lock for ever |
| `MCGcRoots.cfg` | `RootsOfAll` | `RootsComplete` | generated code with live pointers meets a contended runtime mutex and goes native with an empty root list; the collector marks without its roots |
| `MCJoinKept.cfg` | `ResultKept` | `HandoffAlive` | a task's result is freed by a collection that stops the worker in `unregister_task_waker`, before `publish_done` pins it |
| `MCPkgTorn.cfg` | `LockIsTruth` | `LockStable` | a second `lock` dies in its in-place write, a newer version comes out, and a third `lock` takes it |
| `MCPkgMajors.cfg` | `MajorsPinned` | `LockStable` | of two locked majors only the lower is found again; the other moves to a newer version |
| `MCPkgRepick.cfg` | `RepicksPinned` | `LockStable` | a version is picked, then dropped for an older one; what only the first needed is locked, and is gone in the next lock |
| `MCPkgUnify.cfg` | `RequirementsMet` | `GraphClosed` | a requirement filed after its package was resolved is not met by the version picked |

### Observed disagreements

The models contain the steps of the following schedules. Those that name a configuration are
shown by it; the others were each seen as a counterexample to the property named, when the
exception that the property now makes was left out of it, or of a statement that was only tried.

- **Follow-up poll** (`threads.rs:768`). A stale copy that fails the `try_lock` of `poll_lock`
  after the poll in flight made its last `swap` of `reschedule` leaves a note nobody reads;
  with `queued` still set, later wakes only repeat the note. The comment at
  `threads.rs:765-767` promises that the poll in flight will decide. `WakeRecorded` counts
  the note as a trace; without that, it fails; `WokenIsPolled` and `CancelledEnds` except the task that
  such a note strands (`Stranded`). A cancellation meets the same window, and a
  canceller that holds a closure's `poll_lock` for a moment makes its only copy bounce.
- **Cancelled head** (`shared.rs:623`). The head of a Shared queue is woken and then cancelled;
  the next waiter of the free lock is not woken, although `shared.rs:8-9` calls the lock
  starvation-free. `HeadIsWoken` and `QueuedIsServed` stop at the first cancellation (`clean`).
- **Leaked lock** (`threads.rs:849`; `MCSharedLeak.cfg`). `cancel_runtime_future` does nothing for a lock future
  that lost to `timeout()`, so the body is dropped with the lock held; `finish_worker` does not drain the held set
  of a task that returns. `docs/20-concurrency.html:687-688` and `shared.rs:19-22` say that a cancelled
  body releases the lock. A waiter given up by `timeout()` leaves its ticket at the head.
- **Stopped sender** (`channels.rs:243`). `send` holds `Channel.inner` while `runtime_read_lock`
  may park; another sender blocks on it as RUNNING, and the collector waits for that one
  (`gc.rs:806-808` says its wait never deadlocks). This is the first disjunct of `GcWorld`'s `Jammed`.
- **Missing roots** (`shared.rs:63`, `threads.rs:441`; `MCGcRoots.cfg`). A runtime function called from generated
  code meets a contended mutex and goes native with an empty root list (`gc.rs:1241-1242`: "no language
  roots on its stack").
- **Unrooted result** (`threads.rs:849`; `MCJoinKept.cfg`). Between the return of a task's body and `publish_done` nothing
  roots its result, and `unregister_task_waker` may stop the worker there; `gc.rs:1174-1176` takes it that
  "language state lives in the pinned task/future graph".
- **A join that blocks** (`threads.rs:1183`, "this `join()` won't block"). `done` is published before
  the worker calls its joiners' wakers, where it may stop for a collection; the joiner sits in
  `os.join()` as RUNNING, and the collector waits for it (`Hung` in `JoinHandle`).
- **Locks held into `leave_native`** (`fs.rs:147`, `process.rs:224`, `process.rs:392`). A second user
  blocks as RUNNING while the holder waits for the collection to end (`Jammed` in `Handles`).
- **Late requirement** (`resolve.rs:533`; `MCPkgUnify.cfg`). A requirement filed under a range that is already
  resolved is not looked at unless new features come with it, so the version picked may not
  satisfy it, against `version.rs:3-6`.
- **Locks that are not kept** (`main.rs:1856`, `resolve.rs:570`, `resolve.rs:649`; `MCPkgTorn.cfg`,
  `MCPkgMajors.cfg`, `MCPkgRepick.cfg`). See PkgResolve, above; against `lockfile.rs:4-6` and `resolve.rs:8-9`.
- **Replaced archive** (`resolve.rs:615`). A locked version is verified against the checksum of the
  index, not of the lock: a version that was published again changes under the lock,
  against `lockfile.rs:6-8`.
- **Shared temporary** (`store.rs:164`). Two builds extract through one `.tmp` directory; the second
  removes what the first unpacked, and the first may rename what is left, although
  `store.rs:169` means to handle a concurrent build. One client is modelled, so this one
  is read from the code.
- With `ElemIsPtr = FALSE` `send` pins a scalar word that `recv` does not unpin. A lock future
  whose ticket was replaced by another future of its task takes a free lock without looking at
  the queue.

### Bounds

Two workers are the fewest that can steal, sleep at the same time and notify the
wrong one; three copies put a copy in each queue or two in one, so that the front
and the back differ. The counters `next` and `pos` wrap in this instance. One task
carries all races of `TaskExec` (tasks share nothing else but the workers); four
wakes allow one in each of the windows of a poll and one more after it. In `task_served`
one wake and any number of cancellations reach every stranding. Three tasks
make a holder, a head and a follower of a lock; the second lock future of a task is
what replaces a ticket. `MaxTicket` stops the queueing of new tickets, `MaxEnds` the
clones, `MaxWakes` the wakes: each is a guard, and nothing else is cut.
`CHECK_DEADLOCK FALSE` stands where the system may legitimately stop: every
task has ended or is parked and the bounded calls are used up.

Three threads in `GcWorld` are a collector, a thread that stops and one that starts,
returns or blocks meanwhile; two collections let a thread that wakes from the first
meet the second at the barrier. Two joiners are one that takes the outcome and one that
comes late. In `AsyncIo` the second task's timer is due before the first task's deadline or after,
so the driver has both to interrupt and to keep its sleep. Three callers of `Handles`
are one in the system call, one asleep and one that closes; four calls use the
handle after it is gone. In `GcHeap` two blocks make a referrer and a
referent, and the four allocations reuse blocks; `Chunk` and `Batch` are small enough
that a refill takes from the global list, carves a slab, and runs out. `MaxCmds`,
`MaxEnv` bound the commands and outside events of `PkgResolve`: a lock, a command that finds it and may
die over it, and a third that finds what is left, with a change of the world at any step (the three invariants
were checked with two as well, on 2.2 million states). `MCPkgMajors.cfg` and `MCPkgRepick.cfg` have a world of their own (`SecondPublished`), of two
commands: in the first world no lock has two majors, and no version that is dropped has dependencies.

`gc_heap` uses symmetry in the two threads, which run the same program; it checks
invariants only. Its `CONSTRAINT Clean` stops at states where `tame` or `apart` is gone:
three of its properties are stated under `Clean`, and neither history comes back, so nothing that
could break one is cut; `BlocksApart` is not conditional, and proved for the runs that are cut here. No other run uses symmetry or a constraint.

### Fairness

Threads are run by the OS (weak fairness of their steps), a mutex that keeps
becoming free is granted (strong fairness of `BumpEpoch`, `LockEpoch`,
`Reacquire`, and of `Step` in `Handles`), a poll of a future returns after finitely many calls (strong fairness of
`PollStep`: a body that makes one call after another never returns). A copy in the
pool is popped (`RunPool`). Generated loops reach safepoints, since the compiler puts
one at every back-edge (strong fairness of `Safepoint`), and a thread past a choice goes
on, getting mutexes that keep becoming free (strong fairness of `Proceed \/ Acquire`). In
`JoinHandle` a body ends and a woken joiner is polled; in `AsyncIo` time passes, the driver and
the helpers go on, but an operation may take for ever (`HRun` is not fair), as a read may in
`Handles` (`BodyUse`) and a child may run for ever (`Exit`). In `PkgResolve` a command goes on;
the outside world need do nothing. Nobody is obliged to submit, wake, cancel, send, close or
release. The liveness of tasks is that of any number of workers and names
the task stranded for ever as its exception (`Stranded`; follow-up poll, above).
`EndsUnlessJammed`, `JoinersAnswered` and `CallsReturn` name the jams that stop them.

## 4. Proofs

All for every value of the constants, under the named assumptions of each module
(a positive number of workers, disjoint sets of threads, distinct "none" values).

**`NoSubmissionIsLost`** (`ExecutorProofs`): `Spec => []NoLostSubmission`. The
property is not inductive: it does not say why a worker that ends an empty scan may
sleep. The inductive invariant `IInv` adds

- `SleepersExact`: the workers counted in `sleepers` are those in the definitive scan, waiting or woken;
- `LockHeld`: a worker in the definitive scan holds `sleep_epoch`, so at most one scans and no epoch moves meanwhile;
- `ScanFromStart`: a worker that is not in the middle of a scan starts at probe 1;
- `ScanSound`: each queue the definitive scan has passed is empty, or somebody is awake, or the thread that filled it has not finished `wake_one_sleeper`.

The step that matters is `PopDefinitiveEmpty` at the last probe; it needs the
arithmetic lemma that the probes of a worker reach every queue.
`PoolTypeCorrect` comes from the same invariant.

**`QueuesImplementRunPool`** (`ExecutorProofs`): the safety half of `ImplementsRunPool`,
`Spec => Pool!Init /\ [][Pool!Next]_(Pool!vars)`. The mapping forgets the queues: `waiting` is the set
of queued copies, `polling` is `current`. A pop is a `Take` only if no second position holds the same
copy, so `OnePlace` is needed: a copy is at one position of one queue and no longer fresh, and
only a worker in `run` has a current copy. `RestOf` says what either end's pop leaves.

**`OneWakePerPush`** (`ExecutorProofs`): `Spec => []WorkConserving`. Two things are missing in the property.
A woken worker whose epoch has not moved goes back to wait, so the bound must hold while
anybody is *asleep*, not only parked; and a worker that ends an empty scan leaves the ones on
their way, so `Enough` adds that the queues a definitive scan has passed hold at most as many
copies as there are submitters that have not finished `wake_one_sleeper`. The counted sets
are shown finite along the way; the set of outside threads may be infinite.

**`BodyRunsOnLiveInput`**, **`TasksEndCleanly`**, **`WakesLeaveATrace`** (`TaskExecProofs`):
`PollsLiveInput`, `EndsCleanly` and `WakeRecorded`, for any number of tasks, workers and other
threads. The invariant is about the ownership of `poll_lock`:

- `Placed`, `LocksHeld`: who is past the lock in `poll_task` or in the held part of a cancellation
  holds the lock of that task, by the poll or by the call, not by both;
- `DoneKnown`: what such a thread has read of `done` is still true, since only it may set it;
- `VerdictKnown`, `EndingStage`, `EndedOrLive`: how far an ending has come, in each of its two orders
  (a cancellation releases the input before it publishes, the others after);
- `Traced`: a sharper `WakeRecorded` that names the places of a worker which still lead to a poll or a push.

**`TasksImplementTaskLife`** (`TaskExecProofs`): `Spec => ImplementsTaskLife`, the whole abstract
specification, from the same invariant: a poll begins, suspends and ends under `poll_lock`, so
each of these is one step of `TaskLife`, and no other step changes what it sees.

**`LockIsExclusive`** (`SharedLockProofs`): `Spec => []LockHeldByOne`, for any
number of tasks and of lock futures, with timeouts, panics, cancellations and
early returns. Invariant: `Shape` (the parts of the type that matter), `BodiesHold`
(a task inside a body has the cell in its held set), `FlagMatches` (the flag is set
exactly when one held set has the cell). It uses nothing about the queue: exclusion
rests on the flag alone, which is why a stale ticket cannot break it.

**`FreeLockWakesHead`**, **`AcquisitionIsFair`** (`SharedLockProofs`): `HeadIsWoken` and the action property
`NoBarging`. Both are conditional on `clean`, that nobody was cancelled or gave up so far; so is
`Orderly`: the entries of the queue are live tasks that await that very ticket (`EntriesWait`), every
live queued future is in the queue (`WaitersQueued`), and tickets grow along it (`InOrder`).
Hence pruning and `WithoutTask` find nothing to remove (`NothingToPrune`, `NothingToRemove`), which is how
the proof avoids what filtering a sequence computes.

**`DeliversInOrder`**, **`NoWakeIsLost`**, **`MessagesStayRooted`** (`ChannelProofs`): `FifoDelivery`, `NoLostWake`
and, for managed elements, `RootsMatch`. A message is in one place (`OnePlace`), a receiver that
nobody is about to poll is listed (`Listed`). Without `ElemIsPtr` the roots do not match:
`lang_chan_send` pins every payload and `chan_recv_poll` unpins only a managed one, so
`MessagesRooted` states the weaker fact that holds of both and the theorem has the hypothesis.

**`RootHasOneOwner`**, **`OutcomeSurvivesHandoff`** (`ExecutorProofs`): `RootOwned` and `HandoffAlive` for any
number of joiners and collections. `Stages` ties `done`, `outcome` and the input's root to where the worker is,
`Takers` says that one joiner or `detach` takes the outcome, `Stops` and `AliveBefore` where a collection may
find it unrooted. `HandoffAlive` speaks of every kind of outcome; what it leaves out by name is the result of
a task that a collection found in the window of `MCJoinKept.cfg`.

**`FinishedTasksLeaveNothing`**, **`SuspendedTasksAreWoken`** (`AsyncIoProofs`): `NothingLeft` and `NoLostWake` for any
number of tasks, plans, cancellations and durations. The invariant is one statement about each task, in
five parts:

- `Flow`, `Ending`: which cells of its future are left at each place of a poll and of a cancellation;
- `Registration`: a registration is in its slot or with exactly one of task, driver and helper,
  listed until that party unlists it, and active until that party decides;
- `Timer`: a token has one heap entry until the driver has it, fires unless it was cancelled first, and
  a token that fired is being rung, has woken the task, or will be looked at by the poll in progress;
- `Operation`: how the helper's place, the result, its root, its handle and `cancelled` fit together.

The steps of other tasks touch none of a task's sources, so one lemma (`TaskStep`) covers all
pairs of tasks; the timer driver is the only thing they share.

**`CollectorIsAlone`**, **`RootsAreSeen`**, **`ResumeIsNotLost`** (`GcProofs`): `MarkAlone`,
`RootsComplete` and `NoLostResume` for any number of threads and collections. One
inductive invariant carries all three:

- `WorldHeld`: whoever is between taking and dropping `WORLD` holds it, a collector that
  blocked in its own sweep included;
- `MutatorsKnown`: a started thread is in `MUTATORS`, and RUNNING unless it is out;
- `OthersQuiet`: while a collector marks, everybody else is at a place where a thread
  runs nothing; it is kept because the only way back, `EnterRunning`, needs `WORLD`;
- `FramesSeen`: a thread that is out has published what its frames hold, unless it went
  out through a runtime lock.

`RootsAreSeen` has no hypothesis: threads enter `runtime_lock` with or without pointers in their generated
frames, and the thread that waits there is the exception inside `RootsComplete` (missing roots, above).

**`ObjectStaysOpen`**, **`ChildHasOneOwner`** (`HandlesProofs`): `OpenWhileUsed` and `ChildOwned`
for any number of threads, calls and collections. Neither is inductive alone: nothing in them
says what a call in flight may still do. The invariant adds

- `OpensAlone`, `Unmade`: the call that makes the handle runs alone until it has registered it,
  and before that nothing is held;
- `EntryGone`: who drops the object has removed the entry or found it removed, so the entry
  never speaks of a dropped child;
- `CallsHold`: `wait` and `kill` have the child in hand from taking it out to giving it back,
  which is why putting it back leaves no second owner;
- `OneOwner`: `ChildOwned` with "at most one" stated by equality, for the provers.

**`SleepersAreTold`** (`HandlesProofs`): `SleeperIsTold`, with `HoldersWork` added: while the entry is there, a
child that is out of it is with a `wait` or `kill` that has yet to put it back and notify.

**`BlocksStayApart`**, **`HeapTypes`** (`GcProofs`): `BlocksApart` and `TypeOK` of `GcHeap`, on every run, whatever
`drop` bodies do. The invariant is `Structure`:

- `Allocator`: a block is in use, in the global free list, or in one thread's list or slab, once, and was carved;
- `Registry`: the objects in use are those of the registry, the threads' logs, the finalizer queue, and
  the one finalized object whose destruction is in progress, each in one of these;
- `FrameOK`, `Shape`: which frames of destruction may lie on which (a suspended store under the
  destruction it waits for, a finalizer on the collector's loop), and what a thread has bound meanwhile;
  the loop is in the thread with the turn, so a finalizer's object is freed by that thread alone.

The lists are sequences without repetition; `SplitInjective`, `ConcatInjective`, `FrontOfInjective` and
`SetToSeqOf` say that refilling, giving back, popping and freeing a batch keep them so.

**`CountsAreExact`**, **`DropsRunOnce`**, **`ReachableLives`** (`GcProofs`): `CountsExact`, `DropOnce` and `NoDangling`
of `GcHeap`. They are stated for clean runs, and none is inductive without the others: a release frees
because the count is exact, the count stays exact because what is freed has no referrer, and a drop runs
once because no frame destroys what another destroys. `HeapInv` is `Structure /\ (Clean => Safe)`, where `Safe` has

- `CountOK`: the count covers the bindings, the references put aside while a destructor runs, the values of suspended stores and
  the fields of objects (`Owners`), and equals them unless the object is `loose`;
- `Unique`: no two frames destroy or store into the same object;
- `DyingOK`, `PendingOK`: what is being destroyed has no owner left, what awaits its finalizer has one to run;
- `HeldOK`, `FieldOK`: what is bound or put aside is neither, and a field names such an object only if it is the
  object's own or about to be overwritten;
- `StoreOK`: a suspended store writes over a reference to the object that is destroyed above it;
- `DropsOK`: the number of drops run, by how far the object has come.

The steps that matter are `Store` of a last reference (`SafeStoreLast`: the destructor runs before the field
is written), `ReleaseKids` (a cascade: the dying parent's reference is the child's last) and `Collect`
(`SafeCollect`). For the collection, `CollectMarks` shows that all that anybody holds is marked, and that what is swept
is named by swept objects only; it uses of `Reach` that it is the least closed set (`ReachFacts`), and so no
induction. The counts change by sizes of finite sets: `PutAside`, `TakeBack`, `Exchanged`, `Decremented`.

**`TreesStayComplete`** (`PkgResolveProofs`): `Spec => []TreesComplete`, for all packages, uploads and crashes. `StoreInv`
adds that the bytes in hand have the checksum under which they are filed from the
verification on, and that `.tmp` is whole when it is renamed. One client is modelled (shared temporary, above).

**`GraphsClose`** (`PkgResolveProofs`): `Spec => []GraphClosed`. The property speaks of the end of a run only; the invariant
`RunInv` of every intermediate state has

- `EdgesLead`: an edge leads to a package that is resolved or asked for;
- `Listed`: what is asked for, pending or processed are registry packages, and a resolved one was processed;
- `StillGood`: what a package led to when it was processed is still there, with at least the features it asked for
  (`Led`). It survives because requirements and features only grow, and because an entry of `named` is
  overwritten only by its own parent (`LedKept`); a package's entry names each dependency once (`NamedOnce`).

At the end the features of each package are those it was processed with, which closes the graph. That is where the
mutation `Pending_Once` breaks it. `Active` stays opaque: the proof needs no fact about what features enable.

Each inductive invariant was checked by TLC on the instance of its run before it was proved.

Checked by TLC only:

- what needs fairness, which is out of the prover's reach: `QueuedIsServed`, `WokenIsPolled`, `CancelledEnds`,
  `CloseReachesWaiters`, `EndsUnlessJammed`, `JoinersAnswered`, `TimersEnd`, `CompletionIsSeen`,
  `CallsReturn`, `CommandEnds`, and the fairness of `RunPool` in `ImplementsRunPool`;
- `LockStable` of `PkgResolve`, with its three exceptions: it compares the results of two runs of the resolver, in which packages may be found in
  different orders, and a proof needs that the end of a run does not depend on the order (that it is the least
  solution of its requirements), an induction over the length of a run.

## 5. Not modelled

The `components` of `PROJECT.json` list every part with its reason. In short:

- the lexer, parser, formatter, linter, semantic analysis, HIR lowering, macro engine and
  the greater part of the code generator: sequential translations of text and trees,
  most of the repository's lines, where a model would repeat the program;
- the language server: a loop that answers one message at a time from the current text;
- strings, lists, maps, hashing and formatting: sequential data structures;
- operations on paths, addresses and the environment: system calls without state here;
- `setjmp`/`longjmp` (its effects are in `TaskExec`, `SharedLock` and `JoinHandle`), large
  objects of the allocator, HTTP framing and authentication of the registry;
- weak memory: the models are sequentially consistent.

## 6. Plan

1. Two clients of one package store, and of one registry server (`publish` and `set_yanked`
   read, change and write the index without a lock).
2. Objects with two fields and channel endpoints in `GcHeap`.
3. Proofs: `HeapInv` for objects with several fields; for `LockStable`, the least solution as a definition, and that every
   run ends in it.
