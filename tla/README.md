# A TLA+ verification project for the Maple runtime of OpenArkCompiler

OpenArkCompiler compiles Java and C to Maple IR and on to AArch64, and ships the
runtime ("mrt") that the compiled code runs on. The compiler (`mapleall`, `mplfe`) is in
the main sequential batch code; the runtime is where threads, signals, futexes
and a concurrent garbage collector meet. This project models the concurrent parts of
the runtime and the one concurrent part of the compiler, its task scheduler,
model-checks them with TLC and proves central safety properties with TLAPS.

Paths below are relative to `src/src/mrt/compiler-rt/` unless they start with `src/`.

## 1. Inventory

| Part | State it keeps | Operations | Hard behaviour |
|---|---|---|---|
| Saferegion (`include/saferegion.h`) | one 64-bit word with `saferegionCount` and `pendingCount`; a flag per mutator | enter, leave, both slow paths | lock-free counters, futex wake-ups, a stop racing a mutator that leaves |
| Yieldpoints and stop-the-world (`src/yieldpoint.cpp`) | polling page, `stwMutex`, `worldStopped`, `saferegionStateChanged` | `StopTheWorld`, `StartTheWorld`, yieldpoint signal handler, init/fini of a mutator | several stoppers, nested locks, mutators that attach and detach meanwhile |
| Mutator list (`include/mutator_list.h`) | list of mutators and its mutex | add, remove, lock, visit | the list must not change while the world is stopped |
| Worker pool of the collector (`src/collector/mpl_thread_pool.cpp`) | task queue, two counters, four condition variables, `running`, `exit` | `AddTask`, `Start`, `WaitFinish`, `Stop`, `DrainTaskQueue`, `Exit` | condition variables, tasks that add tasks, exit during a collection |
| GC task queue and requests (`include/collector/task_queue.h`, `src/collector/collector_tracing.cpp`) | sync and async queues, indices of requested and finished collections | `Enqueue`, `Dequeue`, `RequestGCAndWait`, `NotifyGCFinished`, start/stop of the GC thread | requests that join an earlier one, waiters at exit, time-outs |
| Concurrent stack scan (`src/collector/collector_ms.cpp`, `include/collector/collector.h`) | scan state per mutator, snapshot of mutators, number still to scan | scan by the GC thread, scan by the mutator itself at the barrier | two scanners of one stack, a mutator that exits during the scan |
| Concurrent marking and SATB buffer (`include/collector/satb_buffer.h`, `src/collector/collector_ms.cpp`) | mark bitmap, per-mutator log nodes, free and retired lists | write barrier, retire, mark, re-mark, cleanup | mutation during marking; log nodes of exiting mutators |
| Reference counting (`include/collector/rc_inline.h`, `src/collector/collector_naiverc*.cpp`) | RC header bits, weak and resurrect counts | inc, dec, release, volatile loads and stores, weak loads | one compare-and-swap for three counts; fields locked by a thread id; who releases |
| Cycle patterns (`src/collector/cycle_collector.cpp`, `cp_generator.cpp`, `conn_comp.cpp`) | learned patterns, candidate roots | match, generate, merge patterns; connected components | sequential graph algorithms |
| Reference processors (`src/collector/rp_base.cpp`, `gc_reference_processor.cpp`, `rc_reference_processor.cpp`) | queues of pending references and finalizers, state of the processing thread | discover, enqueue, clear, finalize, start and stop | decides that an object is only weakly reachable while `get()` may revive it; finalizers that resurrect |
| Native GC heuristics (`src/collector/native_gc.cpp`, `stats.cpp`) | byte counters, thresholds | account, decide whether to collect | floating-point thresholds |
| Allocator (`src/allocator`, `include/allocator`) | runs, pages, free lists, per-thread caches | allocate, free, sweep | concurrent sweep against allocation |
| Linker and loader (`src/linker`, `src/loader`) | method/field tables, lazy binding slots | resolve, bind, cache | racing lazy bindings |
| Exceptions (`src/exception`) | unwinder state | throw, catch, stack walk | sequential, ABI level |
| Class initialisation and reflection (`src/src/mrt/maplert`) | class init state words | `MRT_TryInitClass`, super classes and interfaces, `<clinit>`; reflection calls | racing, recursive and failing initialisers |
| Watchdog (`src/collie.cpp`) | timers | start/end of a pause | |
| Compiler middle and back end (`src/src/mapleall`) | IR, SSA, CFG, analyses | phases | algorithmic, sequential |
| Parallel scheduler of the compiler (`src/src/mapleall/maple_util`) | tasks, the id to run next, ids to finish, two finish counters | `AddTask`, `RunTask`, `Reset`, two thread functions | ordered finish of tasks that end in any order, by a thread that polls |
| Front ends (`src/src/mplfe`) | parsed inputs, types | parse, convert | sequential |

**How the parts interact.** Compiled code runs as a *mutator*. It polls a page at
yieldpoints, and moves between managed code and the saferegion when it calls
native code. A thread that needs a collection puts a request into the task queue
and waits. The GC thread takes it, locks `stwMutex` for the whole collection
(`ScopedLockStopTheWorld`), stops the world once, remembers which stacks have to
be scanned and switches every mutator's write barrier on, and starts the world.
Stacks are then scanned concurrently, by the GC thread or by the mutator that wants
to leave the saferegion; marking tasks go through the worker pool; mutators log
what they overwrite in SATB nodes. A second pause collects the nodes, finishes
marking and decides what is garbage; the sweep is concurrent again. Meanwhile
threads attach and exit at any time.

**What makes each part correct.** Saferegion: no mutator is in managed code in a
stopped world, every requested stop is reached, every blocked mutator is woken.
Pool: a stopped pool is quiet and no task is left behind. Requests: a blocking
request returns after a collection that began after it, and always returns. Stack
scan: each stack is scanned exactly once, before its owner runs again. Marking:
no object that a mutator can reach is swept. Log lists: no node is lost, duplicated or
owned twice. Reference counts: they equal the references there are, the object is freed
once and only when nobody has it, and it is freed when lost. Class initialisation: at
most once, super types first, nobody sees a class half initialised, every use returns.
Scheduler: each task finished once, in order, after it was run.

## 2. Modules and how they correspond to the code

An action is one atomic operation of the code (a read-modify-write, or a critical
section) together with the thread-local branch that follows it; a program counter
per thread says where it is. `PROJECT.json` maps every definition to its lines.

| Module | Models | State and actions |
|---|---|---|
| `StopWorld` | the promise of stop-the-world | a set of running mutators and a flag; nobody resumes in a stopped world |
| `SafeRegion` | `saferegion.h`, `yieldpoint.cpp`, `mutator_list.h` | the two counters of the atomic word are one record `instance`; futexes are labels `..._blocked` that a wake-up moves on; `stwMutex` is recursive (`stwDepth`); the polling page is `pageReadable`. Actions follow `DoEnterSaferegion`, `DoLeaveSaferegion` and its slow path, `InitYieldpoint`, `FiniYieldpoint`, `StopTheWorld`, `WaitForAllMutatorsStopped`, `StartTheWorld` statement by statement |
| `SafeRegionProofs` | proofs about `SafeRegion` | |
| `ThreadPool` | `mpl_thread_pool.cpp` | the task queue, `running`, `exit`, both counters; the four condition variables are labels; an action is one critical section of `taskMutex` |
| `ThreadPoolProofs` | proofs about `ThreadPool` | |
| `GCRequest` | `task_queue.h`, the request part of `collector_tracing.cpp` | the FIFO queue and the lock-free word (a set of bits), both indices, the loop of the GC thread, the three kinds of request, the dropped request (`OnUnsuccessfulInvoke`), start and stop of the GC thread |
| `GCRequestProofs` | proofs about `GCRequest` | |
| `StackScan` | stack scan in `collector_ms.cpp`, `collector.h` | `scanState`, `snapshotMutators` and its mutex, `numMutatorToBeScan`, the pool's queue as a set of tasks; the barrier in the mutator and the loop of the GC thread interleave instruction by instruction |
| `StackScanProofs` | proofs about `StackScan` | |
| `ConcurrentMark` | marking in `collector_ms.cpp`, `collector_ms.h`, `satb_buffer.h`, the barrier of `collector.cpp` and `cinterface.cpp` | a heap of objects with fields and static fields, the references on each stack, the SATB nodes, the retired list, mark and enqueue bitmaps, the work stacks of all tasks as one set |
| `ConcurrentMarkProofs` | proofs about `ConcurrentMark` | |
| `SatbNodes` | the lock-free lists of `satb_buffer.h` | `head` of both lists and `next` of every node; `Push`, `Pop` and `PopAll` one memory access per step, with compare-and-swaps that fail for no reason; `EnsureGoodNode` with a new page pushed node by node, `~Mutator`, `GetRetiredObjects`, the visit of the mutators in the second pause. `list` is a history of what the operations must have left in each list |
| `SatbNodesProofs` | proofs about `SatbNodes` | |
| `RefCount` | `rc_inline.h`, volatile fields in `collector_naiverc.cpp`, one Reference in `rc_reference_processor.cpp`, finalizers in `rp_base.cpp` | one object: its header (three counts and the collected bit, with their limits), the bits `finalizable` and `enqueued`, a volatile field, a WeakReference and a PhantomReference to it, the references in locals. Each header operation is one compare-and-swap; what a thread does with its result (`Release`, `CollectedWeak`, `AddFinalizable`) are steps of their own |
| `RefCountProofs` | proofs about `RefCount` | |
| `ClassInit` | `src/src/mrt/maplert/src/mrt_class_init.cpp` | state and monitor of each class, a stack of frames and a pending exception per thread. `TryInitClass` reads the state without a lock, `InitClassImpl` again under the monitor; `InitSuperClasses` is a frame with a position in the super class array; an initialiser uses any of its classes in any order and may throw |
| `MplScheduler` | `src/src/mapleall/maple_util/src/mpl_scheduler.cpp` | the counters and the set of ended tasks; an action is one critical section. `ThreadMain` is a worker, `ThreadFinish` the finishing thread; the owner adds tasks, runs them in either mode, joins and resets |
| `MplSchedulerProofs` | proofs about `MplScheduler` | |

Each `MC...` module instantiates one of them.

The modules rest on one another. `StackScan` and `ConcurrentMark` take a pause as
an atomic step, or as a phase in which no mutator leaves the saferegion, attaches
or detaches: that is what `SafeRegion` shows (`StoppedMeansParked`,
`ListFixedWhilePending`), and what `StopWorld` states as an abstract specification.
Both take the pool as a set of tasks that is empty when `WaitFinish` returns:
that is `NoTaskLeftBehind` of `ThreadPool`. `ConcurrentMark` scans a stack in one
step, before its owner runs managed code: `RunsOnlyScanned` and `EachStackOnce` of
`StackScan`. It takes the log lists for sets: `ListsMatch`, `OneOwner` and
`NothingLost` of `SatbNodes` say that they behave as such.

`RefCount` is about the other collector of the runtime, which counts references and
uses the tracing one only as a backup. The references that a finalizer stores, the `get()` of a
mutator and the passes of the reference processor all act on the one header, which is
why they are one module and not three.

## 3. Runs

| Run | Instance | Checks | Result |
|---|---|---|---|
| `saferegion_safety` | 2 mutators, 2 GC threads, EINTR and time-outs | `TypeOK`, `StoppedMeansParked`, `NoFatal`, `FiniNeverBlocks`, `RestoresCaller`, `NoLostWakeup`, `ListFixedWhilePending`, `Refinement` | holds |
| `saferegion_liveness` | 2 mutators, 1 GC thread, no EINTR, no time-outs | `StopCompletes`, `BlockedIsWoken` | holds |
| `threadpool` | 3 workers, 2 tasks, spurious wake-ups, `Exit()` at any moment | `CountersExact`, `StoppedIsQuiet`, `NoTaskLeftBehind`, `WaitFinishReturns`, `ExitEndsWorkers` | holds |
| `gcrequest` | 2 requesters, reasons of each kind, at most 3 indices | `ServedOnReturn`, `WaitersReleased`, `StoppersReleased` | holds |
| `stackscan` | 2 mutators, EINTR and spurious wake-ups | `RunsOnlyScanned`, `EachStackOnce`, `NoDeletedMutator`, `BarrierEnds` | holds |
| `concurrentmark` | 2 mutators, 2 objects with a field, nodes of 1 entry, 3 heap operations | `NothingHidden`, `NoLiveGarbage` | holds |
| `concurrentmark_static` | 1 mutator, 2 objects, a static field, 4 heap operations | `NoLiveGarbage` | holds |
| `concurrentmark_exit` | as `concurrentmark`, a pause may fall into an exit | `NoUnmarkedLive` | violated |
| `satbnodes` | 2 mutators, 2 nodes at the start, a page of 2 | `OneOwner`, `NothingLost`, `ListsMatch` | holds |
| `refcount` | 2 mutators and the reference processor, 2 references in locals | `NoUseAfterFree`, `CountsExact`, `CollectedIsDead`, `LostIsFreed` | holds |
| `classinit` | 2 threads, 3 classes, 3 interfaces, throwing initialisers | `ClinitOnce`, `NoHalfInitialised`, `SupersFirst`, `TryReturns` | holds |
| `mplscheduler` | 3 workers, up to 4 tasks per round, both modes | `FinishInOrder`, `FinishedOnceAfterRun`, `NothingLeftOut`, `RunTaskReturns` | holds |

The type invariants of the modules that do not list one are stated in the modules and were
checked with the same instances.

**Bounds and why they are enough.** Two mutators and two stoppers in `SafeRegion`
are the fewest with which a mutator can leave while another is the last to enter and
a second stop follows the first; the theorems of section 5 hold for any number. Three
workers with `maxActive` anywhere between 1 and 3 let one worker sleep, one wait and
one execute at the same time. `MaxIndex` bounds the number of blocking requests:
three indices let a request join a queued one, miss a running one and wait for the
next. `NodeSize = 1` makes every second log entry retire a node. `MaxOps` bounds the
heap operations: two hide an object from a marking without barrier (load it, overwrite
its only reference), three do it through a race or with a new object. `Init` of
`ConcurrentMark` is every heap of that size, and the constraint `OneCollection` spends
the operations on one collection, because before the first pause they only lead to
another heap of `Init`, and the second pause empties the log.

In `SatbNodes` two mutators let one be in the middle of a `Pop` while the other pops,
fills and retires the same node, and takes the next ones; two nodes at the start and
two of a page let the free list run empty and be refilled under a `Pop` that has begun.
In `RefCount` `MaxHeld` bounds the references in locals of all threads together: two are
enough for one to be dropped while another is copied, stored or revived by `get()`. The limits
of the counts are out of reach in this run, so that `CountsExact` excludes no state for them; the
theorems of section 5 hold for any limits. Instances with limits 3/3/2 and 2/2/1 for the
strong, weak and resurrectable counts, which all three reach while operations are under way
(with 2 the header even forgets references), satisfy the invariants too. In `ClassInit` the six
classes have one of each case of `InitSuperClasses`: a super class, an interface with
default methods, one without that leads to one with, an interface that has a super
interface, a missing super class, an initialiser that uses its own class and one that
uses a class that fails. In `MplScheduler` three workers can end three tasks in any
order before the finishing thread looks; there the theorems hold for any number.

**Fairness.** A thread inside one of the protocol's procedures keeps being
scheduled (weak fairness): the code runs on a preemptive kernel, and no procedure
waits for anything but the locks, futexes and condition variables that are
modelled. In `SafeRegion` locks and the `TryLock` loop on the thread list lock get strong
fairness, since a thread that asks again and again gets a lock that is again and
again free; so does the end of a collection (`UnlockStopTheWorld`), which has two
pauses. Compiled code reaches yieldpoints, which the compiler generates for it
(`--yieldpoint`, its default). Nobody is assumed to attach, to exit, to call or to return
from native code. Neither time-outs nor EINTR nor spurious wake-ups are assumed to
happen, so that no liveness property leans on them to repair a lost wake-up. In
`ThreadPool` tasks end; in `GCRequest` collections end and a timed wait times out. In
`MplScheduler` and `ClassInit` every thread that has a step takes it, tasks and
initialisers end, and nobody is assumed to call. In `RefCount` an operation
that has begun goes on; the reference processor goes through both queues and the list of
finalizables in each of its iterations, so each of these three passes is strongly fair, while the
mutators need do nothing: `LostIsFreed` is about executions in which they have lost the
object and stay idle.

## 4. Findings

*A log node nobody collects* (run `concurrentmark_exit`,
`include/collector/collector.h:266`). An exiting mutator leaves the mutator list
before its destructor retires its SATB node. A second pause in between sees
neither: an object that it overwrote the last heap reference to, and that another
mutator holds, is swept. With `ExitGap = FALSE`, which excludes just that moment, all
properties hold.

Six more statements are kept in the modules next to the properties, though no run
lists them: TLC refutes each with the instance of the module's own run, if the `cfg` names
it as its only property (with the change given here, and with the `LiveSpec` of the module for
the temporal ones).

| Statement | Where the code disagrees |
|---|---|
| `StackScan`: `ScanWaitEnds` | `src/collector/collector_ms.cpp:862`. The last mutator decrements `numMutatorToBeScan` and notifies without `snapshotMutex`; if both happen between the predicate and the wait of the GC thread, it sleeps for ever. |
| `StackScan`: `ClearedIsSkipped` | `src/yieldpoint.cpp:265`. `FiniYieldpoint` clears the stack description "so that stack scanner skip this mutator", without synchronising with a scanner that has begun. |
| `GCRequest`: `ServedOnReturn`, with `EarlyRequests = TRUE` | `src/collector/collector_tracing.cpp:343`. Before the GC thread has initialised `finishedGcIndex`, its 0 reads as "the GC thread is gone", and a blocking request does not block. |
| `GCRequest`: `AsyncServed` | `include/collector/task_queue.h:191`. The time-out task erases queued non-blocking requests although the forced collection it stands for may not be made. |
| `ClassInit`: `AllSupersFirst` | `src/src/mrt/maplert/src/mrt_class_init.cpp:134`, "initialize the interface that declares a non-abstract, non-static method". An interface that the program uses directly is initialised without its super interfaces (line 427), and after that a class that implements it finds it initialised and does not look further. |
| `RefCount`: `ResurrectedIsGettable` | `include/collector/rc_inline.h:246`, "clear weak collected bit: object is resurrected". `AtomicClearWeakCollectable()` is called only where a cycle match fails (`cycle_collector.cpp:459`), never for a finalizable: weak references to an object that `finalize()` has brought back give null and are cleared. |

`RefCount` also has the race of `ProcessEmptyRef()` (`rc_reference_processor.cpp:534`),
which reads the referent of a PhantomReference without locking the field and then one bit of
its header, while a `clear()` may free it in between. The value only decides whether the
Reference is looked at again later; `NoUseAfterFree` excepts this read and covers all
others.

## 5. Proofs

`SafeRegionProofs` proves for any finite set of mutators and any set of GC threads
(`ThreadAssumption`: the two are disjoint, and `NoOwner` is neither):

| Theorem | States |
|---|---|
| `TypeCorrect` | `Spec => []TypeOK` |
| `WorldStoppedIsSafe` | `Spec => []StoppedMeansParked` |
| `FatalUnreachable` | `Spec => []NoFatal` |
| `FiniDoesNotBlock` | `Spec => []FiniNeverBlocks` |
| `CallerIsRestored` | `Spec => []RestoresCaller` |
| `ListIsFixed` | `Spec => ListFixedWhilePending` |
| `ImplementsStopWorld` | `Spec => Refinement`, that is, every step is a step of `StopWorld` or a stutter |
| `WakeupIsNotLost` | `Spec => []NoLostWakeup` |

*The argument.* None of these is inductive: that the world is safe when
`saferegionCount` equals `pendingCount` says nothing unless the count counts. The
inductive invariant `IInv` adds what the code relies on tacitly. `CountInv`: the
count is the number of mutators at the labels between their increment and their
decrement (`Counted`), also in the slow path, which increments again after its own
decrement. `LockInv`: who is at which label holds which lock. `PendingInv`:
`pendingCount` is the length of the list during a stop and 0 otherwise. `MemberInv` and
`FlagInv`: list and flags follow the program counters. `FiniNeverBlocks` and `NoFatal`
are needed themselves, because a finishing mutator is already off the list but still
counted. `ParkedInv` then says that from the moment a stopper has seen the counters
equal, nobody runs: all of the list is counted, the list is locked, and a mutator that
decrements sees the pending stop in the same atomic word and goes to the slow path.
There is one lemma per group of actions, in it one step per action and under it one
per part of `IInv` that the action can disturb; the counting steps rest on
`CountUp` and `CountDown` about cardinalities. The refinement maps `running` to the
listed mutators outside the saferegion (`Running`) and `stopped` to `worldStopped`.

`MplSchedulerProofs` proves for any non-empty set of workers and any number of tasks:

| Theorem | States |
|---|---|
| `SchedulerTypes` | `Spec => []TypeOK` |
| `SchedulerFinishesInOrder` | `Spec => []FinishInOrder` |
| `SchedulerFinishesOnce` | `Spec => []FinishedOnceAfterRun` |
| `SchedulerLeavesNothingOut` | `Spec => []NothingLeftOut` |

*The argument.* `WorkersInv` says that the tasks in the hands of the workers are
distinct, taken, and at the stage their label says; `Accounted`, that a task that was
taken is with a worker, handed over, or finished; `FinisherInv`, that `taskIdExpected`,
`numberTasksFinish` and the number of calls of `Finish()` agree and that whatever is
handed over is not yet finished, except for the task the finishing thread is about to
remove. That exception is the window between `Finish()` and `RemoveTaskFinish()`, in which
the set still holds a finished task. That nothing is left out then follows: when all threads
have ended, the taken tasks are all tasks, no worker has one, and the tasks of
`finished` are 0, 1, 2, ... up to at least `numberTasks - 1`.

`ThreadPoolProofs` proves for any finite set of workers and any set of tasks:

| Theorem | States |
|---|---|
| `ThreadPoolTypeOK` | `Spec => []TypeOK` |
| `ThreadPoolCountersExact` | `Spec => []CountersExact` |
| `ThreadPoolStoppedIsQuiet` | `Spec => []StoppedIsQuiet` |
| `ThreadPoolNoTaskLeftBehind` | `Spec => []NoTaskLeftBehind` |

*The argument.* The two counters are the numbers of workers at the labels where they
sleep or wait, which needs cardinalities as in `SafeRegion`. `TaskInv` says who has a
task; `Accounted`, that a task that was added is in the queue, with a thread, or executed,
until the pool is deleted; `FlagInv`, that the pool does not run from `Stop()` to
`Start()`, so that a worker that was counted as stopped takes no task. `FirstStop` excepts
the constructor's `Stop()`, the only one that does not drain the queue: nothing is owed then.

`StackScanProofs` proves for any finite set of mutators:

| Theorem | States |
|---|---|
| `StackScanTypeOK` | `Spec => []TypeOK` |
| `StackScanRunsOnlyScanned` | `Spec => []RunsOnlyScanned` |
| `StackScanEachStackOnce` | `Spec => []EachStackOnce` |
| `StackScanNoDeletedMutator` | `Spec => []NoDeletedMutator` |

*The argument.* `ScanInv`: a stack in scan is scanned by exactly one thread, and a stack
that needs a scan is in the snapshot or was just picked from it. `SnapshotInv` is the
converse: a mutator there waits for its scan, scans itself, or has yet to erase itself,
so none of them is deleted. `MutexInv` and `CurInv` close the window between
`PickMutator` and `GCTrySetScanState`, in which the picked mutator is in no set.
`CountInv`: `numMutatorToBeScan` is the number of stacks that nobody has counted down yet;
`PhaseInv`, what is left at which label of the GC thread; `ScansInv`, how often each stack
of this collection was scanned.

`SatbNodesProofs` proves for any set of mutators, any nodes at the start and any set of pages
whose nodes are distinct:

| Theorem | States |
|---|---|
| `SatbNodesListsMatch` | `Spec => []ListsMatch` |
| `SatbNodesOneOwner` | `Spec => []OneOwner` |
| `SatbNodesNothingLost` | `Spec => []NothingLost` |

*The argument.* The part that the code relies on tacitly is `PopInv`. A `Pop` reads the
head, reads its `next`, and swaps if the head is still the same node: if that node could
leave the list and come back, the `next` would be stale (the ABA problem). It
cannot: nodes leave the free list for a mutator and then for the retired list,
and no node returns to the free list before the log is reset. So when the head is still the
node that was read, it never left, and `next` of a node in a list does not change.
`UnmappedInv` and `UnusedInv` say the same of the nodes of pages that are still to come.
A list is a sequence in the model; the proofs go through lemmas that say what a push, a
pop and `PopAll` do to the chain of `next` and to the sets of owners.

`GCRequestProofs` proves for any requesters and reasons, and with any bound on the
indices, under `~EarlyRequests` (with requests before the GC thread has started it
is false, see section 4):

| Theorem | States |
|---|---|
| `GCRequestTypeOK` | `~EarlyRequests => (Spec => []TypeOK)` |
| `GCRequestServedOnReturn` | `~EarlyRequests => (Spec => []ServedOnReturn)` |

*The argument.* A blocked requester looks at nothing but `finishedGcIndex`. `OrderInv`: the
indices of the queue increase strictly, beyond `finishedGcIndex` and up to
`queueSyncIndex`, and the task that is executed is before all of them. `WaitInv`: a waiting
request that is not served has an index that is not reached yet, and its collection runs
or is ahead: in the queue, or in the hand of the GC thread. `StartInv` and `ExitInv` are about the
ends: `finishedGcIndex` says "the GC thread is gone" only before it starts and after it
ended. `Min` and `Max` of the queue's priorities and positions exist by well-foundedness
of the natural numbers (`HasMin`).

`ConcurrentMarkProofs` proves for any mutators, objects, fields and static fields, any
size of a SATB node and any number of heap operations and collections, under `~ExitGap`
(with it, `NoLiveGarbage` is false: the finding of section 4):

| Theorem | States |
|---|---|
| `ConcurrentMarkInvariant` | `~ExitGap => (Spec => []IInv)` |
| `ConcurrentMarkTypeOK` | `~ExitGap => (Spec => []TypeOK)`, with the room in a node |
| `ConcurrentMarkNothingHidden` | `~ExitGap => (Spec => []NothingHidden)` |
| `ConcurrentMarkNoLiveGarbage` | `~ExitGap => (Spec => []NoLiveGarbage)` |

*The argument.* `NothingHidden` speaks of what can be reached in the present heap. That
is not inductive: when two mutators write to one field, the second store overwrites a
reference that neither has logged. The invariant `MarkInv` is about the heap `h` at the
first pause instead: there is an `h` such that `Kept(h)`, what the marking will have marked if
it goes on in `h` from where it is, has these properties. A scanned mutator holds only
objects of it, and fields of its objects, and static fields, refer only to objects of it
(`HeldInv`). The fields of all other objects are as in `h` (`UntouchedInv`): nobody can
have reached them. A field that marking has not read has its value of `h`, or that value is
marked, on a work stack or in a log (`UnreadInv`), and a mutator between the barrier and its
store has secured that value or is about to (`BarrierInv`). So a store changes nothing in
`Kept(h)`, and a stack scan only adds to it. `Kept(h)` is defined through the sets that
are closed under `h`, so the proofs use no induction over paths, only that it is the least
such set (`FoundCovers`, `FoundLeast`, `FoundGrows`). In the second pause, when nothing is left
to do, `Kept(h)` is the set of marked objects: so the unmarked ones are out of
everybody's reach (`UsedInv`), and `NoLiveGarbage` follows because the objects in use contain the
roots and are closed under references. `ExitGap` is used exactly once, in `ConcurrentMarkCleanup`:
a mutator that is not in the list has no node.

`RefCountProofs` proves for any finite set of mutators, any bound on the references in locals
and any limits of the three counts (`RefCountAssumption`: at least 2 for the strong and the weak
count, because an object starts with one of each, and at least 1 for the resurrectable one):

| Theorem | States |
|---|---|
| `RefCountInvariant` | `Spec => []IInv` |
| `RefCountTypeOK` | `Spec => []TypeOK`, with the ranges of the counts |
| `RefCountNoUseAfterFree` | `Spec => []NoUseAfterFree` |
| `RefCountCountsExact` | `Spec => []CountsExact` |
| `RefCountCollectedIsDead` | `Spec => []CollectedIsDead` |

*The argument.* Whoever brings the counts down decides in one compare-and-swap what is left to be
done, and does it later, in several steps, without another look at the object; so `NoUseAfterFree`
is not inductive. `LastInv` says why the thread may go on: at those labels (`Last`) it is alone (`Alone`).
No mutator has the object or is about to store it, no other thread has decided the same, and
the finalizer does not have it; when the object is released, all slots are empty and no decrement is
to come. `DeadInv` keeps what follows from invalidated weak references until `finalize()` runs:
`get()` reads the collected bit in the same compare-and-swap that would count, so nobody
comes by the object through a Reference any more. That a thread is alone when it
decides follows from the counts (`NothingLeftStep`): if the strong and the resurrectable count are 0,
and counts that are not sticky are exact, then there is no reference of these kinds. This is
`CountInv`, stated for each count apart (`Counted`), because one of them may be sticky while
another decides; a sticky strong count stops all three. `CountsExact` is the part of it in
which none is sticky. The one exception is `Releasing`: `PostFinalizable()` releases the object with
the reference of the list still counted. `LockInv` (a locked slot has one owner, who is at the label
that unlocks it) and `RpInv` (what the reference processor has at which label) close the windows of
the volatile field and of `ProcessRef()`; `FinalInv` says where an enqueued object is; `FreedInv`, that what
holds at the release still holds after it. The number of references is a sum of
cardinalities: of those in locals, of threads whose operation has one, of decrements
to come. `CountParts` and `NextParts` say what the sums are made of before and after a step,
`StepEffect` how a step changes each part, and `DecEffect` what a decrement may decide; below them there is one lemma per action.

*`NoLostWakeup`* of `SafeRegion` rests on `IInv` and three more parts. `LoadedInv`: a
stopper that is about to block has loaded a count that is not the last one. `MutatorsWoken`: if a
mutator sleeps and no stop is pending, somebody is about to wake the sleepers.
`StopperWoken`: if a stopper sleeps and all mutators are counted, a mutator is about to
wake it, the one that made the counters equal. `OneStopper` (from the lock) and `CountBelow` (while somebody
waits, the count is at most `pendingCount`, so it becomes equal by one increment) make
that work.

All inductive invariants were checked with TLC on the instances of section 3 before they were
proved.

*Only model-checked.* All liveness properties (`StopCompletes`, `BlockedIsWoken`,
`WaitFinishReturns`, `ExitEndsWorkers`, `WaitersReleased`, `StoppersReleased`,
`BarrierEnds`, `LostIsFreed`, `RunTaskReturns`, `TryReturns`), because fairness and
`ENABLED` are out of the prover's reach; and the invariants of `ClassInit`. `ClinitOnce` and
`NoHalfInitialised` need an invariant about the frames of all stacks (who owns a class that is being
initialised has exactly one frame that runs its initialiser), which is not done yet. `SupersFirst`
also needs that the super classes of super classes are super classes, an induction over the
recursive function in `Ancestors`, which the provers cannot do.

## 6. What is not modelled

- Stop-the-world: fork handling (`MutatorList::reset`), the fatal time-outs after 30
  seconds (the model lets a timed-out wait go round), debug dumps. The thread list lock
  belongs to the embedding runtime and is external.
- Requests: the clock behind `ShouldIgnore` is a free choice of the environment.
- Marking: the array-copy barrier (`PushChildrenToSatbBuffer`), weak references,
  finalizers and resurrection, JNI and other external roots, the reference-counting
  variant's backup collection, the allocator behind the concurrent
  sweep (`ConcurrentSweep` frees exactly what the second pause found unmarked).
- Log lists: `Reset()` and the reuse of a page in a later collection; `SatbNodes` ends with
  the second pause.
- Reference counting: the children of a released object and the release queue, cycle
  patterns, JNI and stack maps, the backup tracing collection, weak global references,
  SoftReferences (a policy decides whether they are looked at; then they are WeakReferences),
  the young and old queues (the choice of a Reference is free), `runFinalization()`.
- Class initialisation: lazy binding and verification before the first use, the signal that
  triggers it, static-field tables. Monitors belong to the embedding runtime and are external.
  Initialisers of two classes that use each other in opposite order deadlock, as the Java
  language specification has it; the instance has no such cycle. That `InitSuperClasses`
  goes on after a super class has failed is in the model; no document says otherwise.
- Scheduler: timers, the dump, the parameters the callbacks carry. The owner calls `Reset()`
  before a second `RunTask()`, as the drivers do: a second sequential one without it would
  wait for task 0 for ever (`taskIdExpected` starts again, `taskIdToRun` does not).
- Pool: `SetMaxActiveThreadNum` is called on a stopped pool only, as the collector does.
- Memory order: every atomic operation is sequentially consistent in the models.
- Every other component of section 1, with its reason in `PROJECT.json`.

## 7. Plan

1. Done: `SafeRegion`/`StopWorld`, `ThreadPool`, `GCRequest`, `StackScan`, `ConcurrentMark`,
   `SatbNodes`, `MplScheduler` and `RefCount` with proofs, `ClassInit` without.
2. Extend `ConcurrentMark`: weak references and resurrection in the second pause
   (`ResurrectionPhase`, `ConcurrentAddFinalizerToRP`), external roots, the array-copy
   barrier; the allocator's runs against the concurrent sweep.
3. Extend `RefCount` by objects with fields: the release of children and the cycle
   patterns.
4. Abstract specifications worth stating: a pool that executes a bag of tasks
   (`ThreadPool`), a service that answers each request after it was made (`GCRequest`), a
   set of grey objects (`ConcurrentMark`), a counter of references (`RefCount`).
5. Theorems still worth proving: `ClinitOnce` and `NoHalfInitialised` of `ClassInit` (who owns
   a class that is being initialised has exactly one frame that runs its initialiser), and
   `RefCount` for several objects once it has the release of children.
