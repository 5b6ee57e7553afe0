--------------------------- MODULE ConcurrentMark ---------------------------
(***************************************************************************)
(* Concurrent marking with a snapshot-at-the-beginning log (compiler-rt:   *)
(* collector_ms.cpp, satb_buffer.h, the write barriers of cinterface.cpp). *)
(*                                                                         *)
(* The first pause records which stacks have to be scanned and switches    *)
(* the write barrier on.  Then mutators change the heap while the GC       *)
(* thread and its workers mark it: a mutator logs the reference that it is *)
(* about to overwrite in its SATB node, and marks the objects it creates.  *)
(* The second pause collects the nodes, marks what is left, and decides    *)
(* which objects are garbage.                                              *)
(*                                                                         *)
(* The work stacks of all marking tasks are one set, whose elements any    *)
(* worker takes in any order.  How a stack is scanned exactly once is the  *)
(* subject of module StackScan, how the world stops that of SafeRegion.    *)
(***************************************************************************)
EXTENDS Integers, FiniteSets

CONSTANTS Mutators, Objects, Null,
          Fields,     \* the reference fields of an object
          Statics,    \* static fields
          NodeSize,   \* entries of a SATB node
          MaxOps,     \* bound on the heap operations of the mutators
          ExitGap     \* may a pause fall between FiniYieldpoint() and ~Mutator()?

Slots == (Objects \X Fields) \cup Statics

ASSUME MarkAssumption ==
    /\ Null \notin Objects
    /\ (Objects \X Fields) \cap Statics = {} /\ Null \notin Slots
    /\ NodeSize \in Nat \ {0} /\ MaxOps \in Nat
    /\ ExitGap \in BOOLEAN

VARIABLES
    heap,        \* what each field refers to
    allocated,   \* objects that exist
    pc,          \* where each mutator is
    local,       \* the references on its stack
    slot, val,   \* field and value of the write it is in
    old,         \* the overwritten reference, until the barrier is done with it
    armed,       \* Mutator::concurrentMarking
    node,        \* the objects in Mutator::satbNode
    retired,     \* the objects in SatbBuffer::retiredNodes
    enqueued,    \* SatbBuffer::enqueueMap
    running,     \* concurrentMarkRunning
    marked,      \* markBitmap
    work,        \* the objects on the work stacks
    pending,     \* fields that CopyChildRefs() and the static roots scan have to read
    toScan,      \* mutators whose stack is not scanned yet
    gpc, round,  \* where the GC thread is
    garbage,     \* objects the sweep will free
    ops          \* heap operations so far

writeVars == <<slot, val, old>>
logVars   == <<armed, node, retired, enqueued>>
markVars  == <<marked, work, pending, toScan>>
gcVars    == <<running, gpc, round, garbage>>
vars      == <<heap, allocated, pc, local, writeVars, logVars, markVars, gcVars, ops>>

kReMarkRounds == 2

Managed    == {"managed", "should", "push", "store"}
MutatorPcs == Managed \cup {"outside", "native", "scan", "cleared", "removed"}
GCPcs      == {"idle", "init", "mark", "wait", "remark", "stw2", "cleanup", "reset", "sweep"}

\* The collector is idle and the mutators that are attached are in native
\* code; any heap without dangling references can be there by then.
Init ==
    /\ allocated \in SUBSET Objects
    /\ heap \in [Slots -> allocated \cup {Null}]
    /\ \A s \in (Objects \ allocated) \X Fields : heap[s] = Null
    /\ pc \in [Mutators -> {"outside", "native"}]
    /\ local \in [Mutators -> SUBSET allocated]
    /\ \A m \in Mutators : pc[m] = "outside" => local[m] = {}
    /\ slot = [m \in Mutators |-> Null]
    /\ val = [m \in Mutators |-> Null] /\ old = [m \in Mutators |-> Null]
    /\ armed = [m \in Mutators |-> FALSE] /\ node = [m \in Mutators |-> {}]
    /\ retired = {} /\ enqueued = {}
    /\ running = FALSE
    /\ marked = {} /\ work = {} /\ pending = {} /\ toScan = {}
    /\ gpc = "idle" /\ round = 0 /\ garbage = {}
    /\ ops = 0

\* The second pause lasts; the first one is a single step.
Stopped == gpc = "cleanup"

Goto(m, l) == pc' = [pc EXCEPT ![m] = l]

NonNull(r) == {r} \ {Null}

CountOp == ops < MaxOps /\ ops' = ops + 1

-----------------------------------------------------------------------------
(* Mutators come, go and change between managed and native code.           *)

\* Mutator::Init(), with the mutator list locked
InitArmed == running

Attach(m) ==
    /\ pc[m] = "outside" /\ ~Stopped
    /\ armed' = [armed EXCEPT ![m] = InitArmed]
    /\ Goto(m, "native")
    /\ UNCHANGED <<heap, allocated, local, writeVars, node, retired, enqueued, markVars, gcVars, ops>>

EnterSaferegion(m) ==
    /\ pc[m] = "managed"
    /\ Goto(m, "native")
    /\ UNCHANGED <<heap, allocated, local, writeVars, logVars, markVars, gcVars, ops>>

\* A mutator whose stack is not scanned yet scans it.
LeaveSaferegion(m) ==
    /\ pc[m] = "native" /\ ~Stopped
    /\ Goto(m, IF m \in toScan THEN "scan" ELSE "managed")
    /\ UNCHANGED <<heap, allocated, local, writeVars, logVars, markVars, gcVars, ops>>

\* ScanStackAndMark()
ScanStack(m) ==
    /\ work' = work \cup local[m]
    /\ toScan' = toScan \ {m}

MutatorScan(m) ==
    /\ pc[m] = "scan"
    /\ ScanStack(m)
    /\ Goto(m, "managed")
    /\ UNCHANGED <<heap, allocated, local, writeVars, logVars, marked, pending, gcVars, ops>>

\* FiniYieldpoint() clears the stack of an exiting mutator before its scan.
ClearStackInfo(m) ==
    /\ pc[m] = "native"
    /\ local' = [local EXCEPT ![m] = {}]
    /\ Goto(m, "cleared")
    /\ UNCHANGED <<heap, allocated, writeVars, logVars, markVars, gcVars, ops>>

\* The barrier finds nothing on the cleared stack.
RemoveMutator(m) ==
    /\ pc[m] = "cleared" /\ ~Stopped
    /\ toScan' = toScan \ {m}
    /\ Goto(m, "removed")
    /\ UNCHANGED <<heap, allocated, local, writeVars, logVars, marked, work, pending, gcVars, ops>>

\* The destructor of Mutator retires the node.
DeleteMutator(m) ==
    /\ pc[m] = "removed"
    /\ retired' = retired \cup node[m]
    /\ node' = [node EXCEPT ![m] = {}]
    /\ armed' = [armed EXCEPT ![m] = FALSE]
    /\ Goto(m, "outside")
    /\ UNCHANGED <<heap, allocated, local, writeVars, enqueued, markVars, gcVars, ops>>

-----------------------------------------------------------------------------
(* Managed code.                                                           *)

\* Mutant: new objects are not marked.
PostNewObjectUnmarked(o) == marked

\* PostNewObject()
PostNewObject(o) == IF running THEN marked \cup {o} ELSE marked

NewObject(m, o) ==
    /\ pc[m] = "managed" /\ o \in Objects \ allocated
    /\ CountOp
    /\ allocated' = allocated \cup {o}
    /\ heap' = [s \in Slots |-> IF s \in {o} \X Fields THEN Null ELSE heap[s]]
    /\ marked' = PostNewObject(o)
    /\ local' = [local EXCEPT ![m] = @ \cup {o}]
    /\ UNCHANGED <<pc, writeVars, logVars, work, pending, toScan, gcVars>>

\* The fields a mutator can name
Accessible(m) == Statics \cup (local[m] \X Fields)

LoadField(m, s) ==
    /\ pc[m] = "managed" /\ s \in Accessible(m)
    /\ CountOp
    /\ local' = [local EXCEPT ![m] = @ \cup NonNull(heap[s])]
    /\ UNCHANGED <<heap, allocated, pc, writeVars, logVars, markVars, gcVars>>

DropReference(m, o) ==
    /\ pc[m] = "managed" /\ o \in local[m]
    /\ CountOp
    /\ local' = [local EXCEPT ![m] = @ \ {o}]
    /\ UNCHANGED <<heap, allocated, pc, writeVars, logVars, markVars, gcVars>>

\* Mutant: the new reference is logged.
LoggedNew(s, v) == v

Logged(s, v) == heap[s]

\* SatbWriteBarrier(), the first part of every write, up to ShouldEnqueue()
SatbWriteBarrier(m, s, v) ==
    /\ pc[m] = "managed"
    /\ CountOp
    /\ s \in Accessible(m) /\ v \in local[m] \cup {Null}
    /\ slot' = [slot EXCEPT ![m] = s]
    /\ val' = [val EXCEPT ![m] = v]
    /\ LET ref == IF armed[m] THEN Logged(s, v) ELSE Null
       IN  /\ old' = [old EXCEPT ![m] = ref]
           /\ Goto(m, IF ref = Null THEN "store" ELSE "should")
    /\ UNCHANGED <<heap, allocated, local, logVars, markVars, gcVars>>

\* Both bitmaps are looked at in one step: a mark that is set in between only
\* makes the entry superfluous.
ShouldEnqueue(m) ==
    /\ pc[m] = "should"
    /\ IF old[m] \in marked \cup enqueued
       THEN /\ old' = [old EXCEPT ![m] = Null]
            /\ Goto(m, "store")
            /\ UNCHANGED enqueued
       ELSE /\ enqueued' = enqueued \cup {old[m]}
            /\ Goto(m, "push")
            /\ UNCHANGED old
    /\ UNCHANGED <<heap, allocated, local, slot, val, armed, node, retired, markVars, gcVars, ops>>

IsFull(m) == Cardinality(node[m]) = NodeSize

\* EnsureGoodNode() and Node::Push()
PushIntoSatbBuffer(m) ==
    /\ pc[m] = "push"
    /\ retired' = IF IsFull(m) THEN retired \cup node[m] ELSE retired
    /\ node' = [node EXCEPT ![m] = IF IsFull(m) THEN {old[m]} ELSE @ \cup {old[m]}]
    /\ old' = [old EXCEPT ![m] = Null]
    /\ Goto(m, "store")
    /\ UNCHANGED <<heap, allocated, local, slot, val, armed, enqueued, markVars, gcVars, ops>>

EndWrite(m) ==
    /\ slot' = [slot EXCEPT ![m] = Null]
    /\ val' = [val EXCEPT ![m] = Null]
    /\ Goto(m, "managed")
    /\ UNCHANGED <<allocated, local, old, logVars, markVars, gcVars, ops>>

StoreField(m) ==
    /\ pc[m] = "store"
    /\ heap' = [heap EXCEPT ![slot[m]] = val[m]]
    /\ EndWrite(m)

\* UnsafeCompareAndSwapObject() finds another value than it expected.
CompareFails(m) ==
    /\ pc[m] = "store"
    /\ EndWrite(m)
    /\ UNCHANGED heap

-----------------------------------------------------------------------------
(* The GC thread and its workers.                                          *)

\* The mutators of the list, in a pause
MutatorList == {m \in Mutators : pc[m] \in {"native", "cleared"}}

\* A removed mutator is not in the list, and a pause does not wait for it.
WorldCanStop ==
    \A m \in Mutators : \/ pc[m] \in {"outside", "native", "cleared"}
                        \/ pc[m] = "removed" /\ ExitGap

\* SatbBuffer::Init(), before the first pause
ConcurrentMSPreSTW1 ==
    /\ gpc = "idle"
    /\ retired' = {} /\ enqueued' = {}
    /\ gpc' = "init"
    /\ UNCHANGED <<heap, allocated, pc, local, writeVars, armed, node, markVars, running, round,
                   garbage, ops>>

\* First pause: FastScanRoots() and ConcurrentMarkPrepare()
ConcurrentMarkPrepare ==
    /\ gpc = "init" /\ WorldCanStop
    /\ toScan' = MutatorList
    /\ pending' = Statics
    /\ running' = TRUE
    /\ armed' = [m \in Mutators |-> m \in MutatorList \/ armed[m]]
    /\ gpc' = "mark" /\ round' = 0
    /\ UNCHANGED <<heap, allocated, pc, local, writeVars, node, retired, enqueued, marked, work,
                   garbage, ops>>

ConcurrentStackScan(m) ==
    /\ gpc = "mark"
    /\ m \in toScan /\ pc[m] # "scan"
    /\ ScanStack(m)
    /\ UNCHANGED <<heap, allocated, pc, local, writeVars, logVars, marked, pending, gcVars, ops>>

\* The workers run from Start() to WaitFinish(), also in the second pause.
Marking == gpc \in {"mark", "cleanup"}

\* ConcurrentMarkTask::Execute() takes an object, unless it is a dangling
\* reference, and marks it; its fields are then read one by one.
MarkObject(o) ==
    /\ Marking /\ o \in work
    /\ work' = work \ {o}
    /\ IF o \in allocated \ marked
       THEN marked' = marked \cup {o} /\ pending' = pending \cup ({o} \X Fields)
       ELSE UNCHANGED <<marked, pending>>
    /\ UNCHANGED <<heap, allocated, pc, local, writeVars, logVars, toScan, gcVars, ops>>

\* ConcurrentStackScan() is through with snapshotMutators.
StacksTaken == \A m \in toScan : pc[m] = "scan"

\* CopyChildRefs() and ConcurrentStaticRootsScan(), which follows the stacks
CopyChildRef(s) ==
    /\ Marking /\ s \in pending
    /\ s \in Statics => StacksTaken
    /\ work' = work \cup NonNull(heap[s])
    /\ pending' = pending \ {s}
    /\ UNCHANGED <<heap, allocated, pc, local, writeVars, logVars, marked, toScan, gcVars, ops>>

WaitFinish ==
    /\ gpc = "mark"
    /\ work = {} /\ pending = {}
    /\ StacksTaken
    /\ gpc' = "wait"
    /\ UNCHANGED <<heap, allocated, pc, local, writeVars, logVars, markVars, running, round,
                   garbage, ops>>

\* The end of ConcurrentMark(): numMutatorToBeScan is zero.
WaitForScans ==
    /\ gpc = "wait" /\ toScan = {}
    /\ gpc' = "remark"
    /\ UNCHANGED <<heap, allocated, pc, local, writeVars, logVars, markVars, running, round,
                   garbage, ops>>

ConcurrentReMark ==
    /\ gpc = "remark"
    /\ IF round < kReMarkRounds
       THEN /\ work' = work \cup retired
            /\ retired' = {}
            /\ IF work' # {} THEN gpc' = "mark" /\ round' = round + 1
                             ELSE gpc' = "stw2" /\ UNCHANGED round
       ELSE gpc' = "stw2" /\ UNCHANGED <<work, retired, round>>
    /\ UNCHANGED <<heap, allocated, pc, local, writeVars, armed, node, enqueued, marked, pending,
                   toScan, running, garbage, ops>>

ResetNodes == [m \in Mutators |-> IF m \in MutatorList THEN {} ELSE node[m]]

\* Second pause: ConcurrentMarkCleanup() up to its ConcurrentMark()
ConcurrentMarkCleanup ==
    /\ gpc = "stw2" /\ WorldCanStop
    /\ work' = work \cup retired \cup UNION {node[m] : m \in MutatorList}
    /\ retired' = {}
    /\ node' = ResetNodes
    /\ armed' = [m \in Mutators |-> m \notin MutatorList /\ armed[m]]
    /\ gpc' = "cleanup"
    /\ UNCHANGED <<heap, allocated, pc, local, writeVars, enqueued, marked, pending, toScan,
                   running, round, garbage, ops>>

\* The end of the second pause decides what the sweep frees.
SweepPrepare ==
    /\ gpc = "cleanup"
    /\ work = {} /\ pending = {}
    /\ running' = FALSE
    /\ garbage' = allocated \ marked
    /\ gpc' = "reset"
    /\ UNCHANGED <<heap, allocated, pc, local, writeVars, logVars, markVars, round, ops>>

\* SatbBuffer::Reset(), after the second pause
ConcurrentMSPostSTW2 ==
    /\ gpc = "reset"
    /\ retired' = {} /\ enqueued' = {}
    /\ gpc' = "sweep"
    /\ UNCHANGED <<heap, allocated, pc, local, writeVars, armed, node, markVars, running, round,
                   garbage, ops>>

\* ConcurrentSweepPhase(), and ResetBitmap() at the end of the collection
ConcurrentSweep ==
    /\ gpc = "sweep"
    /\ allocated' = allocated \ garbage
    /\ heap' = [s \in Slots |-> IF s \in garbage \X Fields THEN Null ELSE heap[s]]
    /\ garbage' = {} /\ marked' = {}
    /\ gpc' = "idle"
    /\ round' = 0
    /\ UNCHANGED <<pc, local, writeVars, logVars, work, pending, toScan, running, ops>>

-----------------------------------------------------------------------------
MutatorSteps(m) ==
    \/ Attach(m) \/ EnterSaferegion(m) \/ LeaveSaferegion(m) \/ MutatorScan(m)
    \/ ClearStackInfo(m) \/ RemoveMutator(m) \/ DeleteMutator(m)
    \/ \E o \in Objects : NewObject(m, o) \/ DropReference(m, o)
    \/ \E s \in Slots : \/ LoadField(m, s)
                        \/ \E v \in Objects \cup {Null} : SatbWriteBarrier(m, s, v)
    \/ ShouldEnqueue(m) \/ PushIntoSatbBuffer(m) \/ StoreField(m) \/ CompareFails(m)

GCSteps ==
    \/ ConcurrentMSPreSTW1 \/ ConcurrentMarkPrepare
    \/ \E m \in Mutators : ConcurrentStackScan(m)
    \/ \E o \in Objects : MarkObject(o)
    \/ \E s \in Slots : CopyChildRef(s)
    \/ WaitFinish \/ WaitForScans \/ ConcurrentReMark \/ ConcurrentMarkCleanup
    \/ SweepPrepare \/ ConcurrentMSPostSTW2 \/ ConcurrentSweep

Next == GCSteps \/ \E m \in Mutators : MutatorSteps(m)

Spec == Init /\ [][Next]_vars

-----------------------------------------------------------------------------
(* Properties.                                                             *)

HeapTypeOK ==
    /\ heap \in [Slots -> Objects \cup {Null}] /\ allocated \subseteq Objects
    /\ pc \in [Mutators -> MutatorPcs] /\ local \in [Mutators -> SUBSET Objects]
    /\ ops \in 0..MaxOps

LogTypeOK ==
    /\ slot \in [Mutators -> Slots \cup {Null}]
    /\ val \in [Mutators -> Objects \cup {Null}] /\ old \in [Mutators -> Objects \cup {Null}]
    /\ armed \in [Mutators -> BOOLEAN] /\ node \in [Mutators -> SUBSET Objects]
    /\ \A m \in Mutators : Cardinality(node[m]) <= NodeSize
    /\ retired \subseteq Objects /\ enqueued \subseteq Objects

MarkTypeOK ==
    /\ marked \subseteq Objects /\ work \subseteq Objects /\ garbage \subseteq Objects
    /\ pending \subseteq Slots /\ toScan \subseteq Mutators
    /\ running \in BOOLEAN /\ gpc \in GCPcs /\ round \in 0..kReMarkRounds

\* Variables have their types, and no SATB node holds more than it has room
\* for (EnsureGoodNode).
TypeOK == HeapTypeOK /\ LogTypeOK /\ MarkTypeOK

Closed(h, C) == \A o \in C, f \in Fields : h[<<o, f>>] \in C \cup {Null}

\* The objects that references of R lead to in heap h
Reachable(h, R) ==
    LET closed == {C \in SUBSET Objects : R \subseteq C /\ Closed(h, C)}
    IN  {o \in Objects : \A C \in closed : o \in C}

StaticRefs(h) == {h[s] : s \in Statics} \ {Null}

\* What marking still has to do: objects it was given, by work stacks or SATB
\* nodes or a mutator about to fill one, and fields it has not read
GreyObjects == work \cup retired \cup (UNION {node[m] : m \in Mutators})
                 \cup {old[m] : m \in {x \in Mutators : pc[x] = "push"}}
Grey == GreyObjects \cup ({heap[s] : s \in pending} \ {Null})
                    \cup UNION {local[m] : m \in toScan}

\* While marking runs, every reference that marking will not look at again
\* leads to an object that it has marked or will still find: on a scanned
\* stack, in a static field, in a field of a marked object.  No mutator can
\* hide an object behind the back of the marking (SatbWriteBarrier).
NothingHidden ==
    running =>
      LET found == marked \cup Reachable(heap, Grey)
      IN  /\ \A m \in Mutators \ toScan : local[m] \subseteq found
          /\ \A s \in (Statics \cup (marked \X Fields)) \ pending : NonNull(heap[s]) \subseteq found

\* No object that the sweep is about to free is reachable for a mutator
\* (ConcurrentMarkAndSweep).
NoLiveGarbage ==
    LET live == Reachable(heap, StaticRefs(heap) \cup UNION {local[m] : m \in Mutators})
    IN  garbage # {} => garbage \cap live = {}

\* What the concurrent marking test in ConcurrentMarkCleanup looks for: a live
\* object that is not marked, stated for pauses that fall in a mutator's exit.
NoUnmarkedLive == NoLiveGarbage
=============================================================================
