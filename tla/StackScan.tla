------------------------------ MODULE StackScan ------------------------------
(***************************************************************************)
(* The concurrent stack scan of the mark-sweep collector (compiler-rt:     *)
(* collector_ms.cpp, collector_tracing.cpp, collector.h).                  *)
(*                                                                         *)
(* In the first pause of a collection FastScanRoots() marks the stack of   *)
(* every mutator as one that needs a scan.  Once the world runs again the  *)
(* GC thread scans the stacks one by one; a mutator that leaves the        *)
(* saferegion before its turn scans its own stack in StackScanBarrier(),   *)
(* so that no managed code runs on a stack that was not scanned.           *)
(*                                                                         *)
(* Pauses are atomic here: module SafeRegion shows that no mutator leaves  *)
(* the saferegion, attaches or detaches during one.  The worker pool is a  *)
(* set of tasks: what WaitFinish() and DrainTaskQueue() leave behind is    *)
(* the subject of module ThreadPool.                                       *)
(***************************************************************************)
EXTENDS Integers, FiniteSets

CONSTANTS Mutators, GC, None

ASSUME ScanAssumption ==
    /\ IsFiniteSet(Mutators)
    /\ GC \notin Mutators /\ None \notin Mutators \cup {GC}

VARIABLES
    pc,         \* where each mutator is
    ret,        \* where a mutator goes after the barrier
    stackInfo,  \* whether stackBegin, stackEnd and the last Java frame are set
    scanState,  \* Mutator::scanState
    snapshot,   \* snapshotMutators
    mutex,      \* owner of snapshotMutex
    numToScan,  \* numMutatorToBeScan
    tasks,      \* stacks whose mark task is in the pool's queue
    gpc,        \* where the GC thread is
    cur,        \* its local variable mutator
    round,      \* rounds of ConcurrentReMark() done
    roots,      \* the mutators of this collection's first pause
    scans       \* how often their stacks were scanned since

mutatorVars == <<pc, ret, stackInfo>>
gcVars      == <<gpc, cur, round, roots>>
vars        == <<mutatorVars, scanState, snapshot, mutex, numToScan, tasks, gcVars, scans>>

kReMarkRounds == 2

MutatorPcs == {"outside", "native", "cleared", "managed", "barrier", "try", "futex",
               "blocked", "scan", "count", "notify", "finish", "erase", "removed"}
GCPcs == {"idle", "pick", "try", "scan", "count", "finish", "wake", "drain", "check",
          "wait_lock", "wait_block", "wait_blocked", "remark", "stw2"}

Init ==
    /\ pc = [m \in Mutators |-> "outside"]
    /\ ret = [m \in Mutators |-> "managed"]
    /\ stackInfo = [m \in Mutators |-> FALSE]
    /\ scanState = [m \in Mutators |-> "kFinishScan"]
    /\ snapshot = {} /\ mutex = None /\ numToScan = 0 /\ tasks = {}
    /\ gpc = "idle" /\ cur = None /\ round = 0 /\ roots = {}
    /\ scans = [m \in Mutators |-> 0]

Goto(m, l) == pc' = [pc EXCEPT ![m] = l]

-----------------------------------------------------------------------------
(* Life of a mutator around the barrier.                                   *)

\* A new Mutator object, whose stack needs no scan; it starts in the saferegion.
Attach(m) ==
    /\ pc[m] = "outside"
    /\ scanState' = [scanState EXCEPT ![m] = "kFinishScan"]
    /\ stackInfo' = [stackInfo EXCEPT ![m] = TRUE]
    /\ Goto(m, "native")
    /\ UNCHANGED <<ret, snapshot, mutex, numToScan, tasks, gcVars, scans>>

EnterSaferegion(m) ==
    /\ pc[m] = "managed"
    /\ Goto(m, "native")
    /\ UNCHANGED <<ret, stackInfo, scanState, snapshot, mutex, numToScan, tasks, gcVars, scans>>

LeaveSaferegion(m) ==
    /\ pc[m] = "native"
    /\ ret' = [ret EXCEPT ![m] = "managed"]
    /\ Goto(m, "barrier")
    /\ UNCHANGED <<stackInfo, scanState, snapshot, mutex, numToScan, tasks, gcVars, scans>>

\* FiniYieldpoint() up to RemoveMutator()
ClearStackInfo(m) ==
    /\ pc[m] = "native"
    /\ stackInfo' = [stackInfo EXCEPT ![m] = FALSE]
    /\ Goto(m, "cleared")
    /\ UNCHANGED <<ret, scanState, snapshot, mutex, numToScan, tasks, gcVars, scans>>

\* RemoveMutator(), which leaves the saferegion with the list locked
RemoveMutator(m) ==
    /\ pc[m] = "cleared"
    /\ ret' = [ret EXCEPT ![m] = "removed"]
    /\ Goto(m, "barrier")
    /\ UNCHANGED <<stackInfo, scanState, snapshot, mutex, numToScan, tasks, gcVars, scans>>

\* MRT_GCFiniThreadLocal() deletes the Mutator object.
DeleteMutator(m) ==
    /\ pc[m] = "removed"
    /\ Goto(m, "outside")
    /\ UNCHANGED <<ret, stackInfo, scanState, snapshot, mutex, numToScan, tasks, gcVars, scans>>

-----------------------------------------------------------------------------
(* StackScanBarrier() and StackScanBarrierInMutator()                      *)

\* Mutant: a scan in progress is not waited for.
BarrierPassedUnlessNeeded(m) == scanState[m] # "kNeedScan"

BarrierPassed(m) == scanState[m] = "kFinishScan"

StackScanBarrier(m) ==
    /\ pc[m] = "barrier"
    /\ Goto(m, IF BarrierPassed(m) THEN ret[m] ELSE "try")
    /\ UNCHANGED <<ret, stackInfo, scanState, snapshot, mutex, numToScan, tasks, gcVars, scans>>

\* One turn of the loop of TrySetScanState(true).  The load and the
\* compare-and-exchange that succeeds on the loaded value are one step.
TrySetScanState(m) ==
    /\ pc[m] = "try"
    /\ Goto(m, CASE scanState[m] = "kFinishScan" -> ret[m]
                 [] scanState[m] = "kInScan"     -> "futex"
                 [] scanState[m] = "kNeedScan"   -> "scan")
    /\ scanState' = IF scanState[m] = "kNeedScan"
                    THEN [scanState EXCEPT ![m] = "kInScan"] ELSE scanState
    /\ UNCHANGED <<ret, stackInfo, snapshot, mutex, numToScan, tasks, gcVars, scans>>

FutexWait(m) ==
    /\ pc[m] = "futex"
    /\ Goto(m, IF scanState[m] = "kInScan" THEN "blocked" ELSE "try")
    /\ UNCHANGED <<ret, stackInfo, scanState, snapshot, mutex, numToScan, tasks, gcVars, scans>>

\* ScanStackAndMark() up to AddTask().  There is no task for a stack without
\* references; whether a stack has some is left open.
ScanStack(m) ==
    /\ scans' = [scans EXCEPT ![m] = @ + 1]
    /\ tasks' \in {tasks, tasks \cup {m}}

MutatorScan(m) ==
    /\ pc[m] = "scan"
    /\ ScanStack(m)
    /\ Goto(m, "count")
    /\ UNCHANGED <<ret, stackInfo, scanState, snapshot, mutex, numToScan, gcVars>>

MutatorCount(m) ==
    /\ pc[m] = "count"
    /\ numToScan' = numToScan - 1
    /\ Goto(m, IF numToScan = 1 THEN "notify" ELSE "finish")
    /\ UNCHANGED <<ret, stackInfo, scanState, snapshot, mutex, tasks, gcVars, scans>>

\* concurrentPhaseBarrier.notify_all(), without snapshotMutex
MutatorNotify(m) ==
    /\ pc[m] = "notify"
    /\ gpc' = IF gpc = "wait_blocked" THEN "wait_lock" ELSE gpc
    /\ Goto(m, "finish")
    /\ UNCHANGED <<ret, stackInfo, scanState, snapshot, mutex, numToScan, tasks, cur, round,
                   roots, scans>>

\* FinishStackScan(false)
MutatorFinish(m) ==
    /\ pc[m] = "finish"
    /\ scanState' = [scanState EXCEPT ![m] = "kFinishScan"]
    /\ Goto(m, "erase")
    /\ UNCHANGED <<ret, stackInfo, snapshot, mutex, numToScan, tasks, gcVars, scans>>

\* Under snapshotMutex
MutatorErase(m) ==
    /\ pc[m] = "erase"
    /\ mutex = None
    /\ snapshot' = snapshot \ {m}
    /\ Goto(m, ret[m])
    /\ UNCHANGED <<ret, stackInfo, scanState, mutex, numToScan, tasks, gcVars, scans>>

-----------------------------------------------------------------------------
(* The GC thread: first pause and ConcurrentStackScan()                    *)

MutatorList == {m \in Mutators : pc[m] \in {"native", "cleared"}}
WorldCanStop == \A m \in Mutators : pc[m] \in {"outside", "native", "cleared", "removed"}

GCGoto(l) == gpc' = l /\ UNCHANGED <<cur, round, roots>>

FastScanRoots ==
    /\ gpc = "idle" /\ WorldCanStop
    /\ scanState' = [m \in Mutators |-> IF m \in MutatorList THEN "kNeedScan" ELSE scanState[m]]
    /\ snapshot' = snapshot \cup MutatorList
    /\ numToScan' = Cardinality(MutatorList)
    /\ roots' = MutatorList
    /\ scans' = [m \in Mutators |-> 0]
    /\ gpc' = "pick"
    /\ round' = 0
    /\ UNCHANGED <<mutatorVars, mutex, tasks, cur>>

\* Mutant: the lock is given back before TrySetScanState().
LockForTryReleased == None

\* The lock is held from the choice of a mutator to TrySetScanState().
LockForTry == GC

PickMutator ==
    /\ gpc = "pick" /\ mutex = None
    /\ IF snapshot = {}
       THEN gpc' = "drain" /\ UNCHANGED <<snapshot, mutex, cur>>
       ELSE /\ cur' \in snapshot
            /\ snapshot' = snapshot \ {cur'}
            /\ mutex' = LockForTry
            /\ gpc' = "try"
    /\ UNCHANGED <<mutatorVars, scanState, numToScan, tasks, round, roots, scans>>

\* Mutant: a scan that the mutator has begun is taken over.
GCMayScanUnfinished(s) == s # "kFinishScan"

GCMayScan(s) == s = "kNeedScan"

\* TrySetScanState(false)
GCTrySetScanState ==
    /\ gpc = "try"
    /\ scanState' = IF GCMayScan(scanState[cur])
                    THEN [scanState EXCEPT ![cur] = "kInScan"] ELSE scanState
    /\ GCGoto(IF GCMayScan(scanState[cur]) THEN "scan" ELSE "pick")
    /\ mutex' = None
    /\ UNCHANGED <<mutatorVars, snapshot, numToScan, tasks, scans>>

GCScan ==
    /\ gpc = "scan"
    /\ ScanStack(cur)
    /\ GCGoto("count")
    /\ UNCHANGED <<mutatorVars, scanState, snapshot, mutex, numToScan>>

\* Nobody but the GC thread itself waits for its notification.
GCCount ==
    /\ gpc = "count"
    /\ numToScan' = numToScan - 1
    /\ GCGoto("finish")
    /\ UNCHANGED <<mutatorVars, scanState, snapshot, mutex, tasks, scans>>

\* FinishStackScan(true)
GCFinish ==
    /\ gpc = "finish"
    /\ scanState' = [scanState EXCEPT ![cur] = "kFinishScan"]
    /\ GCGoto("wake")
    /\ UNCHANGED <<mutatorVars, snapshot, mutex, numToScan, tasks, scans>>

\* Mutant: the mutator is not woken.
WokenNobody == pc

Woken == [pc EXCEPT ![cur] = IF @ = "blocked" THEN "try" ELSE @]

GCWake ==
    /\ gpc = "wake"
    /\ pc' = Woken
    /\ GCGoto("pick")
    /\ UNCHANGED <<ret, stackInfo, scanState, snapshot, mutex, numToScan, tasks, scans>>

-----------------------------------------------------------------------------
(* The rest of ConcurrentMark(), ConcurrentReMark() and the second pause   *)

\* WaitFinish() or DrainTaskQueue()
Drain ==
    /\ gpc = "drain"
    /\ tasks' = {}
    /\ GCGoto("check")
    /\ UNCHANGED <<mutatorVars, scanState, snapshot, mutex, numToScan, scans>>

CheckScanned ==
    /\ gpc = "check"
    /\ GCGoto(IF numToScan # 0 THEN "wait_lock" ELSE "remark")
    /\ UNCHANGED <<mutatorVars, scanState, snapshot, mutex, numToScan, tasks, scans>>

\* concurrentPhaseBarrier.wait(): the predicate is evaluated with
\* snapshotMutex held; only then is the lock released and the thread blocked.
WaitPredicate ==
    /\ gpc = "wait_lock" /\ mutex = None
    /\ IF numToScan = 0
       THEN GCGoto("remark") /\ UNCHANGED mutex
       ELSE GCGoto("wait_block") /\ mutex' = GC
    /\ UNCHANGED <<mutatorVars, scanState, snapshot, numToScan, tasks, scans>>

WaitBlock ==
    /\ gpc = "wait_block"
    /\ mutex' = None
    /\ GCGoto("wait_blocked")
    /\ UNCHANGED <<mutatorVars, scanState, snapshot, numToScan, tasks, scans>>

\* objects: whether the write barrier logged unmarked objects
RemarkNeeded(objects) == objects \/ tasks # {}

ConcurrentReMark(objects) ==
    /\ gpc = "remark"
    /\ IF round < kReMarkRounds /\ RemarkNeeded(objects)
       THEN gpc' = "drain" /\ round' = round + 1
       ELSE gpc' = "stw2" /\ UNCHANGED round
    /\ UNCHANGED <<mutatorVars, scanState, snapshot, mutex, numToScan, tasks, cur, roots, scans>>

\* In the second pause, including the ConcurrentMark() it runs when needed
ConcurrentMarkCleanup(objects) ==
    /\ gpc = "stw2" /\ WorldCanStop
    /\ tasks' = IF RemarkNeeded(objects) THEN {} ELSE tasks
    /\ GCGoto("idle")
    /\ UNCHANGED <<mutatorVars, scanState, snapshot, mutex, numToScan, scans>>

-----------------------------------------------------------------------------
StackScanBarrierInMutator(m) ==
    \/ StackScanBarrier(m) \/ TrySetScanState(m) \/ FutexWait(m) \/ MutatorScan(m)
    \/ MutatorCount(m) \/ MutatorNotify(m) \/ MutatorFinish(m) \/ MutatorErase(m)

ConcurrentStackScan ==
    PickMutator \/ GCTrySetScanState \/ GCScan \/ GCCount \/ GCFinish \/ GCWake

GCSteps ==
    \/ ConcurrentStackScan \/ Drain \/ CheckScanned \/ WaitPredicate \/ WaitBlock
    \/ \E objects \in BOOLEAN : ConcurrentReMark(objects)

Steady ==
    \/ \E m \in Mutators :
          \/ Attach(m) \/ EnterSaferegion(m) \/ LeaveSaferegion(m) \/ ClearStackInfo(m)
          \/ RemoveMutator(m) \/ DeleteMutator(m) \/ StackScanBarrierInMutator(m)
    \/ FastScanRoots \/ GCSteps
    \/ \E objects \in BOOLEAN : ConcurrentMarkCleanup(objects)

\* Waits that return on their own: EINTR, and a spurious wake-up.
Interrupted(m) ==
    /\ pc[m] = "blocked"
    /\ Goto(m, "try")
    /\ UNCHANGED <<ret, stackInfo, scanState, snapshot, mutex, numToScan, tasks, gcVars, scans>>

SpuriousWakeup ==
    /\ gpc = "wait_blocked"
    /\ GCGoto("wait_lock")
    /\ UNCHANGED <<mutatorVars, scanState, snapshot, mutex, numToScan, tasks, scans>>

Next == Steady \/ (\E m \in Mutators : Interrupted(m)) \/ SpuriousWakeup

Spec == Init /\ [][Next]_vars

\* Fairness: a thread in the barrier, and the GC thread in a collection, keep
\* being scheduled.  Nobody is assumed to attach or to leave the saferegion.
Fairness == WF_vars(GCSteps) /\ \A m \in Mutators : WF_vars(StackScanBarrierInMutator(m))

\* Nothing is assumed of interrupted waits: liveness does not lean on them.
LiveSpec == Spec /\ Fairness

-----------------------------------------------------------------------------
(* Properties.                                                             *)

\* Variables have their types; numMutatorToBeScan, which is unsigned, does not
\* go below zero (ScanStackAndMark).
TypeOK ==
    /\ pc \in [Mutators -> MutatorPcs] /\ ret \in [Mutators -> {"managed", "removed"}]
    /\ stackInfo \in [Mutators -> BOOLEAN]
    /\ scanState \in [Mutators -> {"kNeedScan", "kInScan", "kFinishScan"}]
    /\ snapshot \subseteq Mutators /\ tasks \subseteq Mutators /\ roots \subseteq Mutators
    /\ mutex \in Mutators \cup {GC, None}
    /\ numToScan \in 0..Cardinality(Mutators)
    /\ gpc \in GCPcs /\ cur \in Mutators \cup {None} /\ round \in 0..kReMarkRounds
    /\ scans \in [Mutators -> Nat]

\* A mutator runs managed code, or is done with its Mutator object, only once
\* its stack is scanned: neither the GC thread's scan nor its own sees a stack
\* that has changed since the first pause (StackScanBarrier).
RunsOnlyScanned == \A m \in Mutators :
    pc[m] \in {"managed", "removed", "outside"} => scanState[m] = "kFinishScan"

\* When ConcurrentMark() returns, every stack of the first pause has been
\* scanned exactly once, by the GC thread or by its mutator (TrySetScanState,
\* numMutatorToBeScan).
EachStackOnce ==
    gpc \in {"remark", "stw2"} => \A m \in roots : scans[m] = 1

\* The GC thread finds no deleted Mutator in snapshotMutators, and uses none
\* until it has declared the scan finished (ConcurrentStackScan).
NoDeletedMutator ==
    /\ \A m \in snapshot : pc[m] # "outside"
    /\ gpc \in {"try", "scan", "count", "finish"} => pc[cur] # "outside"

\* A mutator that meets the barrier gets through it (FinishStackScan).
BarrierEnds == \A m \in Mutators : pc[m] = "barrier" ~> pc[m] \in {"managed", "removed"}

\* What "notify gc thread" in ScanStackAndMark is for: a GC thread that waits
\* for the mutators' scans goes on once they are done.
ScanWaitEnds == gpc = "wait_lock" ~> gpc = "remark"

\* What FiniYieldpoint clears the stack pointers for, "so that stack scanner
\* skip this mutator": the description of a stack does not go away under a
\* GC thread that is scanning it.
ClearedIsSkipped ==
    [][gpc = "scan" /\ gpc' = "scan" => stackInfo'[cur] = stackInfo[cur]]_vars
=============================================================================
