-------------------------- MODULE StackScanProofs ---------------------------
(***************************************************************************)
(* Proofs about StackScan, for every finite set of mutators.               *)
(*                                                                         *)
(* Three protocols meet at a stack: the scan state, which mutator and GC   *)
(* thread take by compare-and-exchange, the snapshot under its mutex, and  *)
(* the counter.  IInv relates them: who scans a stack that is in scan, why *)
(* a mutator of the snapshot still exists, and which stacks the counter    *)
(* counts.                                                                 *)
(***************************************************************************)
EXTENDS StackScan, FiniteSetTheorems, TLAPS

ScanLoopPcs == {"pick", "try", "scan", "count", "finish", "wake"}

\* Which thread scans the stack of m now, and who could be picked to scan it.
OwnScan(m) == pc[m] \in {"scan", "count", "notify", "finish"}
GCScans(m) == gpc \in {"scan", "count", "finish"} /\ cur = m
Listed(m)  == m \in snapshot \/ (gpc = "try" /\ cur = m)

\* The GC thread owns snapshotMutex from PickMutator to GCTrySetScanState, and
\* while it is about to block; no mutator keeps it between two steps.
MutexInv == mutex = IF gpc \in {"try", "wait_block"} THEN GC ELSE None

\* The mutator picked is one, and is out of the snapshot.
CurInv ==
    /\ gpc \in ScanLoopPcs \ {"pick"} => cur \in Mutators
    /\ gpc = "try" => cur \notin snapshot

\* A stack in scan is scanned by one thread, and a stack that needs a scan is
\* on its way to one.
ScanInv == \A m \in Mutators :
    /\ scanState[m] = "kInScan" <=> OwnScan(m) \/ GCScans(m)
    /\ ~(OwnScan(m) /\ GCScans(m))
    /\ scanState[m] = "kNeedScan" => Listed(m)
    /\ pc[m] = "erase" => scanState[m] = "kFinishScan"

\* A mutator of the snapshot, or just picked from it, waits for its scan or has
\* not yet erased itself.
SnapshotInv == \A m \in Mutators :
    Listed(m) => scanState[m] = "kNeedScan" \/ OwnScan(m) \/ pc[m] = "erase"

\* The stacks numMutatorToBeScan still counts.
Uncounted == {m \in Mutators : \/ scanState[m] = "kNeedScan"
                               \/ pc[m] \in {"scan", "count"}
                               \/ gpc \in {"scan", "count"} /\ cur = m}

CountInv == numToScan = Cardinality(Uncounted)

\* The snapshot is empty once the loop of ConcurrentStackScan() is done, and
\* nothing is left to count once ConcurrentMark() has returned.
PhaseInv ==
    /\ gpc \notin ScanLoopPcs => snapshot = {}
    /\ gpc \in {"remark", "stw2", "idle"} => numToScan = 0

\* The stacks of this collection that nobody has scanned yet.
Unscanned(m) == \/ scanState[m] = "kNeedScan"
                \/ pc[m] = "scan"
                \/ gpc = "scan" /\ cur = m

ScansInv == \A m \in roots : scans[m] = IF Unscanned(m) THEN 0 ELSE 1

IInv ==
    /\ TypeOK
    /\ MutexInv
    /\ CurInv
    /\ ScanInv
    /\ SnapshotInv
    /\ CountInv
    /\ PhaseInv
    /\ ScansInv
    /\ RunsOnlyScanned

-----------------------------------------------------------------------------
(* Counting.                                                               *)

\* The counter never exceeds the number of mutators, in the state after a step
\* either.
LEMMA SetOfMutators ==
    ASSUME NEW S \in SUBSET Mutators
    PROVE  IsFiniteSet(S) /\ Cardinality(S) \in 0 .. Cardinality(Mutators)
  <1>1. IsFiniteSet(S) /\ Cardinality(S) <= Cardinality(Mutators)
    BY ScanAssumption, FS_Subset
  <1>2. Cardinality(S) \in Nat /\ Cardinality(Mutators) \in Nat
    BY <1>1, ScanAssumption, FS_CardinalityType
  <1>3. QED
    BY <1>1, <1>2

LEMMA CountInRangeNext ==
    ASSUME CountInv'
    PROVE  numToScan' \in 0 .. Cardinality(Mutators)
  <1>1. Uncounted' \in SUBSET Mutators
    BY DEF Uncounted
  <1>2. QED
    BY <1>1, SetOfMutators DEF CountInv

\* fetch_sub by the thread that has scanned the stack of m
LEMMA CountDown ==
    ASSUME CountInv, NEW m \in Uncounted, Uncounted' = Uncounted \ {m},
           numToScan' = numToScan - 1
    PROVE  CountInv'
  <1>1. IsFiniteSet(Uncounted)
    BY SetOfMutators DEF Uncounted
  <1>2. Cardinality(Uncounted \ {m}) = Cardinality(Uncounted) - 1
    BY <1>1, FS_RemoveElement
  <1>3. QED
    BY <1>2 DEF CountInv

\* A counter at zero has counted all stacks, one above zero has not.
LEMMA CountedAll ==
    ASSUME CountInv
    PROVE  numToScan = 0 <=> Uncounted = {}
  <1>1. IsFiniteSet(Uncounted)
    BY SetOfMutators DEF Uncounted
  <1>2. QED
    BY <1>1, FS_EmptySet DEF CountInv

-----------------------------------------------------------------------------
(* The invariant is inductive.                                             *)

\* No collection has begun.
LEMMA InitIInv == Init => IInv
<1> SUFFICES ASSUME Init PROVE IInv
  OBVIOUS
<1>1. Uncounted = {}
  BY DEF Init, Uncounted
<1>2. CountInv /\ numToScan \in 0 .. Cardinality(Mutators)
  BY <1>1, FS_EmptySet, SetOfMutators DEF Init, CountInv
<1>3. TypeOK
  BY <1>2 DEF Init, TypeOK, MutatorPcs, GCPcs, kReMarkRounds
<1>4. MutexInv /\ CurInv /\ ScanInv /\ SnapshotInv /\ PhaseInv /\ ScansInv /\ RunsOnlyScanned
  BY DEF Init, MutexInv, CurInv, ScanInv, SnapshotInv, PhaseInv, ScansInv, RunsOnlyScanned,
     ScanLoopPcs, OwnScan, GCScans, Listed
<1>5. QED
  BY <1>2, <1>3, <1>4 DEF IInv

\* Outside the barrier a mutator changes nothing the scan rests on.
LEMMA LifeIInv ==
    ASSUME IInv, NEW m \in Mutators,
           \/ Attach(m) \/ EnterSaferegion(m) \/ LeaveSaferegion(m) \/ ClearStackInfo(m)
           \/ RemoveMutator(m) \/ DeleteMutator(m) \/ Interrupted(m)
    PROVE  IInv'
  <1> USE DEF mutatorVars, gcVars, Goto, GCGoto, MutatorPcs, GCPcs, ScanLoopPcs, OwnScan,
              GCScans, Listed
  <1>0. /\ TypeOK /\ MutexInv /\ CurInv /\ ScanInv /\ SnapshotInv /\ CountInv /\ PhaseInv
        /\ ScansInv /\ RunsOnlyScanned
    BY DEF IInv
  <1>1. CASE Attach(m)
    <2> USE <1>1 DEF Attach
    <2>1. CountInv'
      <3>1. Uncounted' = Uncounted
        BY <1>0, ScanAssumption DEF TypeOK, Uncounted, CurInv, ScanInv, RunsOnlyScanned
      <3>2. QED
        BY <1>0, <3>1 DEF CountInv
    <2>2. TypeOK'
      BY <1>0, <2>1, CountInRangeNext DEF TypeOK, CurInv
    <2>3. MutexInv' /\ CurInv'
      BY <1>0, ScanAssumption DEF TypeOK, MutexInv, CurInv
    <2>4. ScanInv'
      BY <1>0 DEF TypeOK, ScanInv, CurInv, RunsOnlyScanned
    <2>5. SnapshotInv'
      BY <1>0, ScanAssumption
      DEF TypeOK, SnapshotInv, ScanInv, CurInv, MutexInv, RunsOnlyScanned
    <2>6. PhaseInv'
      BY <1>0, CountedAll DEF TypeOK, PhaseInv, Uncounted
    <2>7. ScansInv'
      BY <1>0 DEF TypeOK, ScansInv, ScanInv, CurInv, Unscanned, RunsOnlyScanned
    <2>8. RunsOnlyScanned'
      BY <1>0 DEF TypeOK, RunsOnlyScanned, ScanInv, CurInv
    <2>9. QED
      BY <2>1, <2>2, <2>3, <2>4, <2>5, <2>6, <2>7, <2>8 DEF IInv
  <1>2. CASE EnterSaferegion(m)
    <2> USE <1>2 DEF EnterSaferegion
    <2>1. CountInv'
      <3>1. Uncounted' = Uncounted
        BY <1>0, ScanAssumption DEF TypeOK, Uncounted, CurInv, ScanInv, RunsOnlyScanned
      <3>2. QED
        BY <1>0, <3>1 DEF CountInv
    <2>2. TypeOK'
      BY <1>0, <2>1, CountInRangeNext DEF TypeOK, CurInv
    <2>3. MutexInv' /\ CurInv'
      BY <1>0, ScanAssumption DEF TypeOK, MutexInv, CurInv
    <2>4. ScanInv'
      BY <1>0 DEF TypeOK, ScanInv, CurInv, RunsOnlyScanned
    <2>5. SnapshotInv'
      BY <1>0, ScanAssumption
      DEF TypeOK, SnapshotInv, ScanInv, CurInv, MutexInv, RunsOnlyScanned
    <2>6. PhaseInv'
      BY <1>0, CountedAll DEF TypeOK, PhaseInv, Uncounted
    <2>7. ScansInv'
      BY <1>0 DEF TypeOK, ScansInv, ScanInv, CurInv, Unscanned, RunsOnlyScanned
    <2>8. RunsOnlyScanned'
      BY <1>0 DEF TypeOK, RunsOnlyScanned, ScanInv, CurInv
    <2>9. QED
      BY <2>1, <2>2, <2>3, <2>4, <2>5, <2>6, <2>7, <2>8 DEF IInv
  <1>3. CASE LeaveSaferegion(m)
    <2> USE <1>3 DEF LeaveSaferegion
    <2>1. CountInv'
      <3>1. Uncounted' = Uncounted
        BY <1>0, ScanAssumption DEF TypeOK, Uncounted, CurInv, ScanInv, RunsOnlyScanned
      <3>2. QED
        BY <1>0, <3>1 DEF CountInv
    <2>2. TypeOK'
      BY <1>0, <2>1, CountInRangeNext DEF TypeOK, CurInv
    <2>3. MutexInv' /\ CurInv'
      BY <1>0, ScanAssumption DEF TypeOK, MutexInv, CurInv
    <2>4. ScanInv'
      BY <1>0 DEF TypeOK, ScanInv, CurInv, RunsOnlyScanned
    <2>5. SnapshotInv'
      BY <1>0, ScanAssumption
      DEF TypeOK, SnapshotInv, ScanInv, CurInv, MutexInv, RunsOnlyScanned
    <2>6. PhaseInv'
      BY <1>0, CountedAll DEF TypeOK, PhaseInv, Uncounted
    <2>7. ScansInv'
      BY <1>0 DEF TypeOK, ScansInv, ScanInv, CurInv, Unscanned, RunsOnlyScanned
    <2>8. RunsOnlyScanned'
      BY <1>0 DEF TypeOK, RunsOnlyScanned, ScanInv, CurInv
    <2>9. QED
      BY <2>1, <2>2, <2>3, <2>4, <2>5, <2>6, <2>7, <2>8 DEF IInv
  <1>4. CASE ClearStackInfo(m)
    <2> USE <1>4 DEF ClearStackInfo
    <2>1. CountInv'
      <3>1. Uncounted' = Uncounted
        BY <1>0, ScanAssumption DEF TypeOK, Uncounted, CurInv, ScanInv, RunsOnlyScanned
      <3>2. QED
        BY <1>0, <3>1 DEF CountInv
    <2>2. TypeOK'
      BY <1>0, <2>1, CountInRangeNext DEF TypeOK, CurInv
    <2>3. MutexInv' /\ CurInv'
      BY <1>0, ScanAssumption DEF TypeOK, MutexInv, CurInv
    <2>4. ScanInv'
      BY <1>0 DEF TypeOK, ScanInv, CurInv, RunsOnlyScanned
    <2>5. SnapshotInv'
      BY <1>0, ScanAssumption
      DEF TypeOK, SnapshotInv, ScanInv, CurInv, MutexInv, RunsOnlyScanned
    <2>6. PhaseInv'
      BY <1>0, CountedAll DEF TypeOK, PhaseInv, Uncounted
    <2>7. ScansInv'
      BY <1>0 DEF TypeOK, ScansInv, ScanInv, CurInv, Unscanned, RunsOnlyScanned
    <2>8. RunsOnlyScanned'
      BY <1>0 DEF TypeOK, RunsOnlyScanned, ScanInv, CurInv
    <2>9. QED
      BY <2>1, <2>2, <2>3, <2>4, <2>5, <2>6, <2>7, <2>8 DEF IInv
  <1>5. CASE RemoveMutator(m)
    <2> USE <1>5 DEF RemoveMutator
    <2>1. CountInv'
      <3>1. Uncounted' = Uncounted
        BY <1>0, ScanAssumption DEF TypeOK, Uncounted, CurInv, ScanInv, RunsOnlyScanned
      <3>2. QED
        BY <1>0, <3>1 DEF CountInv
    <2>2. TypeOK'
      BY <1>0, <2>1, CountInRangeNext DEF TypeOK, CurInv
    <2>3. MutexInv' /\ CurInv'
      BY <1>0, ScanAssumption DEF TypeOK, MutexInv, CurInv
    <2>4. ScanInv'
      BY <1>0 DEF TypeOK, ScanInv, CurInv, RunsOnlyScanned
    <2>5. SnapshotInv'
      BY <1>0, ScanAssumption
      DEF TypeOK, SnapshotInv, ScanInv, CurInv, MutexInv, RunsOnlyScanned
    <2>6. PhaseInv'
      BY <1>0, CountedAll DEF TypeOK, PhaseInv, Uncounted
    <2>7. ScansInv'
      BY <1>0 DEF TypeOK, ScansInv, ScanInv, CurInv, Unscanned, RunsOnlyScanned
    <2>8. RunsOnlyScanned'
      BY <1>0 DEF TypeOK, RunsOnlyScanned, ScanInv, CurInv
    <2>9. QED
      BY <2>1, <2>2, <2>3, <2>4, <2>5, <2>6, <2>7, <2>8 DEF IInv
  <1>6. CASE DeleteMutator(m)
    <2> USE <1>6 DEF DeleteMutator
    <2>1. CountInv'
      <3>1. Uncounted' = Uncounted
        BY <1>0, ScanAssumption DEF TypeOK, Uncounted, CurInv, ScanInv, RunsOnlyScanned
      <3>2. QED
        BY <1>0, <3>1 DEF CountInv
    <2>2. TypeOK'
      BY <1>0, <2>1, CountInRangeNext DEF TypeOK, CurInv
    <2>3. MutexInv' /\ CurInv'
      BY <1>0, ScanAssumption DEF TypeOK, MutexInv, CurInv
    <2>4. ScanInv'
      BY <1>0 DEF TypeOK, ScanInv, CurInv, RunsOnlyScanned
    <2>5. SnapshotInv'
      BY <1>0, ScanAssumption
      DEF TypeOK, SnapshotInv, ScanInv, CurInv, MutexInv, RunsOnlyScanned
    <2>6. PhaseInv'
      BY <1>0, CountedAll DEF TypeOK, PhaseInv, Uncounted
    <2>7. ScansInv'
      BY <1>0 DEF TypeOK, ScansInv, ScanInv, CurInv, Unscanned, RunsOnlyScanned
    <2>8. RunsOnlyScanned'
      BY <1>0 DEF TypeOK, RunsOnlyScanned, ScanInv, CurInv
    <2>9. QED
      BY <2>1, <2>2, <2>3, <2>4, <2>5, <2>6, <2>7, <2>8 DEF IInv
  <1>7. CASE Interrupted(m)
    <2> USE <1>7 DEF Interrupted
    <2>1. CountInv'
      <3>1. Uncounted' = Uncounted
        BY <1>0, ScanAssumption DEF TypeOK, Uncounted, CurInv, ScanInv, RunsOnlyScanned
      <3>2. QED
        BY <1>0, <3>1 DEF CountInv
    <2>2. TypeOK'
      BY <1>0, <2>1, CountInRangeNext DEF TypeOK, CurInv
    <2>3. MutexInv' /\ CurInv'
      BY <1>0, ScanAssumption DEF TypeOK, MutexInv, CurInv
    <2>4. ScanInv'
      BY <1>0 DEF TypeOK, ScanInv, CurInv, RunsOnlyScanned
    <2>5. SnapshotInv'
      BY <1>0, ScanAssumption
      DEF TypeOK, SnapshotInv, ScanInv, CurInv, MutexInv, RunsOnlyScanned
    <2>6. PhaseInv'
      BY <1>0, CountedAll DEF TypeOK, PhaseInv, Uncounted
    <2>7. ScansInv'
      BY <1>0 DEF TypeOK, ScansInv, ScanInv, CurInv, Unscanned, RunsOnlyScanned
    <2>8. RunsOnlyScanned'
      BY <1>0 DEF TypeOK, RunsOnlyScanned, ScanInv, CurInv
    <2>9. QED
      BY <2>1, <2>2, <2>3, <2>4, <2>5, <2>6, <2>7, <2>8 DEF IInv
  <1>8. QED
    BY <1>1, <1>2, <1>3, <1>4, <1>5, <1>6, <1>7

\* A mutator's steps in the barrier.
LEMMA BarrierIInv ==
    ASSUME IInv, NEW m \in Mutators, StackScanBarrierInMutator(m)
    PROVE  IInv'
  <1> USE DEF mutatorVars, gcVars, Goto, GCGoto, MutatorPcs, GCPcs, ScanLoopPcs, OwnScan,
              GCScans, Listed
  <1>0. /\ TypeOK /\ MutexInv /\ CurInv /\ ScanInv /\ SnapshotInv /\ CountInv /\ PhaseInv
        /\ ScansInv /\ RunsOnlyScanned
    BY DEF IInv
  <1>1. CASE StackScanBarrier(m)
    <2> USE <1>1 DEF StackScanBarrier, BarrierPassed
    <2>1. CountInv'
      <3>1. Uncounted' = Uncounted
        BY <1>0, ScanAssumption DEF TypeOK, Uncounted, CurInv, ScanInv, RunsOnlyScanned
      <3>2. QED
        BY <1>0, <3>1 DEF CountInv
    <2>2. TypeOK'
      BY <1>0, <2>1, CountInRangeNext DEF TypeOK, CurInv
    <2>3. MutexInv' /\ CurInv'
      BY <1>0, ScanAssumption DEF TypeOK, MutexInv, CurInv
    <2>4. ScanInv'
      BY <1>0 DEF TypeOK, ScanInv, CurInv, RunsOnlyScanned
    <2>5. SnapshotInv'
      BY <1>0, ScanAssumption
      DEF TypeOK, SnapshotInv, ScanInv, CurInv, MutexInv, RunsOnlyScanned
    <2>6. PhaseInv'
      BY <1>0, CountedAll DEF TypeOK, PhaseInv, Uncounted
    <2>7. ScansInv'
      BY <1>0 DEF TypeOK, ScansInv, ScanInv, CurInv, Unscanned, RunsOnlyScanned
    <2>8. RunsOnlyScanned'
      BY <1>0 DEF TypeOK, RunsOnlyScanned, ScanInv, CurInv
    <2>9. QED
      BY <2>1, <2>2, <2>3, <2>4, <2>5, <2>6, <2>7, <2>8 DEF IInv
  <1>2. CASE TrySetScanState(m)
    <2> USE <1>2 DEF TrySetScanState
    <2>1. CountInv'
      <3>1. Uncounted' = Uncounted
        BY <1>0, ScanAssumption DEF TypeOK, Uncounted, CurInv, ScanInv, RunsOnlyScanned
      <3>2. QED
        BY <1>0, <3>1 DEF CountInv
    <2>2. TypeOK'
      BY <1>0, <2>1, CountInRangeNext DEF TypeOK, CurInv
    <2>3. MutexInv' /\ CurInv'
      BY <1>0, ScanAssumption DEF TypeOK, MutexInv, CurInv
    <2>4. ScanInv'
      BY <1>0 DEF TypeOK, ScanInv, CurInv, RunsOnlyScanned
    <2>5. SnapshotInv'
      BY <1>0, ScanAssumption
      DEF TypeOK, SnapshotInv, ScanInv, CurInv, MutexInv, RunsOnlyScanned
    <2>6. PhaseInv'
      BY <1>0, CountedAll DEF TypeOK, PhaseInv, Uncounted
    <2>7. ScansInv'
      BY <1>0 DEF TypeOK, ScansInv, ScanInv, CurInv, Unscanned, RunsOnlyScanned
    <2>8. RunsOnlyScanned'
      BY <1>0 DEF TypeOK, RunsOnlyScanned, ScanInv, CurInv
    <2>9. QED
      BY <2>1, <2>2, <2>3, <2>4, <2>5, <2>6, <2>7, <2>8 DEF IInv
  <1>3. CASE FutexWait(m)
    <2> USE <1>3 DEF FutexWait
    <2>1. CountInv'
      <3>1. Uncounted' = Uncounted
        BY <1>0, ScanAssumption DEF TypeOK, Uncounted, CurInv, ScanInv, RunsOnlyScanned
      <3>2. QED
        BY <1>0, <3>1 DEF CountInv
    <2>2. TypeOK'
      BY <1>0, <2>1, CountInRangeNext DEF TypeOK, CurInv
    <2>3. MutexInv' /\ CurInv'
      BY <1>0, ScanAssumption DEF TypeOK, MutexInv, CurInv
    <2>4. ScanInv'
      BY <1>0 DEF TypeOK, ScanInv, CurInv, RunsOnlyScanned
    <2>5. SnapshotInv'
      BY <1>0, ScanAssumption
      DEF TypeOK, SnapshotInv, ScanInv, CurInv, MutexInv, RunsOnlyScanned
    <2>6. PhaseInv'
      BY <1>0, CountedAll DEF TypeOK, PhaseInv, Uncounted
    <2>7. ScansInv'
      BY <1>0 DEF TypeOK, ScansInv, ScanInv, CurInv, Unscanned, RunsOnlyScanned
    <2>8. RunsOnlyScanned'
      BY <1>0 DEF TypeOK, RunsOnlyScanned, ScanInv, CurInv
    <2>9. QED
      BY <2>1, <2>2, <2>3, <2>4, <2>5, <2>6, <2>7, <2>8 DEF IInv
  <1>4. CASE MutatorScan(m)
    <2> USE <1>4 DEF MutatorScan, ScanStack
    <2>1. CountInv'
      <3>1. Uncounted' = Uncounted
        BY <1>0, ScanAssumption DEF TypeOK, Uncounted, CurInv, ScanInv, RunsOnlyScanned
      <3>2. QED
        BY <1>0, <3>1 DEF CountInv
    <2>2. TypeOK'
      BY <1>0, <2>1, CountInRangeNext DEF TypeOK, CurInv
    <2>3. MutexInv' /\ CurInv'
      BY <1>0, ScanAssumption DEF TypeOK, MutexInv, CurInv
    <2>4. ScanInv'
      BY <1>0 DEF TypeOK, ScanInv, CurInv, RunsOnlyScanned
    <2>5. SnapshotInv'
      BY <1>0, ScanAssumption
      DEF TypeOK, SnapshotInv, ScanInv, CurInv, MutexInv, RunsOnlyScanned
    <2>6. PhaseInv'
      BY <1>0, CountedAll DEF TypeOK, PhaseInv, Uncounted
    <2>7. ScansInv'
      BY <1>0 DEF TypeOK, ScansInv, ScanInv, CurInv, Unscanned, RunsOnlyScanned
    <2>8. RunsOnlyScanned'
      BY <1>0 DEF TypeOK, RunsOnlyScanned, ScanInv, CurInv
    <2>9. QED
      BY <2>1, <2>2, <2>3, <2>4, <2>5, <2>6, <2>7, <2>8 DEF IInv
  <1>5. CASE MutatorCount(m)
    <2> USE <1>5 DEF MutatorCount
    <2>1. CountInv'
      <3>1. m \in Uncounted /\ Uncounted' = Uncounted \ {m}
        BY <1>0, ScanAssumption DEF TypeOK, Uncounted, CurInv, ScanInv
      <3>2. QED
        BY <1>0, <3>1, CountDown
    <2>2. TypeOK'
      BY <1>0, <2>1, CountInRangeNext DEF TypeOK, CurInv
    <2>3. MutexInv' /\ CurInv'
      BY <1>0, ScanAssumption DEF TypeOK, MutexInv, CurInv
    <2>4. ScanInv'
      BY <1>0 DEF TypeOK, ScanInv, CurInv, RunsOnlyScanned
    <2>5. SnapshotInv'
      BY <1>0, ScanAssumption
      DEF TypeOK, SnapshotInv, ScanInv, CurInv, MutexInv, RunsOnlyScanned
    <2>6. PhaseInv'
      BY <1>0, CountedAll DEF TypeOK, PhaseInv, Uncounted
    <2>7. ScansInv'
      BY <1>0 DEF TypeOK, ScansInv, ScanInv, CurInv, Unscanned, RunsOnlyScanned
    <2>8. RunsOnlyScanned'
      BY <1>0 DEF TypeOK, RunsOnlyScanned, ScanInv, CurInv
    <2>9. QED
      BY <2>1, <2>2, <2>3, <2>4, <2>5, <2>6, <2>7, <2>8 DEF IInv
  <1>6. CASE MutatorNotify(m)
    <2> USE <1>6 DEF MutatorNotify
    <2>1. CountInv'
      <3>1. Uncounted' = Uncounted
        BY <1>0, ScanAssumption DEF TypeOK, Uncounted, CurInv, ScanInv, RunsOnlyScanned
      <3>2. QED
        BY <1>0, <3>1 DEF CountInv
    <2>2. TypeOK'
      BY <1>0, <2>1, CountInRangeNext DEF TypeOK, CurInv
    <2>3. MutexInv' /\ CurInv'
      BY <1>0, ScanAssumption DEF TypeOK, MutexInv, CurInv
    <2>4. ScanInv'
      BY <1>0 DEF TypeOK, ScanInv, CurInv, RunsOnlyScanned
    <2>5. SnapshotInv'
      BY <1>0, ScanAssumption
      DEF TypeOK, SnapshotInv, ScanInv, CurInv, MutexInv, RunsOnlyScanned
    <2>6. PhaseInv'
      BY <1>0, CountedAll DEF TypeOK, PhaseInv, Uncounted
    <2>7. ScansInv'
      BY <1>0 DEF TypeOK, ScansInv, ScanInv, CurInv, Unscanned, RunsOnlyScanned
    <2>8. RunsOnlyScanned'
      BY <1>0 DEF TypeOK, RunsOnlyScanned, ScanInv, CurInv
    <2>9. QED
      BY <2>1, <2>2, <2>3, <2>4, <2>5, <2>6, <2>7, <2>8 DEF IInv
  <1>7. CASE MutatorFinish(m)
    <2> USE <1>7 DEF MutatorFinish
    <2>1. CountInv'
      <3>1. Uncounted' = Uncounted
        BY <1>0, ScanAssumption DEF TypeOK, Uncounted, CurInv, ScanInv, RunsOnlyScanned
      <3>2. QED
        BY <1>0, <3>1 DEF CountInv
    <2>2. TypeOK'
      BY <1>0, <2>1, CountInRangeNext DEF TypeOK, CurInv
    <2>3. MutexInv' /\ CurInv'
      BY <1>0, ScanAssumption DEF TypeOK, MutexInv, CurInv
    <2>4. ScanInv'
      BY <1>0 DEF TypeOK, ScanInv, CurInv, RunsOnlyScanned
    <2>5. SnapshotInv'
      BY <1>0, ScanAssumption
      DEF TypeOK, SnapshotInv, ScanInv, CurInv, MutexInv, RunsOnlyScanned
    <2>6. PhaseInv'
      BY <1>0, CountedAll DEF TypeOK, PhaseInv, Uncounted
    <2>7. ScansInv'
      BY <1>0 DEF TypeOK, ScansInv, ScanInv, CurInv, Unscanned, RunsOnlyScanned
    <2>8. RunsOnlyScanned'
      BY <1>0 DEF TypeOK, RunsOnlyScanned, ScanInv, CurInv
    <2>9. QED
      BY <2>1, <2>2, <2>3, <2>4, <2>5, <2>6, <2>7, <2>8 DEF IInv
  <1>8. CASE MutatorErase(m)
    <2> USE <1>8 DEF MutatorErase
    <2>1. CountInv'
      <3>1. Uncounted' = Uncounted
        BY <1>0, ScanAssumption DEF TypeOK, Uncounted, CurInv, ScanInv, RunsOnlyScanned
      <3>2. QED
        BY <1>0, <3>1 DEF CountInv
    <2>2. TypeOK'
      BY <1>0, <2>1, CountInRangeNext DEF TypeOK, CurInv
    <2>3. MutexInv' /\ CurInv'
      BY <1>0, ScanAssumption DEF TypeOK, MutexInv, CurInv
    <2>4. ScanInv'
      BY <1>0 DEF TypeOK, ScanInv, CurInv, RunsOnlyScanned
    <2>5. SnapshotInv'
      BY <1>0, ScanAssumption
      DEF TypeOK, SnapshotInv, ScanInv, CurInv, MutexInv, RunsOnlyScanned
    <2>6. PhaseInv'
      BY <1>0, CountedAll DEF TypeOK, PhaseInv, Uncounted
    <2>7. ScansInv'
      BY <1>0 DEF TypeOK, ScansInv, ScanInv, CurInv, Unscanned, RunsOnlyScanned
    <2>8. RunsOnlyScanned'
      BY <1>0 DEF TypeOK, RunsOnlyScanned, ScanInv, CurInv
    <2>9. QED
      BY <2>1, <2>2, <2>3, <2>4, <2>5, <2>6, <2>7, <2>8 DEF IInv
  <1>9. QED
    BY <1>1, <1>2, <1>3, <1>4, <1>5, <1>6, <1>7, <1>8 DEF StackScanBarrierInMutator

\* The GC thread's steps in the loop of ConcurrentStackScan().
LEMMA LoopIInv ==
    ASSUME IInv, ConcurrentStackScan
    PROVE  IInv'
  <1> USE DEF mutatorVars, gcVars, Goto, GCGoto, MutatorPcs, GCPcs, ScanLoopPcs, OwnScan,
              GCScans, Listed
  <1>0. /\ TypeOK /\ MutexInv /\ CurInv /\ ScanInv /\ SnapshotInv /\ CountInv /\ PhaseInv
        /\ ScansInv /\ RunsOnlyScanned
    BY DEF IInv
  <1>1. CASE PickMutator
    <2> USE <1>1 DEF PickMutator, LockForTry
    <2>1. CountInv'
      <3>1. Uncounted' = Uncounted
        BY <1>0, ScanAssumption DEF TypeOK, Uncounted, CurInv, ScanInv, RunsOnlyScanned
      <3>2. QED
        BY <1>0, <3>1 DEF CountInv
    <2>2. TypeOK'
      BY <1>0, <2>1, CountInRangeNext DEF TypeOK, CurInv
    <2>3. MutexInv' /\ CurInv'
      BY <1>0, ScanAssumption DEF TypeOK, MutexInv, CurInv
    <2>4. ScanInv'
      BY <1>0 DEF TypeOK, ScanInv, CurInv, RunsOnlyScanned
    <2>5. SnapshotInv'
      BY <1>0, ScanAssumption
      DEF TypeOK, SnapshotInv, ScanInv, CurInv, MutexInv, RunsOnlyScanned
    <2>6. PhaseInv'
      BY <1>0, CountedAll DEF TypeOK, PhaseInv, Uncounted
    <2>7. ScansInv'
      BY <1>0 DEF TypeOK, ScansInv, ScanInv, CurInv, Unscanned, RunsOnlyScanned
    <2>8. RunsOnlyScanned'
      BY <1>0 DEF TypeOK, RunsOnlyScanned, ScanInv, CurInv
    <2>9. QED
      BY <2>1, <2>2, <2>3, <2>4, <2>5, <2>6, <2>7, <2>8 DEF IInv
  <1>2. CASE GCTrySetScanState
    <2> USE <1>2 DEF GCTrySetScanState, GCMayScan
    <2>1. CountInv'
      <3>1. Uncounted' = Uncounted
        BY <1>0, ScanAssumption DEF TypeOK, Uncounted, CurInv, ScanInv, RunsOnlyScanned
      <3>2. QED
        BY <1>0, <3>1 DEF CountInv
    <2>2. TypeOK'
      BY <1>0, <2>1, CountInRangeNext DEF TypeOK, CurInv
    <2>3. MutexInv' /\ CurInv'
      BY <1>0, ScanAssumption DEF TypeOK, MutexInv, CurInv
    <2>4. ScanInv'
      BY <1>0 DEF TypeOK, ScanInv, CurInv, RunsOnlyScanned
    <2>5. SnapshotInv'
      BY <1>0, ScanAssumption
      DEF TypeOK, SnapshotInv, ScanInv, CurInv, MutexInv, RunsOnlyScanned
    <2>6. PhaseInv'
      BY <1>0, CountedAll DEF TypeOK, PhaseInv, Uncounted
    <2>7. ScansInv'
      BY <1>0 DEF TypeOK, ScansInv, ScanInv, CurInv, Unscanned, RunsOnlyScanned
    <2>8. RunsOnlyScanned'
      BY <1>0 DEF TypeOK, RunsOnlyScanned, ScanInv, CurInv
    <2>9. QED
      BY <2>1, <2>2, <2>3, <2>4, <2>5, <2>6, <2>7, <2>8 DEF IInv
  <1>3. CASE GCScan
    <2> USE <1>3 DEF GCScan, ScanStack
    <2>1. CountInv'
      <3>1. Uncounted' = Uncounted
        BY <1>0, ScanAssumption DEF TypeOK, Uncounted, CurInv, ScanInv, RunsOnlyScanned
      <3>2. QED
        BY <1>0, <3>1 DEF CountInv
    <2>2. TypeOK'
      BY <1>0, <2>1, CountInRangeNext DEF TypeOK, CurInv
    <2>3. MutexInv' /\ CurInv'
      BY <1>0, ScanAssumption DEF TypeOK, MutexInv, CurInv
    <2>4. ScanInv'
      BY <1>0 DEF TypeOK, ScanInv, CurInv, RunsOnlyScanned
    <2>5. SnapshotInv'
      BY <1>0, ScanAssumption
      DEF TypeOK, SnapshotInv, ScanInv, CurInv, MutexInv, RunsOnlyScanned
    <2>6. PhaseInv'
      BY <1>0, CountedAll DEF TypeOK, PhaseInv, Uncounted
    <2>7. ScansInv'
      BY <1>0 DEF TypeOK, ScansInv, ScanInv, CurInv, Unscanned, RunsOnlyScanned
    <2>8. RunsOnlyScanned'
      BY <1>0 DEF TypeOK, RunsOnlyScanned, ScanInv, CurInv
    <2>9. QED
      BY <2>1, <2>2, <2>3, <2>4, <2>5, <2>6, <2>7, <2>8 DEF IInv
  <1>4. CASE GCCount
    <2> USE <1>4 DEF GCCount
    <2>1. CountInv'
      <3>1. cur \in Uncounted /\ Uncounted' = Uncounted \ {cur}
        BY <1>0, ScanAssumption DEF TypeOK, Uncounted, CurInv, ScanInv
      <3>2. QED
        BY <1>0, <3>1, CountDown
    <2>2. TypeOK'
      BY <1>0, <2>1, CountInRangeNext DEF TypeOK, CurInv
    <2>3. MutexInv' /\ CurInv'
      BY <1>0, ScanAssumption DEF TypeOK, MutexInv, CurInv
    <2>4. ScanInv'
      BY <1>0 DEF TypeOK, ScanInv, CurInv, RunsOnlyScanned
    <2>5. SnapshotInv'
      BY <1>0, ScanAssumption
      DEF TypeOK, SnapshotInv, ScanInv, CurInv, MutexInv, RunsOnlyScanned
    <2>6. PhaseInv'
      BY <1>0, CountedAll DEF TypeOK, PhaseInv, Uncounted
    <2>7. ScansInv'
      BY <1>0 DEF TypeOK, ScansInv, ScanInv, CurInv, Unscanned, RunsOnlyScanned
    <2>8. RunsOnlyScanned'
      BY <1>0 DEF TypeOK, RunsOnlyScanned, ScanInv, CurInv
    <2>9. QED
      BY <2>1, <2>2, <2>3, <2>4, <2>5, <2>6, <2>7, <2>8 DEF IInv
  <1>5. CASE GCFinish
    <2> USE <1>5 DEF GCFinish
    <2>1. CountInv'
      <3>1. Uncounted' = Uncounted
        BY <1>0, ScanAssumption DEF TypeOK, Uncounted, CurInv, ScanInv, RunsOnlyScanned
      <3>2. QED
        BY <1>0, <3>1 DEF CountInv
    <2>2. TypeOK'
      BY <1>0, <2>1, CountInRangeNext DEF TypeOK, CurInv
    <2>3. MutexInv' /\ CurInv'
      BY <1>0, ScanAssumption DEF TypeOK, MutexInv, CurInv
    <2>4. ScanInv'
      BY <1>0 DEF TypeOK, ScanInv, CurInv, RunsOnlyScanned
    <2>5. SnapshotInv'
      BY <1>0, ScanAssumption
      DEF TypeOK, SnapshotInv, ScanInv, CurInv, MutexInv, RunsOnlyScanned
    <2>6. PhaseInv'
      BY <1>0, CountedAll DEF TypeOK, PhaseInv, Uncounted
    <2>7. ScansInv'
      BY <1>0 DEF TypeOK, ScansInv, ScanInv, CurInv, Unscanned, RunsOnlyScanned
    <2>8. RunsOnlyScanned'
      BY <1>0 DEF TypeOK, RunsOnlyScanned, ScanInv, CurInv
    <2>9. QED
      BY <2>1, <2>2, <2>3, <2>4, <2>5, <2>6, <2>7, <2>8 DEF IInv
  <1>6. CASE GCWake
    <2> USE <1>6 DEF GCWake, Woken
    <2>1. CountInv'
      <3>1. Uncounted' = Uncounted
        BY <1>0, ScanAssumption DEF TypeOK, Uncounted, CurInv, ScanInv, RunsOnlyScanned
      <3>2. QED
        BY <1>0, <3>1 DEF CountInv
    <2>2. TypeOK'
      BY <1>0, <2>1, CountInRangeNext DEF TypeOK, CurInv
    <2>3. MutexInv' /\ CurInv'
      BY <1>0, ScanAssumption DEF TypeOK, MutexInv, CurInv
    <2>4. ScanInv'
      BY <1>0 DEF TypeOK, ScanInv, CurInv, RunsOnlyScanned
    <2>5. SnapshotInv'
      BY <1>0, ScanAssumption
      DEF TypeOK, SnapshotInv, ScanInv, CurInv, MutexInv, RunsOnlyScanned
    <2>6. PhaseInv'
      BY <1>0, CountedAll DEF TypeOK, PhaseInv, Uncounted
    <2>7. ScansInv'
      BY <1>0 DEF TypeOK, ScansInv, ScanInv, CurInv, Unscanned, RunsOnlyScanned
    <2>8. RunsOnlyScanned'
      BY <1>0 DEF TypeOK, RunsOnlyScanned, ScanInv, CurInv
    <2>9. QED
      BY <2>1, <2>2, <2>3, <2>4, <2>5, <2>6, <2>7, <2>8 DEF IInv
  <1>7. QED
    BY <1>1, <1>2, <1>3, <1>4, <1>5, <1>6 DEF ConcurrentStackScan

\* The two pauses, the rest of ConcurrentMark() and the rounds of remarking.
LEMMA RestIInv ==
    ASSUME IInv, \/ FastScanRoots \/ Drain \/ CheckScanned \/ WaitPredicate \/ WaitBlock
                 \/ SpuriousWakeup
                 \/ \E objects \in BOOLEAN : ConcurrentReMark(objects)
                 \/ \E objects \in BOOLEAN : ConcurrentMarkCleanup(objects)
    PROVE  IInv'
  <1> USE DEF mutatorVars, gcVars, Goto, GCGoto, MutatorPcs, GCPcs, ScanLoopPcs, OwnScan,
              GCScans, Listed
  <1>0. /\ TypeOK /\ MutexInv /\ CurInv /\ ScanInv /\ SnapshotInv /\ CountInv /\ PhaseInv
        /\ ScansInv /\ RunsOnlyScanned
    BY DEF IInv
  <1>1. CASE FastScanRoots
    <2> USE <1>1 DEF FastScanRoots
    <2>0. \A k \in Mutators : k \notin MutatorList => scanState[k] = "kFinishScan"
      BY <1>0 DEF MutatorList, WorldCanStop, RunsOnlyScanned
    <2>a. snapshot = {} /\ numToScan = 0 /\ MutatorList \subseteq Mutators
      BY <1>0 DEF PhaseInv, MutatorList
    <2>1. CountInv'
      <3>1. Uncounted' = MutatorList
        BY <1>0, <2>0, <2>a DEF Uncounted, WorldCanStop
      <3>2. QED
        BY <3>1 DEF CountInv
    <2>2. TypeOK'
      BY <1>0, <2>1, <2>a, CountInRangeNext DEF TypeOK, kReMarkRounds
    <2>3. MutexInv' /\ CurInv'
      BY <1>0, ScanAssumption DEF TypeOK, MutexInv, CurInv
    <2>4. ScanInv'
      BY <1>0, <2>0, <2>a DEF TypeOK, ScanInv, WorldCanStop
    <2>5. SnapshotInv'
      BY <1>0, <2>0, <2>a DEF TypeOK, SnapshotInv, WorldCanStop
    <2>6. PhaseInv'
      BY <1>0, CountedAll DEF TypeOK, PhaseInv, Uncounted
    <2>7. ScansInv'
      BY <1>0, <2>a DEF ScansInv, Unscanned, TypeOK
    <2>8. RunsOnlyScanned'
      BY <1>0, <2>0, <2>a DEF RunsOnlyScanned, MutatorList, WorldCanStop
    <2>9. QED
      BY <2>1, <2>2, <2>3, <2>4, <2>5, <2>6, <2>7, <2>8 DEF IInv
  <1>2. CASE Drain
    <2> USE <1>2 DEF Drain
    <2>1. CountInv'
      <3>1. Uncounted' = Uncounted
        BY <1>0, ScanAssumption DEF TypeOK, Uncounted, CurInv, ScanInv, RunsOnlyScanned
      <3>2. QED
        BY <1>0, <3>1 DEF CountInv
    <2>2. TypeOK'
      BY <1>0, <2>1, CountInRangeNext DEF TypeOK, CurInv
    <2>3. MutexInv' /\ CurInv'
      BY <1>0, ScanAssumption DEF TypeOK, MutexInv, CurInv
    <2>4. ScanInv'
      BY <1>0 DEF TypeOK, ScanInv, CurInv, RunsOnlyScanned
    <2>5. SnapshotInv'
      BY <1>0, ScanAssumption
      DEF TypeOK, SnapshotInv, ScanInv, CurInv, MutexInv, RunsOnlyScanned
    <2>6. PhaseInv'
      BY <1>0, CountedAll DEF TypeOK, PhaseInv, Uncounted
    <2>7. ScansInv'
      BY <1>0 DEF TypeOK, ScansInv, ScanInv, CurInv, Unscanned, RunsOnlyScanned
    <2>8. RunsOnlyScanned'
      BY <1>0 DEF TypeOK, RunsOnlyScanned, ScanInv, CurInv
    <2>9. QED
      BY <2>1, <2>2, <2>3, <2>4, <2>5, <2>6, <2>7, <2>8 DEF IInv
  <1>3. CASE CheckScanned
    <2> USE <1>3 DEF CheckScanned
    <2>1. CountInv'
      <3>1. Uncounted' = Uncounted
        BY <1>0, ScanAssumption DEF TypeOK, Uncounted, CurInv, ScanInv, RunsOnlyScanned
      <3>2. QED
        BY <1>0, <3>1 DEF CountInv
    <2>2. TypeOK'
      BY <1>0, <2>1, CountInRangeNext DEF TypeOK, CurInv
    <2>3. MutexInv' /\ CurInv'
      BY <1>0, ScanAssumption DEF TypeOK, MutexInv, CurInv
    <2>4. ScanInv'
      BY <1>0 DEF TypeOK, ScanInv, CurInv, RunsOnlyScanned
    <2>5. SnapshotInv'
      BY <1>0, ScanAssumption
      DEF TypeOK, SnapshotInv, ScanInv, CurInv, MutexInv, RunsOnlyScanned
    <2>6. PhaseInv'
      BY <1>0, CountedAll DEF TypeOK, PhaseInv, Uncounted
    <2>7. ScansInv'
      BY <1>0 DEF TypeOK, ScansInv, ScanInv, CurInv, Unscanned, RunsOnlyScanned
    <2>8. RunsOnlyScanned'
      BY <1>0 DEF TypeOK, RunsOnlyScanned, ScanInv, CurInv
    <2>9. QED
      BY <2>1, <2>2, <2>3, <2>4, <2>5, <2>6, <2>7, <2>8 DEF IInv
  <1>4. CASE WaitPredicate
    <2> USE <1>4 DEF WaitPredicate
    <2>1. CountInv'
      <3>1. Uncounted' = Uncounted
        BY <1>0, ScanAssumption DEF TypeOK, Uncounted, CurInv, ScanInv, RunsOnlyScanned
      <3>2. QED
        BY <1>0, <3>1 DEF CountInv
    <2>2. TypeOK'
      BY <1>0, <2>1, CountInRangeNext DEF TypeOK, CurInv
    <2>3. MutexInv' /\ CurInv'
      BY <1>0, ScanAssumption DEF TypeOK, MutexInv, CurInv
    <2>4. ScanInv'
      BY <1>0 DEF TypeOK, ScanInv, CurInv, RunsOnlyScanned
    <2>5. SnapshotInv'
      BY <1>0, ScanAssumption
      DEF TypeOK, SnapshotInv, ScanInv, CurInv, MutexInv, RunsOnlyScanned
    <2>6. PhaseInv'
      BY <1>0, CountedAll DEF TypeOK, PhaseInv, Uncounted
    <2>7. ScansInv'
      BY <1>0 DEF TypeOK, ScansInv, ScanInv, CurInv, Unscanned, RunsOnlyScanned
    <2>8. RunsOnlyScanned'
      BY <1>0 DEF TypeOK, RunsOnlyScanned, ScanInv, CurInv
    <2>9. QED
      BY <2>1, <2>2, <2>3, <2>4, <2>5, <2>6, <2>7, <2>8 DEF IInv
  <1>5. CASE WaitBlock
    <2> USE <1>5 DEF WaitBlock
    <2>1. CountInv'
      <3>1. Uncounted' = Uncounted
        BY <1>0, ScanAssumption DEF TypeOK, Uncounted, CurInv, ScanInv, RunsOnlyScanned
      <3>2. QED
        BY <1>0, <3>1 DEF CountInv
    <2>2. TypeOK'
      BY <1>0, <2>1, CountInRangeNext DEF TypeOK, CurInv
    <2>3. MutexInv' /\ CurInv'
      BY <1>0, ScanAssumption DEF TypeOK, MutexInv, CurInv
    <2>4. ScanInv'
      BY <1>0 DEF TypeOK, ScanInv, CurInv, RunsOnlyScanned
    <2>5. SnapshotInv'
      BY <1>0, ScanAssumption
      DEF TypeOK, SnapshotInv, ScanInv, CurInv, MutexInv, RunsOnlyScanned
    <2>6. PhaseInv'
      BY <1>0, CountedAll DEF TypeOK, PhaseInv, Uncounted
    <2>7. ScansInv'
      BY <1>0 DEF TypeOK, ScansInv, ScanInv, CurInv, Unscanned, RunsOnlyScanned
    <2>8. RunsOnlyScanned'
      BY <1>0 DEF TypeOK, RunsOnlyScanned, ScanInv, CurInv
    <2>9. QED
      BY <2>1, <2>2, <2>3, <2>4, <2>5, <2>6, <2>7, <2>8 DEF IInv
  <1>6. CASE SpuriousWakeup
    <2> USE <1>6 DEF SpuriousWakeup
    <2>1. CountInv'
      <3>1. Uncounted' = Uncounted
        BY <1>0, ScanAssumption DEF TypeOK, Uncounted, CurInv, ScanInv, RunsOnlyScanned
      <3>2. QED
        BY <1>0, <3>1 DEF CountInv
    <2>2. TypeOK'
      BY <1>0, <2>1, CountInRangeNext DEF TypeOK, CurInv
    <2>3. MutexInv' /\ CurInv'
      BY <1>0, ScanAssumption DEF TypeOK, MutexInv, CurInv
    <2>4. ScanInv'
      BY <1>0 DEF TypeOK, ScanInv, CurInv, RunsOnlyScanned
    <2>5. SnapshotInv'
      BY <1>0, ScanAssumption
      DEF TypeOK, SnapshotInv, ScanInv, CurInv, MutexInv, RunsOnlyScanned
    <2>6. PhaseInv'
      BY <1>0, CountedAll DEF TypeOK, PhaseInv, Uncounted
    <2>7. ScansInv'
      BY <1>0 DEF TypeOK, ScansInv, ScanInv, CurInv, Unscanned, RunsOnlyScanned
    <2>8. RunsOnlyScanned'
      BY <1>0 DEF TypeOK, RunsOnlyScanned, ScanInv, CurInv
    <2>9. QED
      BY <2>1, <2>2, <2>3, <2>4, <2>5, <2>6, <2>7, <2>8 DEF IInv
  <1>7. ASSUME NEW objects \in BOOLEAN, ConcurrentReMark(objects) PROVE IInv'
    <2> USE <1>7 DEF ConcurrentReMark, kReMarkRounds
    <2>1. CountInv'
      <3>1. Uncounted' = Uncounted
        BY <1>0, ScanAssumption DEF TypeOK, Uncounted, CurInv, ScanInv, RunsOnlyScanned
      <3>2. QED
        BY <1>0, <3>1 DEF CountInv
    <2>2. TypeOK'
      BY <1>0, <2>1, CountInRangeNext DEF TypeOK, CurInv
    <2>3. MutexInv' /\ CurInv'
      BY <1>0, ScanAssumption DEF TypeOK, MutexInv, CurInv
    <2>4. ScanInv'
      BY <1>0 DEF TypeOK, ScanInv, CurInv, RunsOnlyScanned
    <2>5. SnapshotInv'
      BY <1>0, ScanAssumption
      DEF TypeOK, SnapshotInv, ScanInv, CurInv, MutexInv, RunsOnlyScanned
    <2>6. PhaseInv'
      BY <1>0, CountedAll DEF TypeOK, PhaseInv, Uncounted
    <2>7. ScansInv'
      BY <1>0 DEF TypeOK, ScansInv, ScanInv, CurInv, Unscanned, RunsOnlyScanned
    <2>8. RunsOnlyScanned'
      BY <1>0 DEF TypeOK, RunsOnlyScanned, ScanInv, CurInv
    <2>9. QED
      BY <2>1, <2>2, <2>3, <2>4, <2>5, <2>6, <2>7, <2>8 DEF IInv
  <1>8. ASSUME NEW objects \in BOOLEAN, ConcurrentMarkCleanup(objects) PROVE IInv'
    <2> USE <1>8 DEF ConcurrentMarkCleanup
    <2>1. CountInv'
      <3>1. Uncounted' = Uncounted
        BY <1>0, ScanAssumption DEF TypeOK, Uncounted, CurInv, ScanInv, RunsOnlyScanned
      <3>2. QED
        BY <1>0, <3>1 DEF CountInv
    <2>2. TypeOK'
      BY <1>0, <2>1, CountInRangeNext DEF TypeOK, CurInv
    <2>3. MutexInv' /\ CurInv'
      BY <1>0, ScanAssumption DEF TypeOK, MutexInv, CurInv
    <2>4. ScanInv'
      BY <1>0 DEF TypeOK, ScanInv, CurInv, RunsOnlyScanned
    <2>5. SnapshotInv'
      BY <1>0, ScanAssumption
      DEF TypeOK, SnapshotInv, ScanInv, CurInv, MutexInv, RunsOnlyScanned
    <2>6. PhaseInv'
      BY <1>0, CountedAll DEF TypeOK, PhaseInv, Uncounted
    <2>7. ScansInv'
      BY <1>0 DEF TypeOK, ScansInv, ScanInv, CurInv, Unscanned, RunsOnlyScanned
    <2>8. RunsOnlyScanned'
      BY <1>0 DEF TypeOK, RunsOnlyScanned, ScanInv, CurInv
    <2>9. QED
      BY <2>1, <2>2, <2>3, <2>4, <2>5, <2>6, <2>7, <2>8 DEF IInv
  <1>9. QED
    BY <1>1, <1>2, <1>3, <1>4, <1>5, <1>6, <1>7, <1>8

\* Every step preserves the invariant.
LEMMA NextIInv == IInv /\ [Next]_vars => IInv'
<1> SUFFICES ASSUME IInv, [Next]_vars PROVE IInv'
  OBVIOUS
<1>1. CASE Next
  BY <1>1, LifeIInv, BarrierIInv, LoopIInv, RestIInv DEF Next, Steady, GCSteps
<1>2. CASE UNCHANGED vars
  BY <1>2 DEF vars, mutatorVars, gcVars, IInv, TypeOK, MutexInv, CurInv, ScanInv, SnapshotInv,
     CountInv, Uncounted, PhaseInv, ScansInv, Unscanned, RunsOnlyScanned, OwnScan, GCScans,
     Listed
<1>3. QED
  BY <1>1, <1>2

-----------------------------------------------------------------------------
(* The properties.                                                         *)

\* The conjunction of everything above holds throughout.
THEOREM StackScanInvariant == Spec => []IInv
<1>. QED
  BY InitIInv, NextIInv, PTL DEF Spec

\* Variables have their types; the unsigned numMutatorToBeScan never wraps.
THEOREM StackScanTypeOK == Spec => []TypeOK
<1>1. IInv => TypeOK
  BY DEF IInv
<1>2. QED
  BY <1>1, StackScanInvariant, PTL

\* A mutator gets through StackScanBarrier() only with a scanned stack.
THEOREM StackScanRunsOnlyScanned == Spec => []RunsOnlyScanned
<1>1. IInv => RunsOnlyScanned
  BY DEF IInv
<1>2. QED
  BY <1>1, StackScanInvariant, PTL

\* When ConcurrentMark() returns, each stack of the first pause has been scanned
\* exactly once.
THEOREM StackScanEachStackOnce == Spec => []EachStackOnce
<1>1. IInv => EachStackOnce
  <2> SUFFICES ASSUME IInv, gpc \in {"remark", "stw2"}, NEW m \in roots
               PROVE  scans[m] = 1
    BY DEF EachStackOnce
  <2>1. Uncounted = {} /\ m \in Mutators
    BY CountedAll DEF IInv, PhaseInv, TypeOK
  <2>2. ~Unscanned(m)
    BY <2>1 DEF Uncounted, Unscanned
  <2>3. QED
    BY <2>2 DEF IInv, ScansInv
<1>2. QED
  BY <1>1, StackScanInvariant, PTL

\* The GC thread finds no deleted Mutator in snapshotMutators and uses none.
THEOREM StackScanNoDeletedMutator == Spec => []NoDeletedMutator
<1>1. IInv => NoDeletedMutator
  <2> SUFFICES ASSUME IInv PROVE NoDeletedMutator
    OBVIOUS
  <2>1. ASSUME NEW m \in Mutators, scanState[m] # "kFinishScan" \/ pc[m] = "erase"
        PROVE  pc[m] # "outside"
    BY <2>1 DEF IInv, RunsOnlyScanned
  <2>2. ASSUME NEW m \in Mutators, Listed(m) \/ GCScans(m) PROVE pc[m] # "outside"
    BY <2>1, <2>2 DEF IInv, SnapshotInv, ScanInv, OwnScan
  <2>3. QED
    BY <2>2 DEF IInv, TypeOK, CurInv, ScanLoopPcs, NoDeletedMutator, Listed, GCScans
<1>2. QED
  BY <1>1, StackScanInvariant, PTL
=============================================================================
