-------------------------- MODULE SafeRegionProofs --------------------------
(***************************************************************************)
(* Proofs about SafeRegion, for every finite set of mutators and every set *)
(* of GC threads.                                                          *)
(***************************************************************************)
EXTENDS SafeRegion, FiniteSetTheorems, TLAPS

\* The sets whose sizes the counters hold are finite.
LEMMA FiniteFacts ==
    ASSUME TypeOK
    PROVE  /\ IsFiniteSet(Counted) /\ Cardinality(Counted) \in Nat
           /\ IsFiniteSet(mutatorList) /\ Cardinality(mutatorList) \in Nat
  <1>1. IsFiniteSet(Counted)
    BY ThreadAssumption, FS_Subset DEF Counted
  <1>2. IsFiniteSet(mutatorList)
    BY ThreadAssumption, FS_Subset DEF TypeOK
  <1>3. QED
    BY <1>1, <1>2, FS_CardinalityType

\* fetch_add by a mutator that was not counted keeps the count exact.
LEMMA CountUp ==
    ASSUME TypeOK, CountInv, NEW m \in Mutators, m \notin Counted,
           Counted' = Counted \cup {m},
           instance'.saferegionCount = instance.saferegionCount + 1
    PROVE  CountInv'
  BY ZenonT(40), FiniteFacts, FS_AddElement DEF CountInv

\* fetch_sub by a counted mutator keeps it exact, and above zero.
LEMMA CountDown ==
    ASSUME TypeOK, CountInv, NEW m \in Mutators, m \in Counted,
           Counted' = Counted \ {m},
           instance'.saferegionCount = instance.saferegionCount - 1
    PROVE  CountInv' /\ instance'.saferegionCount \in Nat
  <1>1. Cardinality(Counted \ {m}) = Cardinality(Counted) - 1
    BY FiniteFacts, FS_RemoveElement
  <1>2. Cardinality(Counted \ {m}) \in Nat
    BY FiniteFacts, FS_RemoveElement, FS_CardinalityType
  <1>3. QED
    BY <1>1, <1>2 DEF CountInv

\* While the list lock is free nobody is in the middle of a stop.
LEMMA NobodyStops ==
    ASSUME LockInv, listLock = NoOwner
    PROVE  \A t \in Threads : pc[t] \notin PendingPcs
  BY ThreadAssumption
  DEF LockInv, HoldsList, PendingPcs, ParkedPcs, StopPcs, StartPcs, WaitPcs

\* DoEnterSaferegion preserves the invariant.
LEMMA EnterPreserves ==
    ASSUME IInv, NEW m \in Mutators, DoEnterSaferegion(m)
    PROVE  IInv'
  <1> USE DEF Threads, RestPcs, EnterPcs, SlowPcs, LeavePcs, LockPcs, WaitPcs,
              StopPcs, StartPcs, Labels, RunningPcs, UncountedPcs, ParkedPcs,
              PendingPcs, locks, stw, local, Goto, WakeAll, SaferegionState
  <1>0. TypeOK /\ CountInv /\ LockInv /\ PendingInv /\ MemberInv /\ FlagInv
        /\ FiniNeverBlocks /\ NoFatal /\ ParkedInv
    BY DEF IInv
  <1>1. CASE EnterInc(m)
    <2>1. TypeOK'
      BY <1>0, <1>1 DEF EnterInc, IncSaferegionCount, TypeOK
    <2>2. CountInv'
      <3>1. m \notin Counted /\ Counted' = Counted \cup {m}
        BY <1>0, <1>1 DEF EnterInc, IncSaferegionCount, TypeOK, Counted
      <3>2. QED
        BY <1>0, <1>1, <3>1, CountUp DEF EnterInc, IncSaferegionCount, TypeOK
    <2>3. LockInv' /\ MemberInv' /\ FlagInv' /\ FiniNeverBlocks' /\ NoFatal'
      BY <1>0, <1>1, ThreadAssumption
      DEF EnterInc, IncSaferegionCount, TypeOK, LockInv, PendingInv, MemberInv, FlagInv,
          FiniNeverBlocks,
          NoFatal, HoldsList, HoldsStw, Finishing
    <2>4. PendingInv' /\ ParkedInv'
      BY <1>0, <1>1, FiniteFacts, FS_EmptySet DEF EnterInc, IncSaferegionCount, TypeOK,
          PendingInv, ParkedInv, Running
    <2>5. QED
      BY <2>1, <2>2, <2>3, <2>4 DEF IInv
  <1>2. CASE EnterFlag(m)
    <2>1. TypeOK'
      BY <1>0, <1>2 DEF EnterFlag, AfterEnter, NoState, TypeOK
    <2>2. CountInv'
      <3>1. Counted' = Counted
        BY <1>0, <1>2 DEF EnterFlag, AfterEnter, NoState, TypeOK, Counted
      <3>2. QED
        BY <1>0, <1>2, <3>1 DEF EnterFlag, AfterEnter, NoState, CountInv, TypeOK
    <2>3. LockInv' /\ MemberInv' /\ FlagInv' /\ FiniNeverBlocks' /\ NoFatal'
      BY <1>0, <1>2, ThreadAssumption
      DEF EnterFlag, AfterEnter, NoState, TypeOK, LockInv, MemberInv, FlagInv,
          FiniNeverBlocks,
          NoFatal, HoldsList, HoldsStw, Finishing
    <2>4. PendingInv' /\ ParkedInv'
      BY <1>0, <1>2 DEF EnterFlag, AfterEnter, NoState, TypeOK, PendingInv, ParkedInv,
          Running
    <2>5. QED
      BY <2>1, <2>2, <2>3, <2>4 DEF IInv
  <1>3. CASE EnterWake(m)
    <2>1. TypeOK'
      BY <1>0, <1>3 DEF EnterWake, WakeStopper, AfterEnter, TypeOK
    <2>2. CountInv'
      <3>1. Counted' = Counted
        BY <1>0, <1>3 DEF EnterWake, WakeStopper, AfterEnter, TypeOK, Counted
      <3>2. QED
        BY <1>0, <1>3, <3>1 DEF EnterWake, WakeStopper, AfterEnter, CountInv, TypeOK
    <2>3. LockInv' /\ MemberInv' /\ FlagInv' /\ FiniNeverBlocks' /\ NoFatal'
      BY <1>0, <1>3, ThreadAssumption
      DEF EnterWake, WakeStopper, AfterEnter, TypeOK, LockInv, MemberInv, FlagInv,
          FiniNeverBlocks,
          NoFatal, HoldsList, HoldsStw, Finishing
    <2>4. PendingInv' /\ ParkedInv'
      BY <1>0, <1>3 DEF EnterWake, WakeStopper, AfterEnter, TypeOK, PendingInv,
          ParkedInv, Running
    <2>5. QED
      BY <2>1, <2>2, <2>3, <2>4 DEF IInv
  <1>4. QED
    BY <1>1, <1>2, <1>3 DEF DoEnterSaferegion

\* DoLeaveSaferegion and its slow path preserve the invariant.
LEMMA LeavePreserves ==
    ASSUME IInv, NEW m \in Mutators, DoLeaveSaferegion(m) \/ SlowInterrupted(m)
    PROVE  IInv'
  <1> USE DEF Threads, RestPcs, EnterPcs, SlowPcs, LeavePcs, LockPcs, WaitPcs,
              StopPcs, StartPcs, Labels, RunningPcs, UncountedPcs, ParkedPcs,
              PendingPcs, locks, stw, local, Goto, WakeAll, SaferegionState
  <1>0. TypeOK /\ CountInv /\ LockInv /\ PendingInv /\ MemberInv /\ FlagInv
        /\ FiniNeverBlocks /\ NoFatal /\ ParkedInv
    BY DEF IInv
  <1>1. CASE LeaveDec(m)
    <2>a. m \in Counted /\ Counted' = Counted \ {m}
      BY <1>0, <1>1 DEF LeaveDec, AfterDec, DecSaferegionCount, TypeOK, Counted
    <2>2. CountInv' /\ instance'.saferegionCount \in Nat
      BY <1>0, <1>1, <2>a, CountDown DEF LeaveDec, AfterDec, DecSaferegionCount, TypeOK
    <2>1. TypeOK'
      BY <1>0, <1>1, <2>2 DEF LeaveDec, AfterDec, DecSaferegionCount, TypeOK
    <2>3. LockInv' /\ MemberInv' /\ FlagInv' /\ FiniNeverBlocks' /\ NoFatal'
      BY <1>0, <1>1, ThreadAssumption
      DEF LeaveDec, AfterDec, DecSaferegionCount, TypeOK, LockInv, PendingInv, MemberInv,
          FlagInv, FiniNeverBlocks,
          NoFatal, HoldsList, HoldsStw, Finishing
    <2>4. PendingInv' /\ ParkedInv'
      BY <1>0, <1>1, FiniteFacts, FS_EmptySet DEF LeaveDec, AfterDec, DecSaferegionCount,
          TypeOK, PendingInv, ParkedInv, Running
    <2>5. QED
      BY <2>1, <2>2, <2>3, <2>4 DEF IInv
  <1>2. CASE SlowInc(m)
    <2>1. TypeOK'
      BY <1>0, <1>2 DEF SlowInc, IncSaferegionCount, TypeOK
    <2>2. CountInv'
      <3>1. m \notin Counted /\ Counted' = Counted \cup {m}
        BY <1>0, <1>2 DEF SlowInc, IncSaferegionCount, TypeOK, Counted
      <3>2. QED
        BY <1>0, <1>2, <3>1, CountUp DEF SlowInc, IncSaferegionCount, TypeOK
    <2>3. LockInv' /\ MemberInv' /\ FlagInv' /\ FiniNeverBlocks' /\ NoFatal'
      BY <1>0, <1>2, ThreadAssumption
      DEF SlowInc, IncSaferegionCount, TypeOK, LockInv, PendingInv, MemberInv, FlagInv,
          FiniNeverBlocks,
          NoFatal, HoldsList, HoldsStw, Finishing
    <2>4. PendingInv' /\ ParkedInv'
      BY <1>0, <1>2, FiniteFacts, FS_EmptySet DEF SlowInc, IncSaferegionCount, TypeOK,
          PendingInv, ParkedInv, Running
    <2>5. QED
      BY <2>1, <2>2, <2>3, <2>4 DEF IInv
  <1>3. CASE SlowWake(m)
    <2>1. TypeOK'
      BY <1>0, <1>3 DEF SlowWake, WakeStopper, TypeOK
    <2>2. CountInv'
      <3>1. Counted' = Counted
        BY <1>0, <1>3 DEF SlowWake, WakeStopper, TypeOK, Counted
      <3>2. QED
        BY <1>0, <1>3, <3>1 DEF SlowWake, WakeStopper, CountInv, TypeOK
    <2>3. LockInv' /\ MemberInv' /\ FlagInv' /\ FiniNeverBlocks' /\ NoFatal'
      BY <1>0, <1>3, ThreadAssumption
      DEF SlowWake, WakeStopper, TypeOK, LockInv, MemberInv, FlagInv, FiniNeverBlocks,
          NoFatal, HoldsList, HoldsStw, Finishing
    <2>4. PendingInv' /\ ParkedInv'
      BY <1>0, <1>3 DEF SlowWake, WakeStopper, TypeOK, PendingInv, ParkedInv, Running
    <2>5. QED
      BY <2>1, <2>2, <2>3, <2>4 DEF IInv
  <1>4. CASE SlowWait(m)
    <2>1. TypeOK'
      BY <1>0, <1>4 DEF SlowWait, TypeOK
    <2>2. CountInv'
      <3>1. Counted' = Counted
        BY <1>0, <1>4 DEF SlowWait, TypeOK, Counted
      <3>2. QED
        BY <1>0, <1>4, <3>1 DEF SlowWait, CountInv, TypeOK
    <2>3. LockInv' /\ MemberInv' /\ FlagInv' /\ FiniNeverBlocks' /\ NoFatal'
      BY <1>0, <1>4, ThreadAssumption
      DEF SlowWait, TypeOK, LockInv, MemberInv, FlagInv, FiniNeverBlocks,
          NoFatal, HoldsList, HoldsStw, Finishing
    <2>4. PendingInv' /\ ParkedInv'
      BY <1>0, <1>4 DEF SlowWait, TypeOK, PendingInv, ParkedInv, Running
    <2>5. QED
      BY <2>1, <2>2, <2>3, <2>4 DEF IInv
  <1>5. CASE SlowInterrupted(m)
    <2>1. TypeOK'
      BY <1>0, <1>5 DEF SlowInterrupted, TypeOK
    <2>2. CountInv'
      <3>1. Counted' = Counted
        BY <1>0, <1>5 DEF SlowInterrupted, TypeOK, Counted
      <3>2. QED
        BY <1>0, <1>5, <3>1 DEF SlowInterrupted, CountInv, TypeOK
    <2>3. LockInv' /\ MemberInv' /\ FlagInv' /\ FiniNeverBlocks' /\ NoFatal'
      BY <1>0, <1>5, ThreadAssumption
      DEF SlowInterrupted, TypeOK, LockInv, MemberInv, FlagInv, FiniNeverBlocks,
          NoFatal, HoldsList, HoldsStw, Finishing
    <2>4. PendingInv' /\ ParkedInv'
      BY <1>0, <1>5 DEF SlowInterrupted, TypeOK, PendingInv, ParkedInv, Running
    <2>5. QED
      BY <2>1, <2>2, <2>3, <2>4 DEF IInv
  <1>6. CASE SlowDec(m)
    <2>a. m \in Counted /\ Counted' = Counted \ {m}
      BY <1>0, <1>6 DEF SlowDec, AfterDec, DecSaferegionCount, NoState, TypeOK, Counted
    <2>2. CountInv' /\ instance'.saferegionCount \in Nat
      BY <1>0, <1>6, <2>a, CountDown DEF SlowDec, AfterDec, DecSaferegionCount, NoState,
          TypeOK
    <2>1. TypeOK'
      BY <1>0, <1>6, <2>2 DEF SlowDec, AfterDec, DecSaferegionCount, NoState, TypeOK
    <2>3. LockInv' /\ MemberInv' /\ FlagInv' /\ FiniNeverBlocks' /\ NoFatal'
      BY <1>0, <1>6, ThreadAssumption
      DEF SlowDec, AfterDec, DecSaferegionCount, NoState, TypeOK, LockInv, PendingInv,
          MemberInv, FlagInv, FiniNeverBlocks,
          NoFatal, HoldsList, HoldsStw, Finishing
    <2>4. PendingInv' /\ ParkedInv'
      BY <1>0, <1>6, FiniteFacts, FS_EmptySet DEF SlowDec, AfterDec, DecSaferegionCount,
          NoState, TypeOK, PendingInv, ParkedInv, Running
    <2>5. QED
      BY <2>1, <2>2, <2>3, <2>4 DEF IInv
  <1>7. CASE LeaveFlag(m)
    <2>1. TypeOK'
      BY <1>0, <1>7 DEF LeaveFlag, TypeOK
    <2>2. CountInv'
      <3>1. Counted' = Counted
        BY <1>0, <1>7 DEF LeaveFlag, TypeOK, Counted
      <3>2. QED
        BY <1>0, <1>7, <3>1 DEF LeaveFlag, CountInv, TypeOK
    <2>3. LockInv' /\ MemberInv' /\ FlagInv' /\ FiniNeverBlocks' /\ NoFatal'
      BY <1>0, <1>7, ThreadAssumption
      DEF LeaveFlag, TypeOK, LockInv, MemberInv, FlagInv, FiniNeverBlocks,
          NoFatal, HoldsList, HoldsStw, Finishing
    <2>4. PendingInv' /\ ParkedInv'
      BY <1>0, <1>7 DEF LeaveFlag, TypeOK, PendingInv, ParkedInv, Running
    <2>5. QED
      BY <2>1, <2>2, <2>3, <2>4 DEF IInv
  <1>8. CASE FiniUnlock(m)
    <2>1. TypeOK'
      BY <1>0, <1>8 DEF FiniUnlock, TypeOK
    <2>2. CountInv'
      <3>1. Counted' = Counted
        BY <1>0, <1>8 DEF FiniUnlock, TypeOK, Counted
      <3>2. QED
        BY <1>0, <1>8, <3>1 DEF FiniUnlock, CountInv, TypeOK
    <2>3. LockInv' /\ MemberInv' /\ FlagInv' /\ FiniNeverBlocks' /\ NoFatal'
      BY <1>0, <1>8, ThreadAssumption
      DEF FiniUnlock, TypeOK, LockInv, MemberInv, FlagInv, FiniNeverBlocks,
          NoFatal, HoldsList, HoldsStw, Finishing
    <2>4. PendingInv' /\ ParkedInv'
      BY <1>0, <1>8 DEF FiniUnlock, TypeOK, PendingInv, ParkedInv, Running
    <2>5. QED
      BY <2>1, <2>2, <2>3, <2>4 DEF IInv
  <1>9. QED
    BY <1>1, <1>2, <1>3, <1>4, <1>5, <1>6, <1>7, <1>8 DEF DoLeaveSaferegion,
        LeaveSaferegionSlowPath

\* Attaching, detaching, native calls and yieldpoints preserve the invariant.
LEMMA MutatorCallPreserves ==
    ASSUME IInv, NEW m \in Mutators, MutatorCall(m)
    PROVE  IInv'
  <1> USE DEF Threads, RestPcs, EnterPcs, SlowPcs, LeavePcs, LockPcs, WaitPcs,
              StopPcs, StartPcs, Labels, RunningPcs, UncountedPcs, ParkedPcs,
              PendingPcs, locks, stw, local, Goto, WakeAll, SaferegionState
  <1>0. TypeOK /\ CountInv /\ LockInv /\ PendingInv /\ MemberInv /\ FlagInv
        /\ FiniNeverBlocks /\ NoFatal /\ ParkedInv
    BY DEF IInv
  <1>1. CASE InitYieldpoint(m)
    <2>1. TypeOK'
      BY <1>0, <1>1 DEF InitYieldpoint, ListGuard, Enter, TypeOK
    <2>2. CountInv'
      <3>1. Counted' = Counted
        BY <1>0, <1>1 DEF InitYieldpoint, ListGuard, Enter, TypeOK, Counted
      <3>2. QED
        BY <1>0, <1>1, <3>1 DEF InitYieldpoint, ListGuard, Enter, CountInv, TypeOK
    <2>3. LockInv' /\ MemberInv' /\ FlagInv' /\ FiniNeverBlocks' /\ NoFatal'
      BY <1>0, <1>1, ThreadAssumption
      DEF InitYieldpoint, ListGuard, Enter, TypeOK, LockInv, MemberInv, FlagInv,
          FiniNeverBlocks,
          NoFatal, HoldsList, HoldsStw, Finishing
    <2>4. PendingInv' /\ ParkedInv'
      <3>1. \A t \in Threads : pc[t] \notin PendingPcs
        BY <1>0, <1>1, NobodyStops DEF InitYieldpoint, ListGuard, Enter
      <3>2. \A t \in Threads : pc'[t] \notin PendingPcs
        BY <3>1, <1>0, <1>1 DEF InitYieldpoint, ListGuard, Enter, TypeOK
      <3>3. QED
        BY <3>1, <3>2, <1>0, <1>1 DEF InitYieldpoint, ListGuard, Enter, TypeOK,
            PendingInv, ParkedInv
    <2>5. QED
      BY <2>1, <2>2, <2>3, <2>4 DEF IInv
  <1>2. CASE FiniYieldpoint(m)
    <2>1. TypeOK'
      BY <1>0, <1>2 DEF FiniYieldpoint, ListGuard, Leave, TypeOK
    <2>2. CountInv'
      <3>1. Counted' = Counted
        BY <1>0, <1>2 DEF FiniYieldpoint, ListGuard, Leave, TypeOK, Counted
      <3>2. QED
        BY <1>0, <1>2, <3>1 DEF FiniYieldpoint, ListGuard, Leave, CountInv, TypeOK
    <2>3. LockInv' /\ MemberInv' /\ FlagInv' /\ FiniNeverBlocks' /\ NoFatal'
      BY <1>0, <1>2, ThreadAssumption
      DEF FiniYieldpoint, ListGuard, Leave, TypeOK, LockInv, MemberInv, FlagInv,
          FiniNeverBlocks,
          NoFatal, HoldsList, HoldsStw, Finishing
    <2>4. PendingInv' /\ ParkedInv'
      <3>1. \A t \in Threads : pc[t] \notin PendingPcs
        BY <1>0, <1>2, NobodyStops DEF FiniYieldpoint, ListGuard, Leave
      <3>2. \A t \in Threads : pc'[t] \notin PendingPcs
        BY <3>1, <1>0, <1>2 DEF FiniYieldpoint, ListGuard, Leave, TypeOK
      <3>3. QED
        BY <3>1, <3>2, <1>0, <1>2 DEF FiniYieldpoint, ListGuard, Leave, TypeOK,
            PendingInv, ParkedInv
    <2>5. QED
      BY <2>1, <2>2, <2>3, <2>4 DEF IInv
  <1>3. CASE EnterSaferegion(m)
    <2>1. TypeOK'
      BY <1>0, <1>3 DEF EnterSaferegion, Enter, TypeOK
    <2>2. CountInv'
      <3>1. Counted' = Counted
        BY <1>0, <1>3 DEF EnterSaferegion, Enter, TypeOK, Counted
      <3>2. QED
        BY <1>0, <1>3, <3>1 DEF EnterSaferegion, Enter, CountInv, TypeOK
    <2>3. LockInv' /\ MemberInv' /\ FlagInv' /\ FiniNeverBlocks' /\ NoFatal'
      BY <1>0, <1>3, ThreadAssumption
      DEF EnterSaferegion, Enter, TypeOK, LockInv, MemberInv, FlagInv, FiniNeverBlocks,
          NoFatal, HoldsList, HoldsStw, Finishing
    <2>4. PendingInv' /\ ParkedInv'
      BY <1>0, <1>3 DEF EnterSaferegion, Enter, TypeOK, PendingInv, ParkedInv, Running
    <2>5. QED
      BY <2>1, <2>2, <2>3, <2>4 DEF IInv
  <1>4. CASE LeaveSaferegion(m)
    <2>1. TypeOK'
      BY <1>0, <1>4 DEF LeaveSaferegion, Leave, TypeOK
    <2>2. CountInv'
      <3>1. Counted' = Counted
        BY <1>0, <1>4 DEF LeaveSaferegion, Leave, TypeOK, Counted
      <3>2. QED
        BY <1>0, <1>4, <3>1 DEF LeaveSaferegion, Leave, CountInv, TypeOK
    <2>3. LockInv' /\ MemberInv' /\ FlagInv' /\ FiniNeverBlocks' /\ NoFatal'
      BY <1>0, <1>4, ThreadAssumption
      DEF LeaveSaferegion, Leave, TypeOK, LockInv, MemberInv, FlagInv, FiniNeverBlocks,
          NoFatal, HoldsList, HoldsStw, Finishing
    <2>4. PendingInv' /\ ParkedInv'
      BY <1>0, <1>4 DEF LeaveSaferegion, Leave, TypeOK, PendingInv, ParkedInv, Running
    <2>5. QED
      BY <2>1, <2>2, <2>3, <2>4 DEF IInv
  <1>5. CASE Yieldpoint(m)
    <2>1. TypeOK'
      BY <1>0, <1>5 DEF Yieldpoint, Enter, TypeOK
    <2>2. CountInv'
      <3>1. Counted' = Counted
        BY <1>0, <1>5 DEF Yieldpoint, Enter, TypeOK, Counted
      <3>2. QED
        BY <1>0, <1>5, <3>1 DEF Yieldpoint, Enter, CountInv, TypeOK
    <2>3. LockInv' /\ MemberInv' /\ FlagInv' /\ FiniNeverBlocks' /\ NoFatal'
      BY <1>0, <1>5, ThreadAssumption
      DEF Yieldpoint, Enter, TypeOK, LockInv, MemberInv, FlagInv, FiniNeverBlocks,
          NoFatal, HoldsList, HoldsStw, Finishing
    <2>4. PendingInv' /\ ParkedInv'
      BY <1>0, <1>5 DEF Yieldpoint, Enter, TypeOK, PendingInv, ParkedInv, Running
    <2>5. QED
      BY <2>1, <2>2, <2>3, <2>4 DEF IInv
  <1>6. CASE RuntimeLock(m)
    <2>1. TypeOK'
      BY <1>0, <1>6 DEF RuntimeLock, TypeOK
    <2>2. CountInv'
      <3>1. Counted' = Counted
        BY <1>0, <1>6 DEF RuntimeLock, TypeOK, Counted
      <3>2. QED
        BY <1>0, <1>6, <3>1 DEF RuntimeLock, CountInv, TypeOK
    <2>3. LockInv' /\ MemberInv' /\ FlagInv' /\ FiniNeverBlocks' /\ NoFatal'
      BY <1>0, <1>6, ThreadAssumption
      DEF RuntimeLock, TypeOK, LockInv, MemberInv, FlagInv, FiniNeverBlocks,
          NoFatal, HoldsList, HoldsStw, Finishing
    <2>4. PendingInv' /\ ParkedInv'
      BY <1>0, <1>6 DEF RuntimeLock, TypeOK, PendingInv, ParkedInv, Running
    <2>5. QED
      BY <2>1, <2>2, <2>3, <2>4 DEF IInv
  <1>7. CASE RuntimeUnlock(m)
    <2>1. TypeOK'
      BY <1>0, <1>7 DEF RuntimeUnlock, TypeOK
    <2>2. CountInv'
      <3>1. Counted' = Counted
        BY <1>0, <1>7 DEF RuntimeUnlock, TypeOK, Counted
      <3>2. QED
        BY <1>0, <1>7, <3>1 DEF RuntimeUnlock, CountInv, TypeOK
    <2>3. LockInv' /\ MemberInv' /\ FlagInv' /\ FiniNeverBlocks' /\ NoFatal'
      BY <1>0, <1>7, ThreadAssumption
      DEF RuntimeUnlock, TypeOK, LockInv, MemberInv, FlagInv, FiniNeverBlocks,
          NoFatal, HoldsList, HoldsStw, Finishing
    <2>4. PendingInv' /\ ParkedInv'
      BY <1>0, <1>7 DEF RuntimeUnlock, TypeOK, PendingInv, ParkedInv, Running
    <2>5. QED
      BY <2>1, <2>2, <2>3, <2>4 DEF IInv
  <1>8. QED
    BY <1>1, <1>2, <1>3, <1>4, <1>5, <1>6, <1>7 DEF MutatorCall

\* StopTheWorld preserves the invariant.
LEMMA StopPreserves ==
    ASSUME IInv, NEW t \in Threads, StopTheWorld(t) \/ StopSteps(t) \/ StwTimeout(t)
    PROVE  IInv'
  <1> USE DEF Threads, RestPcs, EnterPcs, SlowPcs, LeavePcs, LockPcs, WaitPcs,
              StopPcs, StartPcs, Labels, RunningPcs, UncountedPcs, ParkedPcs,
              PendingPcs, locks, stw, local, Goto, WakeAll, SaferegionState
  <1>0. TypeOK /\ CountInv /\ LockInv /\ PendingInv /\ MemberInv /\ FlagInv
        /\ FiniNeverBlocks /\ NoFatal /\ ParkedInv
    BY DEF IInv
  <1>1. CASE StopTheWorld(t)
    <2>1. TypeOK'
      <3>1. CASE t \in mutatorList /\ ~inSaferegion[t]
        BY ZenonT(40), <1>0, <1>1, <3>1 DEF StopTheWorld, Enter, TypeOK
      <3>2. CASE ~(t \in mutatorList /\ ~inSaferegion[t])
        <4>1. /\ entered' = [entered EXCEPT ![t] = FALSE]
              /\ pc' = [pc EXCEPT ![t] = "stw_mutex"]
              /\ UNCHANGED <<ret, instance, mutatorList, locks, worldStopped, stateChanged,
                             pageReadable, inSaferegion, state, shouldLeave>>
          BY <1>1, <3>2 DEF StopTheWorld
        <4>2. QED
          BY <1>0, <4>1 DEF TypeOK
      <3>3. QED
        BY <3>1, <3>2
    <2>2. CountInv'
      <3>1. Counted' = Counted
        BY <1>0, <1>1 DEF StopTheWorld, Enter, TypeOK, Counted, MemberInv, FlagInv,
            Finishing
      <3>2. QED
        BY <1>0, <1>1, <3>1 DEF StopTheWorld, Enter, CountInv, TypeOK
    <2>3. LockInv' /\ MemberInv' /\ FlagInv' /\ FiniNeverBlocks' /\ NoFatal'
      <3>1. CASE t \in mutatorList /\ ~inSaferegion[t]
        BY SMTT(40), <1>0, <1>1, <3>1, ThreadAssumption DEF StopTheWorld, Enter, TypeOK, LockInv,
            MemberInv,
          FlagInv, FiniNeverBlocks, NoFatal, HoldsList, HoldsStw, Finishing
      <3>2. CASE ~(t \in mutatorList /\ ~inSaferegion[t])
        BY <1>0, <1>1, <3>2, ThreadAssumption DEF StopTheWorld, Enter, TypeOK, LockInv,
            MemberInv,
          FlagInv, FiniNeverBlocks, NoFatal, HoldsList, HoldsStw, Finishing
      <3>3. QED
        BY <3>1, <3>2
    <2>4. PendingInv' /\ ParkedInv'
      BY <1>0, <1>1 DEF StopTheWorld, Enter, TypeOK, PendingInv, ParkedInv, Running,
                        MemberInv, FlagInv, Finishing
    <2>5. QED
      BY <2>1, <2>2, <2>3, <2>4 DEF IInv
  <1>2. CASE StwMutexLock(t)
    <2>1. TypeOK'
      BY <1>0, <1>2 DEF StwMutexLock, LockStwMutex, TypeOK
    <2>2. CountInv'
      <3>1. Counted' = Counted
        BY <1>0, <1>2 DEF StwMutexLock, LockStwMutex, TypeOK, Counted
      <3>2. QED
        BY <1>0, <1>2, <3>1 DEF StwMutexLock, LockStwMutex, CountInv, TypeOK
    <2>3. LockInv' /\ MemberInv' /\ FlagInv' /\ FiniNeverBlocks' /\ NoFatal'
      BY <1>0, <1>2, ThreadAssumption
      DEF StwMutexLock, LockStwMutex, TypeOK, LockInv, MemberInv, FlagInv, FiniNeverBlocks,
          NoFatal, HoldsList, HoldsStw, Finishing
    <2>4. PendingInv' /\ ParkedInv'
      BY <1>0, <1>2 DEF StwMutexLock, LockStwMutex, TypeOK, PendingInv, ParkedInv, Running
    <2>5. QED
      BY <2>1, <2>2, <2>3, <2>4 DEF IInv
  <1>3. CASE StwThreadListLock(t)
    <2>1. TypeOK'
      BY <1>0, <1>3 DEF StwThreadListLock, TypeOK
    <2>2. CountInv'
      <3>1. Counted' = Counted
        BY <1>0, <1>3 DEF StwThreadListLock, TypeOK, Counted
      <3>2. QED
        BY <1>0, <1>3, <3>1 DEF StwThreadListLock, CountInv, TypeOK
    <2>3. LockInv' /\ MemberInv' /\ FlagInv' /\ FiniNeverBlocks' /\ NoFatal'
      BY <1>0, <1>3, ThreadAssumption
      DEF StwThreadListLock, TypeOK, LockInv, MemberInv, FlagInv, FiniNeverBlocks,
          NoFatal, HoldsList, HoldsStw, Finishing
    <2>4. PendingInv' /\ ParkedInv'
      BY <1>0, <1>3 DEF StwThreadListLock, TypeOK, PendingInv, ParkedInv, Running
    <2>5. QED
      BY <2>1, <2>2, <2>3, <2>4 DEF IInv
  <1>4. CASE StwListLock(t)
    <2>1. TypeOK'
      BY <1>0, <1>4 DEF StwListLock, RememberCaller, TypeOK
    <2>2. CountInv'
      <3>1. Counted' = Counted
        BY <1>0, <1>4 DEF StwListLock, RememberCaller, TypeOK, Counted
      <3>2. QED
        BY <1>0, <1>4, <3>1 DEF StwListLock, RememberCaller, CountInv, TypeOK
    <2>3. LockInv' /\ MemberInv' /\ FlagInv' /\ FiniNeverBlocks' /\ NoFatal'
      BY <1>0, <1>4, ThreadAssumption
      DEF StwListLock, RememberCaller, TypeOK, LockInv, MemberInv, FlagInv, FiniNeverBlocks,
          NoFatal, HoldsList, HoldsStw, Finishing
    <2>4. PendingInv' /\ ParkedInv'
      <3>1. \A u \in Threads : pc[u] \notin PendingPcs
        BY <1>0, <1>4, NobodyStops DEF StwListLock, RememberCaller
      <3>2. pc'[t] = "stw_done" => Cardinality(mutatorList) = 0 /\ mutatorList = {}
        BY <1>0, <1>4, FiniteFacts, FS_EmptySet DEF StwListLock, RememberCaller, TypeOK
      <3>3. \A u \in Threads : pc'[u] \in PendingPcs => u = t /\ pc'[t] = "stw_done"
        BY <3>1, <1>0, <1>4 DEF StwListLock, RememberCaller, TypeOK
      <3>4. QED
        BY <3>1, <3>2, <3>3, <1>0, <1>4 DEF StwListLock, RememberCaller, TypeOK,
            PendingInv, ParkedInv, Running
    <2>5. QED
      BY <2>1, <2>2, <2>3, <2>4 DEF IInv
  <1>5. CASE StwSetPending(t)
    <2>1. TypeOK'
      BY <1>0, <1>5, FiniteFacts DEF StwSetPending, SetPendingCount, TypeOK
    <2>2. CountInv'
      <3>1. Counted' = Counted
        BY <1>0, <1>5 DEF StwSetPending, SetPendingCount, TypeOK, Counted
      <3>2. QED
        BY <1>0, <1>5, <3>1 DEF StwSetPending, SetPendingCount, CountInv, TypeOK
    <2>3. LockInv' /\ MemberInv' /\ FlagInv' /\ FiniNeverBlocks' /\ NoFatal'
      BY <1>0, <1>5, ThreadAssumption
      DEF StwSetPending, SetPendingCount, TypeOK, LockInv, MemberInv, FlagInv,
          FiniNeverBlocks,
          NoFatal, HoldsList, HoldsStw, Finishing
    <2>4. PendingInv' /\ ParkedInv'
      BY <1>0, <1>5 DEF StwSetPending, SetPendingCount, TypeOK, PendingInv, ParkedInv,
          Running
    <2>5. QED
      BY <2>1, <2>2, <2>3, <2>4 DEF IInv
  <1>6. CASE SetPollingPageUnreadable(t)
    <2>1. TypeOK'
      BY <1>0, <1>6 DEF SetPollingPageUnreadable, TypeOK
    <2>2. CountInv'
      <3>1. Counted' = Counted
        BY <1>0, <1>6 DEF SetPollingPageUnreadable, TypeOK, Counted
      <3>2. QED
        BY <1>0, <1>6, <3>1 DEF SetPollingPageUnreadable, CountInv, TypeOK
    <2>3. LockInv' /\ MemberInv' /\ FlagInv' /\ FiniNeverBlocks' /\ NoFatal'
      BY <1>0, <1>6, ThreadAssumption
      DEF SetPollingPageUnreadable, TypeOK, LockInv, MemberInv, FlagInv, FiniNeverBlocks,
          NoFatal, HoldsList, HoldsStw, Finishing
    <2>4. PendingInv' /\ ParkedInv'
      BY <1>0, <1>6 DEF SetPollingPageUnreadable, TypeOK, PendingInv, ParkedInv, Running
    <2>5. QED
      BY <2>1, <2>2, <2>3, <2>4 DEF IInv
  <1>7. CASE StwLoad(t)
    \* Nobody is finishing while the stopper holds the list lock, so whoever is
    \* counted is in the list: the count is at most pendingCount, and equality
    \* means that everybody in the list is counted, hence not running.
    <2>a. Counted \subseteq mutatorList
      BY <1>0, <1>7 DEF StwLoad, TypeOK, LockInv, MemberInv, HoldsList, Finishing, Counted
    <2>b. instance.pendingCount = Cardinality(mutatorList)
      BY <1>0, <1>7 DEF StwLoad, PendingInv
    <2>c. /\ instance.saferegionCount <= instance.pendingCount
          /\ AllMutatorStopped(instance) => Counted = mutatorList
      BY <1>0, <2>a, <2>b, FiniteFacts, FS_Subset DEF AllMutatorStopped, CountInv
    <2>d. AllMutatorStopped(instance) => Running = {}
      BY <2>c DEF Counted, Running
    <2>e. pc'[t] # "fatal"
      BY <1>0, <1>7, <2>c DEF StwLoad, TypeOK
    <2>1. TypeOK'
      BY <1>0, <1>7 DEF StwLoad, NoState, TypeOK
    <2>2. CountInv'
      <3>1. Counted' = Counted
        BY <1>0, <1>7 DEF StwLoad, NoState, TypeOK, Counted
      <3>2. QED
        BY <1>0, <1>7, <3>1 DEF StwLoad, NoState, CountInv, TypeOK
    <2>3. LockInv' /\ MemberInv' /\ FlagInv' /\ FiniNeverBlocks' /\ NoFatal'
      BY <1>0, <1>7, <2>e, ThreadAssumption
      DEF StwLoad, TypeOK, LockInv, MemberInv, FlagInv, FiniNeverBlocks,
          NoFatal, HoldsList, HoldsStw, Finishing
    <2>4. PendingInv' /\ ParkedInv'
      BY <1>0, <1>7, <2>d, <2>e DEF StwLoad, TypeOK, PendingInv, ParkedInv, Running
    <2>5. QED
      BY <2>1, <2>2, <2>3, <2>4 DEF IInv
  <1>8. CASE StwWait(t)
    <2>1. TypeOK'
      BY <1>0, <1>8 DEF StwWait, TypeOK
    <2>2. CountInv'
      <3>1. Counted' = Counted
        BY <1>0, <1>8 DEF StwWait, TypeOK, Counted
      <3>2. QED
        BY <1>0, <1>8, <3>1 DEF StwWait, CountInv, TypeOK
    <2>3. LockInv' /\ MemberInv' /\ FlagInv' /\ FiniNeverBlocks' /\ NoFatal'
      BY <1>0, <1>8, ThreadAssumption
      DEF StwWait, TypeOK, LockInv, MemberInv, FlagInv, FiniNeverBlocks,
          NoFatal, HoldsList, HoldsStw, Finishing
    <2>4. PendingInv' /\ ParkedInv'
      BY <1>0, <1>8 DEF StwWait, TypeOK, PendingInv, ParkedInv, Running
    <2>5. QED
      BY <2>1, <2>2, <2>3, <2>4 DEF IInv
  <1>9. CASE StwTimeout(t)
    <2>1. TypeOK'
      BY <1>0, <1>9 DEF StwTimeout, TypeOK
    <2>2. CountInv'
      <3>1. Counted' = Counted
        BY <1>0, <1>9 DEF StwTimeout, TypeOK, Counted
      <3>2. QED
        BY <1>0, <1>9, <3>1 DEF StwTimeout, CountInv, TypeOK
    <2>3. LockInv' /\ MemberInv' /\ FlagInv' /\ FiniNeverBlocks' /\ NoFatal'
      BY <1>0, <1>9, ThreadAssumption
      DEF StwTimeout, TypeOK, LockInv, MemberInv, FlagInv, FiniNeverBlocks,
          NoFatal, HoldsList, HoldsStw, Finishing
    <2>4. PendingInv' /\ ParkedInv'
      BY <1>0, <1>9 DEF StwTimeout, TypeOK, PendingInv, ParkedInv, Running
    <2>5. QED
      BY <2>1, <2>2, <2>3, <2>4 DEF IInv
  <1>10. CASE StwDone(t)
    <2>1. TypeOK'
      BY <1>0, <1>10 DEF StwDone, TypeOK
    <2>2. CountInv'
      <3>1. Counted' = Counted
        BY <1>0, <1>10 DEF StwDone, TypeOK, Counted
      <3>2. QED
        BY <1>0, <1>10, <3>1 DEF StwDone, CountInv, TypeOK
    <2>3. LockInv' /\ MemberInv' /\ FlagInv' /\ FiniNeverBlocks' /\ NoFatal'
      BY <1>0, <1>10, ThreadAssumption
      DEF StwDone, TypeOK, LockInv, MemberInv, FlagInv, FiniNeverBlocks,
          NoFatal, HoldsList, HoldsStw, Finishing
    <2>4. PendingInv' /\ ParkedInv'
      BY <1>0, <1>10 DEF StwDone, TypeOK, PendingInv, ParkedInv, Running
    <2>5. QED
      BY <2>1, <2>2, <2>3, <2>4 DEF IInv
  <1>11. QED
    BY <1>1, <1>2, <1>3, <1>4, <1>5, <1>6, <1>7, <1>8, <1>9, <1>10 DEF StopSteps,
        WaitForAllMutatorsStopped

\* StartTheWorld preserves the invariant.
LEMMA StartPreserves ==
    ASSUME IInv, NEW t \in Threads, StartSteps(t)
    PROVE  IInv'
  <1> USE DEF Threads, RestPcs, EnterPcs, SlowPcs, LeavePcs, LockPcs, WaitPcs,
              StopPcs, StartPcs, Labels, RunningPcs, UncountedPcs, ParkedPcs,
              PendingPcs, locks, stw, local, Goto, WakeAll, SaferegionState
  <1>0. TypeOK /\ CountInv /\ LockInv /\ PendingInv /\ MemberInv /\ FlagInv
        /\ FiniNeverBlocks /\ NoFatal /\ ParkedInv
    BY DEF IInv
  <1>1. CASE StartTheWorld(t)
    <2>1. TypeOK'
      BY <1>0, <1>1 DEF StartTheWorld, TypeOK
    <2>2. CountInv'
      <3>1. Counted' = Counted
        BY <1>0, <1>1 DEF StartTheWorld, TypeOK, Counted
      <3>2. QED
        BY <1>0, <1>1, <3>1 DEF StartTheWorld, CountInv, TypeOK
    <2>3. LockInv' /\ MemberInv' /\ FlagInv' /\ FiniNeverBlocks' /\ NoFatal'
      BY <1>0, <1>1, ThreadAssumption
      DEF StartTheWorld, TypeOK, LockInv, MemberInv, FlagInv, FiniNeverBlocks,
          NoFatal, HoldsList, HoldsStw, Finishing
    <2>4. PendingInv' /\ ParkedInv'
      BY <1>0, <1>1 DEF StartTheWorld, TypeOK, PendingInv, ParkedInv, Running
    <2>5. QED
      BY <2>1, <2>2, <2>3, <2>4 DEF IInv
  <1>2. CASE SetPollingPageReadable(t)
    <2>1. TypeOK'
      BY <1>0, <1>2 DEF SetPollingPageReadable, TypeOK
    <2>2. CountInv'
      <3>1. Counted' = Counted
        BY <1>0, <1>2 DEF SetPollingPageReadable, TypeOK, Counted
      <3>2. QED
        BY <1>0, <1>2, <3>1 DEF SetPollingPageReadable, CountInv, TypeOK
    <2>3. LockInv' /\ MemberInv' /\ FlagInv' /\ FiniNeverBlocks' /\ NoFatal'
      BY <1>0, <1>2, ThreadAssumption
      DEF SetPollingPageReadable, TypeOK, LockInv, MemberInv, FlagInv, FiniNeverBlocks,
          NoFatal, HoldsList, HoldsStw, Finishing
    <2>4. PendingInv' /\ ParkedInv'
      BY <1>0, <1>2 DEF SetPollingPageReadable, TypeOK, PendingInv, ParkedInv, Running
    <2>5. QED
      BY <2>1, <2>2, <2>3, <2>4 DEF IInv
  <1>3. CASE StartClearPending(t)
    <2>1. TypeOK'
      BY <1>0, <1>3 DEF StartClearPending, SetPendingCount, TypeOK
    <2>2. CountInv'
      <3>1. Counted' = Counted
        BY <1>0, <1>3 DEF StartClearPending, SetPendingCount, TypeOK, Counted
      <3>2. QED
        BY <1>0, <1>3, <3>1 DEF StartClearPending, SetPendingCount, CountInv, TypeOK
    <2>3. LockInv' /\ MemberInv' /\ FlagInv' /\ FiniNeverBlocks' /\ NoFatal'
      BY <1>0, <1>3, ThreadAssumption
      DEF StartClearPending, SetPendingCount, TypeOK, LockInv, MemberInv, FlagInv,
          FiniNeverBlocks,
          NoFatal, HoldsList, HoldsStw, Finishing
    <2>4. PendingInv' /\ ParkedInv'
      <3>1. \A u \in Threads : pc'[u] \notin PendingPcs
        BY <1>0, <1>3 DEF StartClearPending, TypeOK, LockInv, HoldsList
      <3>2. worldStopped' => \E u \in Threads : pc'[u] = "stopped"
        BY <1>0, <1>3 DEF StartClearPending, TypeOK, ParkedInv
      <3>3. QED
        BY <3>1, <3>2, <1>0, <1>3
        DEF StartClearPending, SetPendingCount, TypeOK, PendingInv, ParkedInv
    <2>5. QED
      BY <2>1, <2>2, <2>3, <2>4 DEF IInv
  <1>4. CASE StartWake(t)
    <2>1. TypeOK'
      BY <1>0, <1>4 DEF StartWake, WakeMutators, TypeOK
    <2>2. CountInv'
      <3>1. Counted' = Counted
        BY <1>0, <1>4 DEF StartWake, WakeMutators, TypeOK, Counted
      <3>2. QED
        BY <1>0, <1>4, <3>1 DEF StartWake, WakeMutators, CountInv, TypeOK
    <2>3. LockInv' /\ MemberInv' /\ FlagInv' /\ FiniNeverBlocks' /\ NoFatal'
      BY <1>0, <1>4, ThreadAssumption
      DEF StartWake, WakeMutators, TypeOK, LockInv, MemberInv, FlagInv, FiniNeverBlocks,
          NoFatal, HoldsList, HoldsStw, Finishing
    <2>4. PendingInv' /\ ParkedInv'
      BY <1>0, <1>4 DEF StartWake, WakeMutators, TypeOK, PendingInv, ParkedInv, Running
    <2>5. QED
      BY <2>1, <2>2, <2>3, <2>4 DEF IInv
  <1>5. CASE StartListUnlock(t)
    <2>1. TypeOK'
      BY <1>0, <1>5 DEF StartListUnlock, TypeOK
    <2>2. CountInv'
      <3>1. Counted' = Counted
        BY <1>0, <1>5 DEF StartListUnlock, TypeOK, Counted
      <3>2. QED
        BY <1>0, <1>5, <3>1 DEF StartListUnlock, CountInv, TypeOK
    <2>3. LockInv' /\ MemberInv' /\ FlagInv' /\ FiniNeverBlocks' /\ NoFatal'
      BY <1>0, <1>5, ThreadAssumption
      DEF StartListUnlock, TypeOK, LockInv, MemberInv, FlagInv, FiniNeverBlocks,
          NoFatal, HoldsList, HoldsStw, Finishing
    <2>4. PendingInv' /\ ParkedInv'
      BY <1>0, <1>5 DEF StartListUnlock, TypeOK, PendingInv, ParkedInv, Running
    <2>5. QED
      BY <2>1, <2>2, <2>3, <2>4 DEF IInv
  <1>6. CASE StartThreadListUnlock(t)
    <2>1. TypeOK'
      BY <1>0, <1>6 DEF StartThreadListUnlock, TypeOK
    <2>2. CountInv'
      <3>1. Counted' = Counted
        BY <1>0, <1>6 DEF StartThreadListUnlock, TypeOK, Counted
      <3>2. QED
        BY <1>0, <1>6, <3>1 DEF StartThreadListUnlock, CountInv, TypeOK
    <2>3. LockInv' /\ MemberInv' /\ FlagInv' /\ FiniNeverBlocks' /\ NoFatal'
      BY <1>0, <1>6, ThreadAssumption
      DEF StartThreadListUnlock, TypeOK, LockInv, MemberInv, FlagInv, FiniNeverBlocks,
          NoFatal, HoldsList, HoldsStw, Finishing
    <2>4. PendingInv' /\ ParkedInv'
      BY <1>0, <1>6 DEF StartThreadListUnlock, TypeOK, PendingInv, ParkedInv, Running
    <2>5. QED
      BY <2>1, <2>2, <2>3, <2>4 DEF IInv
  <1>7. CASE StartMutexUnlock(t)
    <2>1. TypeOK'
      BY SMTT(40), <1>0, <1>7 DEF StartMutexUnlock, UnlockStwMutex, Leave, TypeOK, LockInv, HoldsStw
    <2>2. CountInv'
      <3>1. Counted' = Counted
        BY <1>0, <1>7 DEF StartMutexUnlock, UnlockStwMutex, Leave, TypeOK, Counted
      <3>2. QED
        BY <1>0, <1>7, <3>1 DEF StartMutexUnlock, UnlockStwMutex, Leave, CountInv, TypeOK
    <2>3. LockInv' /\ MemberInv' /\ FlagInv' /\ FiniNeverBlocks' /\ NoFatal'
      <3>1. CASE t \in mutatorList /\ shouldLeave[t] /\ inSaferegion[t]
        BY SMTT(40), <1>0, <1>7, <3>1, ThreadAssumption DEF StartMutexUnlock, UnlockStwMutex,
            Leave, TypeOK, LockInv, MemberInv,
          FlagInv, FiniNeverBlocks, NoFatal, HoldsList, HoldsStw, Finishing
      <3>2. CASE ~(t \in mutatorList /\ shouldLeave[t] /\ inSaferegion[t])
        BY <1>0, <1>7, <3>2, ThreadAssumption DEF StartMutexUnlock, UnlockStwMutex,
            Leave, TypeOK, LockInv, MemberInv,
          FlagInv, FiniNeverBlocks, NoFatal, HoldsList, HoldsStw, Finishing
      <3>3. QED
        BY <3>1, <3>2
    <2>4. PendingInv' /\ ParkedInv'
      BY <1>0, <1>7 DEF StartMutexUnlock, UnlockStwMutex, Leave, TypeOK, PendingInv,
          ParkedInv, Running
    <2>5. QED
      BY <2>1, <2>2, <2>3, <2>4 DEF IInv
  <1>8. QED
    BY <1>1, <1>2, <1>3, <1>4, <1>5, <1>6, <1>7 DEF StartSteps

\* ScopedLockStopTheWorld preserves the invariant.
LEMMA StwLockPreserves ==
    ASSUME IInv, NEW t \in GCThreads, LockStopTheWorld(t) \/ UnlockStopTheWorld(t)
    PROVE  IInv'
  <1> USE DEF Threads, RestPcs, EnterPcs, SlowPcs, LeavePcs, LockPcs, WaitPcs,
              StopPcs, StartPcs, Labels, RunningPcs, UncountedPcs, ParkedPcs,
              PendingPcs, locks, stw, local, Goto, WakeAll, SaferegionState
  <1>0. TypeOK /\ CountInv /\ LockInv /\ PendingInv /\ MemberInv /\ FlagInv
        /\ FiniNeverBlocks /\ NoFatal /\ ParkedInv
    BY DEF IInv
  <1>1. CASE LockStopTheWorld(t)
    <2>1. TypeOK'
      BY <1>0, <1>1 DEF LockStopTheWorld, LockStwMutex, TypeOK
    <2>2. CountInv'
      <3>1. Counted' = Counted
        BY <1>0, <1>1 DEF LockStopTheWorld, LockStwMutex, TypeOK, Counted
      <3>2. QED
        BY <1>0, <1>1, <3>1 DEF LockStopTheWorld, LockStwMutex, CountInv, TypeOK
    <2>3. LockInv' /\ MemberInv' /\ FlagInv' /\ FiniNeverBlocks' /\ NoFatal'
      BY <1>0, <1>1, ThreadAssumption
      DEF LockStopTheWorld, LockStwMutex, TypeOK, LockInv, MemberInv, FlagInv,
          FiniNeverBlocks,
          NoFatal, HoldsList, HoldsStw, Finishing
    <2>4. PendingInv' /\ ParkedInv'
      BY <1>0, <1>1 DEF LockStopTheWorld, LockStwMutex, TypeOK, PendingInv, ParkedInv,
          Running
    <2>5. QED
      BY <2>1, <2>2, <2>3, <2>4 DEF IInv
  <1>2. CASE UnlockStopTheWorld(t)
    <2>1. TypeOK'
      BY <1>0, <1>2 DEF UnlockStopTheWorld, UnlockStwMutex, TypeOK, LockInv, HoldsStw
    <2>2. CountInv'
      <3>1. Counted' = Counted
        BY <1>0, <1>2 DEF UnlockStopTheWorld, UnlockStwMutex, TypeOK, Counted
      <3>2. QED
        BY <1>0, <1>2, <3>1 DEF UnlockStopTheWorld, UnlockStwMutex, CountInv, TypeOK
    <2>3. LockInv' /\ MemberInv' /\ FlagInv' /\ FiniNeverBlocks' /\ NoFatal'
      BY <1>0, <1>2, ThreadAssumption
      DEF UnlockStopTheWorld, UnlockStwMutex, TypeOK, LockInv, MemberInv, FlagInv,
          FiniNeverBlocks,
          NoFatal, HoldsList, HoldsStw, Finishing
    <2>4. PendingInv' /\ ParkedInv'
      BY <1>0, <1>2 DEF UnlockStopTheWorld, UnlockStwMutex, TypeOK, PendingInv,
          ParkedInv, Running
    <2>5. QED
      BY <2>1, <2>2, <2>3, <2>4 DEF IInv
  <1>3. QED
    BY <1>1, <1>2 DEF LockStopTheWorld

\* The invariant holds initially.
LEMMA InitEstablishes == Init => IInv
  <1> SUFFICES ASSUME Init PROVE IInv
    OBVIOUS
  <1> USE DEF Init, Threads, NoState
  <1>1. TypeOK
    BY DEF TypeOK, SaferegionState, Labels, RestPcs
  <1>2. Counted = {} /\ Running = {}
    BY DEF Counted, Running, UncountedPcs
  <1>3. CountInv /\ PendingInv /\ ParkedInv
    BY <1>2, FS_EmptySet DEF CountInv, PendingInv, ParkedInv, PendingPcs, ParkedPcs, WaitPcs
  <1>4. LockInv /\ MemberInv /\ FlagInv
    BY DEF LockInv, MemberInv, FlagInv, HoldsList, HoldsStw, Finishing,
           StopPcs, StartPcs, WaitPcs, LeavePcs, SlowPcs
  <1>5. FiniNeverBlocks /\ NoFatal
    BY DEF FiniNeverBlocks, NoFatal, SlowPcs
  <1>6. QED
    BY <1>1, <1>3, <1>4, <1>5 DEF IInv

\* A stuttering step preserves the invariant.
LEMMA StutterPreserves == IInv /\ UNCHANGED vars => IInv'
  BY DEF IInv, vars, locks, stw, local, TypeOK, CountInv, LockInv, PendingInv, MemberInv,
         FlagInv, FiniNeverBlocks, NoFatal, ParkedInv, Counted, Running, HoldsList,
         HoldsStw, Finishing

\* Every step preserves the invariant.
LEMMA NextPreserves == IInv /\ [Next]_vars => IInv'
  <1> SUFFICES ASSUME IInv, [Next]_vars PROVE IInv'
    OBVIOUS
  <1>1. ASSUME NEW m \in Mutators, DoEnterSaferegion(m) PROVE IInv'
    BY <1>1, EnterPreserves
  <1>2. ASSUME NEW m \in Mutators, DoLeaveSaferegion(m) \/ SlowInterrupted(m) PROVE IInv'
    BY <1>2, LeavePreserves
  <1>3. ASSUME NEW m \in Mutators, MutatorCall(m) PROVE IInv'
    BY <1>3, MutatorCallPreserves
  <1>4. ASSUME NEW t \in Threads,
  StopTheWorld(t) \/ StopSteps(t) \/ StwTimeout(t) PROVE IInv'
    BY <1>4, StopPreserves
  <1>5. ASSUME NEW t \in Threads, StartSteps(t) PROVE IInv'
    BY <1>5, StartPreserves
  <1>6. ASSUME NEW g \in GCThreads, LockStopTheWorld(g) \/ UnlockStopTheWorld(g) PROVE IInv'
    BY <1>6, StwLockPreserves
  <1>7. CASE UNCHANGED vars
    BY <1>7, StutterPreserves
  <1>8. QED
    BY <1>1, <1>2, <1>3, <1>4, <1>5, <1>6, <1>7 DEF Next, Steady

\* The inductive invariant holds in every reachable state.
THEOREM Invariance == Spec => []IInv
  BY InitEstablishes, NextPreserves, PTL DEF Spec

\* Type correctness; in particular saferegionCount never goes below zero, so
\* the shared word's two halves never run into each other.
THEOREM TypeCorrect == Spec => []TypeOK
  <1>1. IInv => TypeOK
    BY DEF IInv
  <1>2. QED
    BY <1>1, Invariance, PTL

\* Stop-the-world is safe: while WorldStopped() answers true no mutator of the
\* list is outside the saferegion.
THEOREM WorldStoppedIsSafe == Spec => []StoppedMeansParked
  <1>1. IInv => StoppedMeansParked
    BY DEF IInv, ParkedInv, ParkedPcs, StoppedMeansParked
  <1>2. QED
    BY <1>1, Invariance, PTL

\* The consistency check of WaitForAllMutatorsStopped never fires.
THEOREM FatalUnreachable == Spec => []NoFatal
  <1>1. IInv => NoFatal
    BY DEF IInv
  <1>2. QED
    BY <1>1, Invariance, PTL

\* A mutator that detaches never blocks while it holds the mutator list lock.
THEOREM FiniDoesNotBlock == Spec => []FiniNeverBlocks
  <1>1. IInv => FiniNeverBlocks
    BY DEF IInv
  <1>2. QED
    BY <1>1, Invariance, PTL

\* A step taken while a stop is pending leaves the mutator list alone.
LEMMA ListFixedStep ==
    ASSUME IInv, [Next]_vars, instance.pendingCount # 0
    PROVE  mutatorList' = mutatorList
  <1>1. listLock # NoOwner
    BY NobodyStops DEF IInv, PendingInv
  <1>2. ASSUME NEW m \in Mutators,
  DoEnterSaferegion(m) \/ DoLeaveSaferegion(m) \/ SlowInterrupted(m)
        PROVE  mutatorList' = mutatorList
    BY <1>2 DEF DoEnterSaferegion, EnterInc, EnterFlag, EnterWake, DoLeaveSaferegion,
        LeaveDec,
                LeaveSaferegionSlowPath, SlowInc, SlowWake, SlowWait, SlowDec, LeaveFlag,
                FiniUnlock, SlowInterrupted
  <1>3. ASSUME NEW m \in Mutators, MutatorCall(m)
        PROVE  mutatorList' = mutatorList
    BY <1>1, <1>3 DEF MutatorCall, InitYieldpoint, FiniYieldpoint, ListGuard,
        EnterSaferegion,
                      LeaveSaferegion, Yieldpoint, RuntimeLock, RuntimeUnlock
  <1>4. ASSUME NEW t \in Threads, StopTheWorld(t) \/ StopSteps(t) \/ StwTimeout(t)
        PROVE  mutatorList' = mutatorList
    BY <1>4 DEF StopTheWorld, StopSteps, StwMutexLock, StwThreadListLock, StwListLock,
                StwSetPending, SetPollingPageUnreadable, WaitForAllMutatorsStopped, StwLoad,
                StwWait, StwDone, StwTimeout
  <1>5. ASSUME NEW t \in Threads, StartSteps(t)
        PROVE  mutatorList' = mutatorList
    BY <1>5 DEF StartSteps, StartTheWorld, SetPollingPageReadable, StartClearPending,
        StartWake,
                StartListUnlock, StartThreadListUnlock, StartMutexUnlock
  <1>6. ASSUME NEW g \in GCThreads, LockStopTheWorld(g) \/ UnlockStopTheWorld(g)
        PROVE  mutatorList' = mutatorList
    BY <1>6 DEF LockStopTheWorld, UnlockStopTheWorld
  <1>7. QED
    BY <1>2, <1>3, <1>4, <1>5, <1>6 DEF Next, Steady, vars

\* The mutator list does not change while a stop is pending: AddMutator and
\* RemoveMutator wait for the lock that the stopper holds.
THEOREM ListIsFixed == Spec => ListFixedWhilePending
  <1>1. IInv /\ [Next]_vars => [instance.pendingCount # 0 => mutatorList' = mutatorList]_vars
    BY ListFixedStep
  <1>2. QED
    BY <1>1, Invariance, PTL DEF Spec, ListFixedWhilePending

\* Every step preserves RestoresCaller.
LEMMA RestoresStep ==
    ASSUME IInv, RestoresCaller, [Next]_vars
    PROVE  RestoresCaller'
  <1> USE DEF RestoresCaller, Threads, StopPcs, StartPcs, WaitPcs, locks, stw, local,
  Goto, WakeAll
  <1>0. TypeOK /\ LockInv
    BY DEF IInv
  <1>1. ASSUME NEW m \in Mutators, DoEnterSaferegion(m)
        PROVE  RestoresCaller'
    BY <1>0, <1>1 DEF DoEnterSaferegion, EnterInc, EnterFlag, EnterWake, WakeStopper,
                      AfterEnter, TypeOK
  <1>2. ASSUME NEW m \in Mutators, DoLeaveSaferegion(m) \/ SlowInterrupted(m)
        PROVE  RestoresCaller'
    BY <1>0, <1>2 DEF DoLeaveSaferegion, LeaveDec, AfterDec, LeaveSaferegionSlowPath,
        SlowInc,
                      SlowWake, WakeStopper, SlowWait, SlowDec, LeaveFlag, FiniUnlock,
                      SlowInterrupted, TypeOK
  <1>3. ASSUME NEW m \in Mutators, MutatorCall(m)
        PROVE  RestoresCaller'
    BY <1>0, <1>3 DEF MutatorCall, InitYieldpoint, FiniYieldpoint, EnterSaferegion,
                      LeaveSaferegion, Yieldpoint, RuntimeLock, RuntimeUnlock, Enter,
                      Leave, TypeOK
  <1>4. ASSUME NEW t \in Threads, StopTheWorld(t)
        PROVE  RestoresCaller'
    BY <1>0, <1>4 DEF StopTheWorld, Enter, TypeOK
  <1>5. ASSUME NEW t \in Threads, StwListLock(t)
        PROVE  RestoresCaller'
    <2>1. \A u \in Threads : pc[u] \notin StopPcs \cup {"stopped"}
      BY <1>0, <1>5, ThreadAssumption DEF StwListLock, LockInv, HoldsList
    <2>2. QED
      BY <1>0, <1>5, <2>1 DEF StwListLock, RememberCaller, TypeOK
  <1>6. ASSUME NEW t \in Threads,
               \/ StwMutexLock(t) \/ StwThreadListLock(t) \/ StwSetPending(t)
               \/ SetPollingPageUnreadable(t) \/ WaitForAllMutatorsStopped(t) \/ StwTimeout(t)
        PROVE  RestoresCaller'
    BY <1>0, <1>6 DEF StwMutexLock, StwThreadListLock, StwSetPending,
        SetPollingPageUnreadable,
                      WaitForAllMutatorsStopped, StwLoad, StwWait, StwTimeout, StwDone,
                      TypeOK
  <1>7. ASSUME NEW t \in Threads, StartSteps(t)
        PROVE  RestoresCaller'
    BY <1>0, <1>7 DEF StartSteps, StartTheWorld, SetPollingPageReadable, StartClearPending,
                      StartWake, WakeMutators, StartListUnlock, StartThreadListUnlock,
                      StartMutexUnlock, Leave, TypeOK
  <1>8. ASSUME NEW g \in GCThreads, LockStopTheWorld(g) \/ UnlockStopTheWorld(g)
        PROVE  RestoresCaller'
    BY <1>0, <1>8 DEF LockStopTheWorld, UnlockStopTheWorld, TypeOK
  <1>9. CASE UNCHANGED vars
    BY <1>9 DEF vars
  <1>10. QED
    BY <1>1, <1>2, <1>3, <1>4, <1>5, <1>6, <1>7, <1>8, <1>9 DEF Next, Steady, StopSteps

\* StartTheWorld always acts on what the same thread's StopTheWorld recorded,
\* although all stoppers share one global flag.
THEOREM CallerIsRestored == Spec => []RestoresCaller
  <1>1. Init => RestoresCaller
    BY DEF Init, RestoresCaller, StopPcs, WaitPcs, StartPcs
  <1>2. IInv /\ RestoresCaller /\ [Next]_vars => RestoresCaller'
    BY RestoresStep
  <1>3. QED
    BY <1>1, <1>2, Invariance, PTL DEF Spec

-----------------------------------------------------------------------------
(* The protocol implements StopWorld.                                      *)

\* What a step of one thread does to the set of running mutators.
Moves(m) ==
    /\ worldStopped' = worldStopped
    /\ \/ Running' = Running
       \/ Running' = Running \cup {m}
       \/ Running' = Running \ {m}

\* A step of a mutator moves at most that mutator in or out of Running.
LEMMA MutatorMoves ==
    ASSUME IInv, NEW m \in Mutators,
           DoEnterSaferegion(m) \/ DoLeaveSaferegion(m) \/ SlowInterrupted(m) \/ MutatorCall(m)
    PROVE  Moves(m)
  <1> USE DEF Running, RunningPcs, Threads, Moves, stw, local, Goto, WakeAll
  <1>0. TypeOK /\ MemberInv
    BY DEF IInv
  <1>1. CASE EnterInc(m)
    BY <1>0, <1>1 DEF EnterInc, TypeOK
  <1>2. CASE EnterFlag(m)
    BY <1>0, <1>2 DEF EnterFlag, AfterEnter, TypeOK
  <1>3. CASE EnterWake(m)
    BY <1>0, <1>3 DEF EnterWake, WakeStopper, AfterEnter, TypeOK
  <1>4. CASE LeaveDec(m)
    BY <1>0, <1>4 DEF LeaveDec, AfterDec, TypeOK
  <1>5. CASE SlowInc(m)
    BY <1>0, <1>5 DEF SlowInc, TypeOK
  <1>6. CASE SlowWake(m)
    BY <1>0, <1>6 DEF SlowWake, WakeStopper, TypeOK
  <1>7. CASE SlowWait(m)
    BY <1>0, <1>7 DEF SlowWait, TypeOK
  <1>8. CASE SlowDec(m)
    BY <1>0, <1>8 DEF SlowDec, AfterDec, TypeOK
  <1>9. CASE LeaveFlag(m)
    BY <1>0, <1>9 DEF LeaveFlag, TypeOK, MemberInv, Finishing, LeavePcs
  <1>10. CASE FiniUnlock(m) \/ SlowInterrupted(m)
    BY <1>0, <1>10 DEF FiniUnlock, SlowInterrupted, TypeOK
  <1>11. CASE InitYieldpoint(m)
    BY <1>0, <1>11 DEF InitYieldpoint, Enter, TypeOK
  <1>12. CASE FiniYieldpoint(m)
    BY <1>0, <1>12 DEF FiniYieldpoint, Leave, TypeOK
  <1>13. CASE EnterSaferegion(m) \/ Yieldpoint(m)
    BY <1>0, <1>13 DEF EnterSaferegion, Yieldpoint, Enter, TypeOK
  <1>14. CASE LeaveSaferegion(m)
    BY <1>0, <1>14 DEF LeaveSaferegion, Leave, TypeOK
  <1>15. CASE RuntimeLock(m) \/ RuntimeUnlock(m)
    BY <1>0, <1>15 DEF RuntimeLock, RuntimeUnlock, TypeOK
  <1>16. QED
    BY <1>1, <1>2, <1>3, <1>4, <1>5, <1>6, <1>7, <1>8, <1>9, <1>10, <1>11, <1>12, <1>13,
       <1>14, <1>15
    DEF DoEnterSaferegion, DoLeaveSaferegion, LeaveSaferegionSlowPath, MutatorCall

\* A step of a stopper moves at most the stopper itself.
LEMMA StopperMoves ==
    ASSUME IInv, NEW t \in Threads,
           \/ StopTheWorld(t) \/ StopSteps(t) \/ StwTimeout(t) \/ StartSteps(t)
           \/ t \in GCThreads /\ (LockStopTheWorld(t) \/ UnlockStopTheWorld(t))
    PROVE  (t \in Mutators /\ Moves(t)) \/ Running' = Running
  <1> USE DEF Running, RunningPcs, Threads, Moves, stw, local, Goto, WakeAll
  <1>0. TypeOK /\ MemberInv /\ FlagInv
    BY DEF IInv
  <1>1. CASE StopTheWorld(t)
    BY <1>0, <1>1 DEF StopTheWorld, Enter, TypeOK, MemberInv, FlagInv, Finishing,
        LeavePcs, SlowPcs
  <1>2. CASE StwMutexLock(t) \/ StwThreadListLock(t) \/ StwListLock(t)
    BY <1>0, <1>2 DEF StwMutexLock, StwThreadListLock, StwListLock, TypeOK
  <1>3. CASE StwSetPending(t) \/ SetPollingPageUnreadable(t)
    BY <1>0, <1>3 DEF StwSetPending, SetPollingPageUnreadable, TypeOK
  <1>4. CASE StwLoad(t) \/ StwWait(t) \/ StwTimeout(t) \/ StwDone(t)
    BY <1>0, <1>4 DEF StwLoad, StwWait, StwTimeout, StwDone, TypeOK
  <1>5. CASE StartTheWorld(t) \/ SetPollingPageReadable(t) \/ StartClearPending(t)
    BY <1>0, <1>5 DEF StartTheWorld, SetPollingPageReadable, StartClearPending, TypeOK
  <1>6. CASE StartWake(t)
    BY <1>0, <1>6 DEF StartWake, WakeMutators, TypeOK
  <1>7. CASE StartListUnlock(t) \/ StartThreadListUnlock(t)
    BY <1>0, <1>7 DEF StartListUnlock, StartThreadListUnlock, TypeOK
  <1>8. CASE StartMutexUnlock(t)
    BY <1>0, <1>8 DEF StartMutexUnlock, Leave, TypeOK
  <1>9. CASE t \in GCThreads /\ (LockStopTheWorld(t) \/ UnlockStopTheWorld(t))
    BY <1>0, <1>9 DEF LockStopTheWorld, UnlockStopTheWorld, TypeOK
  <1>10. QED
    BY <1>1, <1>2, <1>3, <1>4, <1>5, <1>6, <1>7, <1>8, <1>9
    DEF StopSteps, WaitForAllMutatorsStopped, StartSteps

\* worldStopped is only set by StwDone, when nobody runs.
LEMMA StoppedFlag ==
    ASSUME IInv, [Next]_vars
    PROVE  worldStopped' => worldStopped \/ Running = {}
  <1>1. ASSUME NEW m \in Mutators,
               DoEnterSaferegion(m) \/ DoLeaveSaferegion(m) \/ SlowInterrupted(m) \/ MutatorCall(m)
        PROVE  worldStopped' = worldStopped
    BY <1>1, MutatorMoves DEF Moves
  <1>2. ASSUME NEW t \in Threads, StwDone(t)
        PROVE  Running = {}
    BY <1>2 DEF StwDone, IInv, ParkedInv, ParkedPcs
  <1>3. ASSUME NEW t \in Threads,
               StopTheWorld(t) \/ StopSteps(t) \/ StwTimeout(t) \/ StartSteps(t)
        PROVE  worldStopped' => worldStopped \/ StwDone(t)
    BY <1>3 DEF StopTheWorld, StopSteps, StwMutexLock, StwThreadListLock, StwListLock,
                StwSetPending, SetPollingPageUnreadable, WaitForAllMutatorsStopped, StwLoad,
                StwWait, StwTimeout, StartSteps, StartTheWorld, SetPollingPageReadable,
                StartClearPending, StartWake, StartListUnlock, StartThreadListUnlock,
                StartMutexUnlock, stw
  <1>4. ASSUME NEW g \in GCThreads, LockStopTheWorld(g) \/ UnlockStopTheWorld(g)
        PROVE  worldStopped' = worldStopped
    BY <1>4 DEF LockStopTheWorld, UnlockStopTheWorld, stw
  <1>5. QED
    BY <1>1, <1>2, <1>3, <1>4 DEF Next, Steady, vars, stw

\* Every step is a step of StopWorld or a stuttering step of it.
LEMMA RefinementStep ==
    ASSUME IInv, IInv', [Next]_vars
    PROVE  [Abstract!Next]_(Abstract!vars)
  <1>0. (worldStopped' => Running' = {}) /\ worldStopped \in BOOLEAN /\ worldStopped' \in BOOLEAN
    BY DEF IInv, ParkedInv, ParkedPcs, TypeOK
  <1>1. ASSUME NEW m \in Mutators, Moves(m)
        PROVE  [Abstract!Next]_(Abstract!vars)
    BY <1>0, <1>1 DEF Moves, Abstract!Next, Abstract!vars, Abstract!Resume, Abstract!Park
  <1>2. ASSUME Running' = Running
        PROVE  [Abstract!Next]_(Abstract!vars)
    BY <1>0, <1>2, StoppedFlag DEF Abstract!Next, Abstract!vars, Abstract!Stop,
        Abstract!Start
  <1>3. CASE UNCHANGED vars
    BY <1>3, <1>2 DEF vars, Running
  <1>4. QED
    BY <1>1, <1>2, <1>3, MutatorMoves, StopperMoves DEF Next, Steady, Threads

\* The protocol of counters, futexes and locks implements the abstract
\* stop-the-world.
THEOREM ImplementsStopWorld == Spec => Refinement
  <1>1. Init => Abstract!Init
    BY DEF Init, Abstract!Init, Running
  <1>2. IInv /\ IInv' /\ [Next]_vars => [Abstract!Next]_(Abstract!vars)
    BY RefinementStep
  <1>3. QED
    BY <1>1, <1>2, Invariance, PTL DEF Spec, Refinement, Abstract!Spec

\* The stopper that is about to block has loaded a count that is not the last one.
LoadedInv ==
    \A t \in Threads : pc[t] = "stw_wait" => state[t].saferegionCount # instance.pendingCount

\* The two halves of NoLostWakeup.
MutatorsWoken ==
    (\E m \in Mutators : pc[m] = "slow_blocked") /\ instance.pendingCount = 0
        => \E t \in Threads : pc[t] = "start_wake"

Wakes(m) == \/ pc[m] \in {"enter_wake", "slow_wake"}
            \/ pc[m] = "enter_flag" /\ LastToEnter(state[m])

StopperWoken ==
    (\E t \in Threads : pc[t] = "stw_blocked") /\ AllMutatorStopped(instance)
        => \E m \in Mutators : Wakes(m)

\* Threads that stop the world exclude one another.
LEMMA OneStopper ==
    ASSUME LockInv, NEW t \in Threads, NEW u \in Threads, HoldsStw(t), HoldsStw(u)
    PROVE  t = u
  BY DEF LockInv

\* While somebody waits for the mutators, no more are counted than are awaited.
LEMMA CountBelow ==
    ASSUME IInv, NEW t \in Threads, pc[t] \in WaitPcs
    PROVE  instance.saferegionCount <= instance.pendingCount
  <1>1. TypeOK /\ CountInv /\ LockInv /\ PendingInv /\ MemberInv /\ FiniNeverBlocks
    BY DEF IInv
  <1>2. listLock = t /\ pc[t] \notin LeavePcs
    BY <1>1 DEF LockInv, HoldsList, StopPcs, LeavePcs, SlowPcs, WaitPcs
  <1>3. \A m \in Mutators : ~Finishing(m)
    BY <1>1, <1>2 DEF LockInv, HoldsList, Finishing, Threads
  <1>4. Counted \subseteq mutatorList
    BY <1>1, <1>3 DEF MemberInv, Counted, UncountedPcs
  <1>5. Cardinality(Counted) <= Cardinality(mutatorList)
    BY <1>1, <1>4, FiniteFacts, FS_Subset
  <1>6. instance.pendingCount = Cardinality(mutatorList)
    BY <1>1 DEF PendingInv, PendingPcs
  <1>7. QED
    BY <1>1, <1>5, <1>6 DEF CountInv

\* What a stopper has loaded stays a number of mutators that is not the last one.
LEMMA LoadStep ==
    ASSUME IInv, LoadedInv, [Next]_vars
    PROVE  LoadedInv'
  <1> USE DEF LoadedInv, MutatorsWoken, StopperWoken, Wakes, LastToEnter, AllMutatorStopped,
              Threads, locks, stw, local, Goto, WakeAll, SaferegionState
  <1>0. TypeOK /\ LockInv /\ PendingInv
    BY DEF IInv
  <1>a. \A t, u \in Threads : HoldsStw(t) /\ HoldsStw(u) => t = u
    BY <1>0, OneStopper
  <1>b. \A t \in Threads : pc[t] \in WaitPcs => instance.saferegionCount <= instance.pendingCount
    BY CountBelow
  <1>1. ASSUME NEW m \in Mutators, EnterInc(m) PROVE LoadedInv'
    BY <1>0, <1>1 DEF EnterInc, IncSaferegionCount, TypeOK
  <1>2. ASSUME NEW m \in Mutators, EnterFlag(m) PROVE LoadedInv'
    BY <1>0, <1>2 DEF EnterFlag, AfterEnter, TypeOK
  <1>3. ASSUME NEW m \in Mutators, EnterWake(m) PROVE LoadedInv'
    BY <1>0, <1>3 DEF EnterWake, WakeStopper, AfterEnter, TypeOK
  <1>4. ASSUME NEW m \in Mutators, LeaveDec(m) PROVE LoadedInv'
    BY <1>0, <1>4 DEF LeaveDec, AfterDec, DecSaferegionCount, TypeOK
  <1>5. ASSUME NEW m \in Mutators, SlowInc(m) PROVE LoadedInv'
    BY <1>0, <1>5 DEF SlowInc, IncSaferegionCount, TypeOK
  <1>6. ASSUME NEW m \in Mutators, SlowWake(m) PROVE LoadedInv'
    BY <1>0, <1>6 DEF SlowWake, WakeStopper, TypeOK
  <1>7. ASSUME NEW m \in Mutators, SlowWait(m) PROVE LoadedInv'
    BY <1>0, <1>7 DEF SlowWait, TypeOK
  <1>8. ASSUME NEW m \in Mutators, SlowInterrupted(m) PROVE LoadedInv'
    BY <1>0, <1>8 DEF SlowInterrupted, TypeOK
  <1>9. ASSUME NEW m \in Mutators, SlowDec(m) PROVE LoadedInv'
    BY <1>0, <1>9 DEF SlowDec, AfterDec, DecSaferegionCount, NoState, TypeOK
  <1>10. ASSUME NEW m \in Mutators, LeaveFlag(m) PROVE LoadedInv'
    BY <1>0, <1>10 DEF LeaveFlag, TypeOK
  <1>11. ASSUME NEW m \in Mutators, InitYieldpoint(m) PROVE LoadedInv'
    BY <1>0, <1>11 DEF InitYieldpoint, Enter, TypeOK
  <1>12. ASSUME NEW m \in Mutators, FiniYieldpoint(m) PROVE LoadedInv'
    BY <1>0, <1>12 DEF FiniYieldpoint, Leave, TypeOK
  <1>13. ASSUME NEW m \in Mutators, FiniUnlock(m) PROVE LoadedInv'
    BY <1>0, <1>13 DEF FiniUnlock, TypeOK
  <1>14. ASSUME NEW m \in Mutators, EnterSaferegion(m) PROVE LoadedInv'
    BY <1>0, <1>14 DEF EnterSaferegion, Enter, TypeOK
  <1>15. ASSUME NEW m \in Mutators, LeaveSaferegion(m) PROVE LoadedInv'
    BY <1>0, <1>15 DEF LeaveSaferegion, Leave, TypeOK
  <1>16. ASSUME NEW m \in Mutators, Yieldpoint(m) PROVE LoadedInv'
    BY <1>0, <1>16 DEF Yieldpoint, Enter, TypeOK
  <1>17. ASSUME NEW m \in Mutators, RuntimeLock(m) PROVE LoadedInv'
    BY <1>0, <1>17 DEF RuntimeLock, TypeOK
  <1>18. ASSUME NEW m \in Mutators, RuntimeUnlock(m) PROVE LoadedInv'
    BY <1>0, <1>18 DEF RuntimeUnlock, TypeOK
  <1>19. ASSUME NEW t \in Threads, StopTheWorld(t) PROVE LoadedInv'
    BY <1>0, <1>19 DEF StopTheWorld, Enter, TypeOK
  <1>20. ASSUME NEW t \in Threads, StwMutexLock(t) PROVE LoadedInv'
    BY <1>0, <1>20 DEF StwMutexLock, TypeOK
  <1>21. ASSUME NEW t \in Threads, StwThreadListLock(t) PROVE LoadedInv'
    BY <1>0, <1>21 DEF StwThreadListLock, TypeOK
  <1>22. ASSUME NEW t \in Threads, StwListLock(t) PROVE LoadedInv'
    BY <1>0, <1>22 DEF StwListLock, TypeOK
  <1>23. ASSUME NEW t \in Threads, StwSetPending(t) PROVE LoadedInv'
    BY <1>0, <1>23, <1>a DEF StwSetPending, SetPendingCount, TypeOK, HoldsStw, StopPcs,
       WaitPcs, StartPcs, PendingInv, PendingPcs, ParkedPcs
  <1>24. ASSUME NEW t \in Threads, SetPollingPageUnreadable(t) PROVE LoadedInv'
    BY <1>0, <1>24 DEF SetPollingPageUnreadable, TypeOK
  <1>25. ASSUME NEW t \in Threads, StwLoad(t) PROVE LoadedInv'
    BY <1>0, <1>25, <1>a DEF StwLoad, NoState, TypeOK, HoldsStw, StopPcs, WaitPcs, StartPcs,
       PendingInv, PendingPcs, ParkedPcs
  <1>26. ASSUME NEW t \in Threads, StwWait(t) PROVE LoadedInv'
    BY <1>0, <1>26, <1>a DEF StwWait, TypeOK, HoldsStw, StopPcs, WaitPcs, StartPcs,
       PendingInv, PendingPcs, ParkedPcs
  <1>27. ASSUME NEW t \in Threads, StwTimeout(t) PROVE LoadedInv'
    BY <1>0, <1>27 DEF StwTimeout, TypeOK
  <1>28. ASSUME NEW t \in Threads, StwDone(t) PROVE LoadedInv'
    BY <1>0, <1>28 DEF StwDone, TypeOK
  <1>29. ASSUME NEW t \in Threads, StartTheWorld(t) PROVE LoadedInv'
    BY <1>0, <1>29 DEF StartTheWorld, TypeOK
  <1>30. ASSUME NEW t \in Threads, SetPollingPageReadable(t) PROVE LoadedInv'
    BY <1>0, <1>30 DEF SetPollingPageReadable, TypeOK
  <1>31. ASSUME NEW t \in Threads, StartClearPending(t) PROVE LoadedInv'
    BY <1>0, <1>31, <1>a DEF StartClearPending, SetPendingCount, TypeOK, HoldsStw, StopPcs,
       WaitPcs, StartPcs, PendingInv, PendingPcs, ParkedPcs
  <1>32. ASSUME NEW t \in Threads, StartWake(t) PROVE LoadedInv'
    BY <1>0, <1>32, <1>a DEF StartWake, WakeMutators, TypeOK, HoldsStw, StopPcs, WaitPcs,
       StartPcs
  <1>33. ASSUME NEW t \in Threads, StartListUnlock(t) PROVE LoadedInv'
    BY <1>0, <1>33 DEF StartListUnlock, TypeOK
  <1>34. ASSUME NEW t \in Threads, StartThreadListUnlock(t) PROVE LoadedInv'
    BY <1>0, <1>34 DEF StartThreadListUnlock, TypeOK
  <1>35. ASSUME NEW t \in Threads, StartMutexUnlock(t) PROVE LoadedInv'
    BY <1>0, <1>35 DEF StartMutexUnlock, Leave, TypeOK
  <1>36. ASSUME NEW g \in GCThreads, LockStopTheWorld(g) PROVE LoadedInv'
    BY <1>0, <1>36 DEF LockStopTheWorld, TypeOK
  <1>37. ASSUME NEW g \in GCThreads, UnlockStopTheWorld(g) PROVE LoadedInv'
    BY <1>0, <1>37 DEF UnlockStopTheWorld, TypeOK
  <1>38. CASE UNCHANGED vars
    BY <1>38 DEF vars
  <1> QED
    BY <1>1, <1>2, <1>3, <1>4, <1>5, <1>6, <1>7, <1>8, <1>9, <1>10, <1>11, <1>12, <1>13,
       <1>14, <1>15, <1>16, <1>17, <1>18, <1>19, <1>20, <1>21, <1>22, <1>23, <1>24, <1>25,
       <1>26, <1>27, <1>28, <1>29, <1>30, <1>31, <1>32, <1>33, <1>34, <1>35, <1>36, <1>37,
       <1>38 DEF Next, Steady, DoEnterSaferegion, DoLeaveSaferegion,
       LeaveSaferegionSlowPath, MutatorCall, StopSteps, WaitForAllMutatorsStopped,
       StartSteps

\* No step leaves a mutator blocked in the saferegion that nobody will wake.
LEMMA MutatorsStep ==
    ASSUME IInv, MutatorsWoken, [Next]_vars
    PROVE  MutatorsWoken'
  <1> USE DEF LoadedInv, MutatorsWoken, StopperWoken, Wakes, LastToEnter, AllMutatorStopped,
              Threads, locks, stw, local, Goto, WakeAll, SaferegionState
  <1>0. TypeOK /\ LockInv /\ PendingInv
    BY DEF IInv
  <1>a. \A t, u \in Threads : HoldsStw(t) /\ HoldsStw(u) => t = u
    BY <1>0, OneStopper
  <1>b. \A t \in Threads : pc[t] \in WaitPcs => instance.saferegionCount <= instance.pendingCount
    BY CountBelow
  <1>1. ASSUME NEW m \in Mutators, EnterInc(m) PROVE MutatorsWoken'
    BY <1>0, <1>1 DEF EnterInc, IncSaferegionCount, TypeOK
  <1>2. ASSUME NEW m \in Mutators, EnterFlag(m) PROVE MutatorsWoken'
    BY <1>0, <1>2 DEF EnterFlag, AfterEnter, TypeOK
  <1>3. ASSUME NEW m \in Mutators, EnterWake(m) PROVE MutatorsWoken'
    BY <1>0, <1>3 DEF EnterWake, WakeStopper, AfterEnter, TypeOK
  <1>4. ASSUME NEW m \in Mutators, LeaveDec(m) PROVE MutatorsWoken'
    BY <1>0, <1>4 DEF LeaveDec, AfterDec, DecSaferegionCount, TypeOK
  <1>5. ASSUME NEW m \in Mutators, SlowInc(m) PROVE MutatorsWoken'
    BY <1>0, <1>5 DEF SlowInc, IncSaferegionCount, TypeOK
  <1>6. ASSUME NEW m \in Mutators, SlowWake(m) PROVE MutatorsWoken'
    BY <1>0, <1>6 DEF SlowWake, WakeStopper, TypeOK
  <1>7. ASSUME NEW m \in Mutators, SlowWait(m) PROVE MutatorsWoken'
    BY <1>0, <1>7 DEF SlowWait, TypeOK
  <1>8. ASSUME NEW m \in Mutators, SlowInterrupted(m) PROVE MutatorsWoken'
    BY <1>0, <1>8 DEF SlowInterrupted, TypeOK
  <1>9. ASSUME NEW m \in Mutators, SlowDec(m) PROVE MutatorsWoken'
    BY <1>0, <1>9 DEF SlowDec, AfterDec, DecSaferegionCount, NoState, TypeOK
  <1>10. ASSUME NEW m \in Mutators, LeaveFlag(m) PROVE MutatorsWoken'
    BY <1>0, <1>10 DEF LeaveFlag, TypeOK
  <1>11. ASSUME NEW m \in Mutators, InitYieldpoint(m) PROVE MutatorsWoken'
    BY <1>0, <1>11 DEF InitYieldpoint, Enter, TypeOK
  <1>12. ASSUME NEW m \in Mutators, FiniYieldpoint(m) PROVE MutatorsWoken'
    BY <1>0, <1>12 DEF FiniYieldpoint, Leave, TypeOK
  <1>13. ASSUME NEW m \in Mutators, FiniUnlock(m) PROVE MutatorsWoken'
    BY <1>0, <1>13 DEF FiniUnlock, TypeOK
  <1>14. ASSUME NEW m \in Mutators, EnterSaferegion(m) PROVE MutatorsWoken'
    BY <1>0, <1>14 DEF EnterSaferegion, Enter, TypeOK
  <1>15. ASSUME NEW m \in Mutators, LeaveSaferegion(m) PROVE MutatorsWoken'
    BY <1>0, <1>15 DEF LeaveSaferegion, Leave, TypeOK
  <1>16. ASSUME NEW m \in Mutators, Yieldpoint(m) PROVE MutatorsWoken'
    BY <1>0, <1>16 DEF Yieldpoint, Enter, TypeOK
  <1>17. ASSUME NEW m \in Mutators, RuntimeLock(m) PROVE MutatorsWoken'
    BY <1>0, <1>17 DEF RuntimeLock, TypeOK
  <1>18. ASSUME NEW m \in Mutators, RuntimeUnlock(m) PROVE MutatorsWoken'
    BY <1>0, <1>18 DEF RuntimeUnlock, TypeOK
  <1>19. ASSUME NEW t \in Threads, StopTheWorld(t) PROVE MutatorsWoken'
    BY <1>0, <1>19 DEF StopTheWorld, Enter, TypeOK
  <1>20. ASSUME NEW t \in Threads, StwMutexLock(t) PROVE MutatorsWoken'
    BY <1>0, <1>20 DEF StwMutexLock, TypeOK
  <1>21. ASSUME NEW t \in Threads, StwThreadListLock(t) PROVE MutatorsWoken'
    BY <1>0, <1>21 DEF StwThreadListLock, TypeOK
  <1>22. ASSUME NEW t \in Threads, StwListLock(t) PROVE MutatorsWoken'
    BY <1>0, <1>22 DEF StwListLock, TypeOK
  <1>23. ASSUME NEW t \in Threads, StwSetPending(t) PROVE MutatorsWoken'
    BY <1>0, <1>23, <1>a DEF StwSetPending, SetPendingCount, TypeOK, HoldsStw, StopPcs,
       WaitPcs, StartPcs, PendingInv, PendingPcs, ParkedPcs
  <1>24. ASSUME NEW t \in Threads, SetPollingPageUnreadable(t) PROVE MutatorsWoken'
    BY <1>0, <1>24 DEF SetPollingPageUnreadable, TypeOK
  <1>25. ASSUME NEW t \in Threads, StwLoad(t) PROVE MutatorsWoken'
    BY <1>0, <1>25, <1>a DEF StwLoad, NoState, TypeOK, HoldsStw, StopPcs, WaitPcs, StartPcs,
       PendingInv, PendingPcs, ParkedPcs
  <1>26. ASSUME NEW t \in Threads, StwWait(t) PROVE MutatorsWoken'
    BY <1>0, <1>26, <1>a DEF StwWait, TypeOK, HoldsStw, StopPcs, WaitPcs, StartPcs,
       PendingInv, PendingPcs, ParkedPcs
  <1>27. ASSUME NEW t \in Threads, StwTimeout(t) PROVE MutatorsWoken'
    BY <1>0, <1>27 DEF StwTimeout, TypeOK
  <1>28. ASSUME NEW t \in Threads, StwDone(t) PROVE MutatorsWoken'
    BY <1>0, <1>28 DEF StwDone, TypeOK
  <1>29. ASSUME NEW t \in Threads, StartTheWorld(t) PROVE MutatorsWoken'
    BY <1>0, <1>29 DEF StartTheWorld, TypeOK
  <1>30. ASSUME NEW t \in Threads, SetPollingPageReadable(t) PROVE MutatorsWoken'
    BY <1>0, <1>30 DEF SetPollingPageReadable, TypeOK
  <1>31. ASSUME NEW t \in Threads, StartClearPending(t) PROVE MutatorsWoken'
    BY <1>0, <1>31, <1>a DEF StartClearPending, SetPendingCount, TypeOK, HoldsStw, StopPcs,
       WaitPcs, StartPcs, PendingInv, PendingPcs, ParkedPcs
  <1>32. ASSUME NEW t \in Threads, StartWake(t) PROVE MutatorsWoken'
    BY <1>0, <1>32, <1>a DEF StartWake, WakeMutators, TypeOK, HoldsStw, StopPcs, WaitPcs,
       StartPcs
  <1>33. ASSUME NEW t \in Threads, StartListUnlock(t) PROVE MutatorsWoken'
    BY <1>0, <1>33 DEF StartListUnlock, TypeOK
  <1>34. ASSUME NEW t \in Threads, StartThreadListUnlock(t) PROVE MutatorsWoken'
    BY <1>0, <1>34 DEF StartThreadListUnlock, TypeOK
  <1>35. ASSUME NEW t \in Threads, StartMutexUnlock(t) PROVE MutatorsWoken'
    BY <1>0, <1>35 DEF StartMutexUnlock, Leave, TypeOK
  <1>36. ASSUME NEW g \in GCThreads, LockStopTheWorld(g) PROVE MutatorsWoken'
    BY <1>0, <1>36 DEF LockStopTheWorld, TypeOK
  <1>37. ASSUME NEW g \in GCThreads, UnlockStopTheWorld(g) PROVE MutatorsWoken'
    BY <1>0, <1>37 DEF UnlockStopTheWorld, TypeOK
  <1>38. CASE UNCHANGED vars
    BY <1>38 DEF vars
  <1> QED
    BY <1>1, <1>2, <1>3, <1>4, <1>5, <1>6, <1>7, <1>8, <1>9, <1>10, <1>11, <1>12, <1>13,
       <1>14, <1>15, <1>16, <1>17, <1>18, <1>19, <1>20, <1>21, <1>22, <1>23, <1>24, <1>25,
       <1>26, <1>27, <1>28, <1>29, <1>30, <1>31, <1>32, <1>33, <1>34, <1>35, <1>36, <1>37,
       <1>38 DEF Next, Steady, DoEnterSaferegion, DoLeaveSaferegion,
       LeaveSaferegionSlowPath, MutatorCall, StopSteps, WaitForAllMutatorsStopped,
       StartSteps

\* No step leaves a stopper blocked that nobody will wake.
LEMMA StopperStep ==
    ASSUME IInv, LoadedInv, StopperWoken, [Next]_vars
    PROVE  StopperWoken'
  <1> USE DEF LoadedInv, MutatorsWoken, StopperWoken, Wakes, LastToEnter, AllMutatorStopped,
              Threads, locks, stw, local, Goto, WakeAll, SaferegionState
  <1>0. TypeOK /\ LockInv /\ PendingInv
    BY DEF IInv
  <1>a. \A t, u \in Threads : HoldsStw(t) /\ HoldsStw(u) => t = u
    BY <1>0, OneStopper
  <1>b. \A t \in Threads : pc[t] \in WaitPcs => instance.saferegionCount <= instance.pendingCount
    BY CountBelow
  <1>1. ASSUME NEW m \in Mutators, EnterInc(m) PROVE StopperWoken'
    BY <1>0, <1>1 DEF EnterInc, IncSaferegionCount, TypeOK
  <1>2. ASSUME NEW m \in Mutators, EnterFlag(m) PROVE StopperWoken'
    BY <1>0, <1>2 DEF EnterFlag, AfterEnter, TypeOK
  <1>3. ASSUME NEW m \in Mutators, EnterWake(m) PROVE StopperWoken'
    BY <1>0, <1>3 DEF EnterWake, WakeStopper, AfterEnter, TypeOK
  <1>4. ASSUME NEW m \in Mutators, LeaveDec(m) PROVE StopperWoken'
    BY <1>0, <1>4, <1>b DEF LeaveDec, AfterDec, DecSaferegionCount, TypeOK, WaitPcs
  <1>5. ASSUME NEW m \in Mutators, SlowInc(m) PROVE StopperWoken'
    BY <1>0, <1>5 DEF SlowInc, IncSaferegionCount, TypeOK
  <1>6. ASSUME NEW m \in Mutators, SlowWake(m) PROVE StopperWoken'
    BY <1>0, <1>6 DEF SlowWake, WakeStopper, TypeOK
  <1>7. ASSUME NEW m \in Mutators, SlowWait(m) PROVE StopperWoken'
    BY <1>0, <1>7 DEF SlowWait, TypeOK
  <1>8. ASSUME NEW m \in Mutators, SlowInterrupted(m) PROVE StopperWoken'
    BY <1>0, <1>8 DEF SlowInterrupted, TypeOK
  <1>9. ASSUME NEW m \in Mutators, SlowDec(m) PROVE StopperWoken'
    BY <1>0, <1>9, <1>b DEF SlowDec, AfterDec, DecSaferegionCount, NoState, TypeOK, WaitPcs
  <1>10. ASSUME NEW m \in Mutators, LeaveFlag(m) PROVE StopperWoken'
    BY <1>0, <1>10 DEF LeaveFlag, TypeOK
  <1>11. ASSUME NEW m \in Mutators, InitYieldpoint(m) PROVE StopperWoken'
    BY <1>0, <1>11 DEF InitYieldpoint, Enter, TypeOK
  <1>12. ASSUME NEW m \in Mutators, FiniYieldpoint(m) PROVE StopperWoken'
    BY <1>0, <1>12 DEF FiniYieldpoint, Leave, TypeOK
  <1>13. ASSUME NEW m \in Mutators, FiniUnlock(m) PROVE StopperWoken'
    BY <1>0, <1>13 DEF FiniUnlock, TypeOK
  <1>14. ASSUME NEW m \in Mutators, EnterSaferegion(m) PROVE StopperWoken'
    BY <1>0, <1>14 DEF EnterSaferegion, Enter, TypeOK
  <1>15. ASSUME NEW m \in Mutators, LeaveSaferegion(m) PROVE StopperWoken'
    BY <1>0, <1>15 DEF LeaveSaferegion, Leave, TypeOK
  <1>16. ASSUME NEW m \in Mutators, Yieldpoint(m) PROVE StopperWoken'
    BY <1>0, <1>16 DEF Yieldpoint, Enter, TypeOK
  <1>17. ASSUME NEW m \in Mutators, RuntimeLock(m) PROVE StopperWoken'
    BY <1>0, <1>17 DEF RuntimeLock, TypeOK
  <1>18. ASSUME NEW m \in Mutators, RuntimeUnlock(m) PROVE StopperWoken'
    BY <1>0, <1>18 DEF RuntimeUnlock, TypeOK
  <1>19. ASSUME NEW t \in Threads, StopTheWorld(t) PROVE StopperWoken'
    BY <1>0, <1>19 DEF StopTheWorld, Enter, TypeOK
  <1>20. ASSUME NEW t \in Threads, StwMutexLock(t) PROVE StopperWoken'
    BY <1>0, <1>20 DEF StwMutexLock, TypeOK
  <1>21. ASSUME NEW t \in Threads, StwThreadListLock(t) PROVE StopperWoken'
    BY <1>0, <1>21 DEF StwThreadListLock, TypeOK
  <1>22. ASSUME NEW t \in Threads, StwListLock(t) PROVE StopperWoken'
    BY <1>0, <1>22 DEF StwListLock, TypeOK
  <1>23. ASSUME NEW t \in Threads, StwSetPending(t) PROVE StopperWoken'
    BY <1>0, <1>23, <1>a DEF StwSetPending, SetPendingCount, TypeOK, HoldsStw, StopPcs,
       WaitPcs, StartPcs, PendingInv, PendingPcs, ParkedPcs
  <1>24. ASSUME NEW t \in Threads, SetPollingPageUnreadable(t) PROVE StopperWoken'
    BY <1>0, <1>24 DEF SetPollingPageUnreadable, TypeOK
  <1>25. ASSUME NEW t \in Threads, StwLoad(t) PROVE StopperWoken'
    BY <1>0, <1>25, <1>a DEF StwLoad, NoState, TypeOK, HoldsStw, StopPcs, WaitPcs, StartPcs,
       PendingInv, PendingPcs, ParkedPcs
  <1>26. ASSUME NEW t \in Threads, StwWait(t) PROVE StopperWoken'
    BY <1>0, <1>26, <1>a DEF StwWait, TypeOK, HoldsStw, StopPcs, WaitPcs, StartPcs,
       PendingInv, PendingPcs, ParkedPcs
  <1>27. ASSUME NEW t \in Threads, StwTimeout(t) PROVE StopperWoken'
    BY <1>0, <1>27 DEF StwTimeout, TypeOK
  <1>28. ASSUME NEW t \in Threads, StwDone(t) PROVE StopperWoken'
    BY <1>0, <1>28 DEF StwDone, TypeOK
  <1>29. ASSUME NEW t \in Threads, StartTheWorld(t) PROVE StopperWoken'
    BY <1>0, <1>29 DEF StartTheWorld, TypeOK
  <1>30. ASSUME NEW t \in Threads, SetPollingPageReadable(t) PROVE StopperWoken'
    BY <1>0, <1>30 DEF SetPollingPageReadable, TypeOK
  <1>31. ASSUME NEW t \in Threads, StartClearPending(t) PROVE StopperWoken'
    BY <1>0, <1>31, <1>a DEF StartClearPending, SetPendingCount, TypeOK, HoldsStw, StopPcs,
       WaitPcs, StartPcs, PendingInv, PendingPcs, ParkedPcs
  <1>32. ASSUME NEW t \in Threads, StartWake(t) PROVE StopperWoken'
    BY <1>0, <1>32, <1>a DEF StartWake, WakeMutators, TypeOK, HoldsStw, StopPcs, WaitPcs,
       StartPcs
  <1>33. ASSUME NEW t \in Threads, StartListUnlock(t) PROVE StopperWoken'
    BY <1>0, <1>33 DEF StartListUnlock, TypeOK
  <1>34. ASSUME NEW t \in Threads, StartThreadListUnlock(t) PROVE StopperWoken'
    BY <1>0, <1>34 DEF StartThreadListUnlock, TypeOK
  <1>35. ASSUME NEW t \in Threads, StartMutexUnlock(t) PROVE StopperWoken'
    BY <1>0, <1>35 DEF StartMutexUnlock, Leave, TypeOK
  <1>36. ASSUME NEW g \in GCThreads, LockStopTheWorld(g) PROVE StopperWoken'
    BY <1>0, <1>36 DEF LockStopTheWorld, TypeOK
  <1>37. ASSUME NEW g \in GCThreads, UnlockStopTheWorld(g) PROVE StopperWoken'
    BY <1>0, <1>37 DEF UnlockStopTheWorld, TypeOK
  <1>38. CASE UNCHANGED vars
    BY <1>38 DEF vars
  <1> QED
    BY <1>1, <1>2, <1>3, <1>4, <1>5, <1>6, <1>7, <1>8, <1>9, <1>10, <1>11, <1>12, <1>13,
       <1>14, <1>15, <1>16, <1>17, <1>18, <1>19, <1>20, <1>21, <1>22, <1>23, <1>24, <1>25,
       <1>26, <1>27, <1>28, <1>29, <1>30, <1>31, <1>32, <1>33, <1>34, <1>35, <1>36, <1>37,
       <1>38 DEF Next, Steady, DoEnterSaferegion, DoLeaveSaferegion,
       LeaveSaferegionSlowPath, MutatorCall, StopSteps, WaitForAllMutatorsStopped,
       StartSteps

\* No wake-up is lost: a mutator that sleeps although no stop is pending and a
\* stopper that sleeps although the last mutator has arrived are both about to
\* be woken (EnterSaferegionSlowPath, WaitForAllMutatorsStopped, StartTheWorld).
THEOREM WakeupIsNotLost == Spec => []NoLostWakeup
  <1> DEFINE WInv == LoadedInv /\ MutatorsWoken /\ StopperWoken
  <1>1. Init => WInv
    BY DEF Init, LoadedInv, MutatorsWoken, StopperWoken, Threads
  <1>2. IInv /\ WInv /\ [Next]_vars => WInv'
    BY LoadStep, MutatorsStep, StopperStep
  <1>3. WInv => NoLostWakeup
    BY DEF MutatorsWoken, StopperWoken, Wakes, NoLostWakeup
  <1> HIDE DEF WInv
  <1>4. QED
    BY <1>1, <1>2, <1>3, Invariance, PTL DEF Spec
=============================================================================
