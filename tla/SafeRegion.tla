----------------------------- MODULE SafeRegion -----------------------------
(***************************************************************************)
(* The saferegion protocol and stop-the-world of the Maple runtime         *)
(* (compiler-rt: saferegion.h, yieldpoint.cpp, mutator_list.h).            *)
(*                                                                         *)
(* A mutator (a thread that runs compiled Java code) is either outside the *)
(* saferegion, where it may touch the heap, or inside it, where it may     *)
(* not.  StopTheWorld() publishes the number of mutators as pendingCount,  *)
(* makes the polling page unreadable and waits until saferegionCount has   *)
(* reached pendingCount.  The two counters share one 64-bit word, so every *)
(* read-modify-write returns a consistent pair.  Blocking is by futex.     *)
(*                                                                         *)
(* An action is one atomic operation on shared state, with the thread      *)
(* local branch that follows it.                                           *)
(***************************************************************************)
EXTENDS Integers, FiniteSets

CONSTANTS Mutators,   \* threads that attach to the runtime as mutators
          GCThreads,  \* threads that stop the world and are no mutators
          NoOwner     \* value of a lock nobody holds

Threads == Mutators \cup GCThreads

ASSUME ThreadAssumption ==
    /\ IsFiniteSet(Mutators)
    /\ Mutators \cap GCThreads = {}
    /\ NoOwner \notin Threads

VARIABLES
    instance,        \* SaferegionState::instance, one atomic 64-bit word
    mutatorList,     \* MutatorList::mutatorList
    listLock,        \* owner of MutatorList::mutatorListMutex
    stwMutex,        \* owner of the recursive mutex stwMutex
    stwDepth,        \* how often its owner has locked it
    threadListLock,  \* owner of the runtime's thread list lock (external)
    worldStopped,    \* the flag behind WorldStopped()
    stateChanged,    \* the global saferegionStateChanged
    pageReadable,    \* protection of the polling page
    inSaferegion,    \* Mutator::inSaferegion
    pc,              \* where each thread is
    ret,             \* why a thread is in DoEnter/DoLeaveSaferegion
    state,           \* local SaferegionState of a thread
    entered,         \* local saferegionEntered of StopTheWorld()
    shouldLeave      \* local shouldLeaveSaferegion of StartTheWorld()

locks == <<listLock, stwMutex, stwDepth, threadListLock>>
stw   == <<worldStopped, stateChanged, pageReadable>>
local == <<ret, state, entered, shouldLeave>>
vars  == <<instance, mutatorList, locks, stw, inSaferegion, pc, local>>

SaferegionState == [saferegionCount : Nat, pendingCount : Nat]
NoState == [saferegionCount |-> 0, pendingCount |-> 0]

(***************************************************************************)
(* Labels.  A mutator runs managed code at "managed" and native code (in   *)
(* the saferegion) at "native"; a GC thread rests at "idle", or at "held"  *)
(* between two pauses of one collection.                                   *)
(***************************************************************************)
RestPcs  == {"outside", "managed", "native", "native_tl", "idle", "held"}
EnterPcs == {"enter_inc", "enter_flag", "enter_wake"}
SlowPcs  == {"slow_inc", "slow_wake", "slow_wait", "slow_blocked", "slow_dec"}
LeavePcs == {"leave_dec", "leave_flag", "fini_unlock"} \cup SlowPcs
LockPcs  == {"stw_mutex", "stw_threads", "stw_list"}
WaitPcs  == {"stw_load", "stw_wait", "stw_blocked"}
StopPcs  == {"stw_pending", "stw_page", "stw_done", "fatal"} \cup WaitPcs
StartPcs == {"start_page", "start_pending", "start_wake", "start_list"}
Labels   == RestPcs \cup EnterPcs \cup LeavePcs \cup LockPcs \cup StopPcs
              \cup StartPcs \cup {"stopped", "start_threads", "start_mutex"}

Init ==
    /\ instance = NoState
    /\ mutatorList = {}
    /\ listLock = NoOwner /\ threadListLock = NoOwner
    /\ stwMutex = NoOwner /\ stwDepth = 0
    /\ worldStopped = FALSE /\ stateChanged = FALSE /\ pageReadable = TRUE
    /\ inSaferegion = [m \in Mutators |-> FALSE]
    /\ pc = [t \in Threads |-> IF t \in Mutators THEN "outside" ELSE "idle"]
    /\ ret = [m \in Mutators |-> "native"]
    /\ state = [t \in Threads |-> NoState]
    /\ entered = [t \in Threads |-> FALSE]
    /\ shouldLeave = [t \in Threads |-> FALSE]

-----------------------------------------------------------------------------
(* Atomic operations of SaferegionState and the futex calls.               *)

Goto(t, l) == pc' = [pc EXCEPT ![t] = l]

\* Thread t moves to l and everybody blocked at `from' resumes at `to'.
WakeAll(t, l, from, to) ==
    pc' = [u \in Threads |-> IF u = t THEN l
                             ELSE IF pc[u] = from THEN to ELSE pc[u]]

\* Mutant: the increment is lost.
IncSaferegionCountLost == UNCHANGED instance

IncSaferegionCount == instance' = [instance EXCEPT !.saferegionCount = @ + 1]
DecSaferegionCount == instance' = [instance EXCEPT !.saferegionCount = @ - 1]
SetPendingCount(n) == instance' = [instance EXCEPT !.pendingCount = n]

AllMutatorStopped(s) == s.pendingCount = s.saferegionCount

\* Mutant: compares the count before its own increment.
LastToEnterOffByOne(old) == old.saferegionCount = old.pendingCount

\* old is the state before the increment: is this the last mutator to enter?
LastToEnter(old) == old.saferegionCount + 1 = old.pendingCount

WakeStopper(t, l) == WakeAll(t, l, "stw_blocked", "stw_load")

\* Mutant: nobody is woken.
WakeMutatorsForgotten(t, l) == Goto(t, l)

WakeMutators(t, l) == WakeAll(t, l, "slow_blocked", "slow_dec")

-----------------------------------------------------------------------------
(* Mutator::DoEnterSaferegion                                              *)

AfterEnter(m) == CASE ret[m] = "yield" -> "leave_dec"
                   [] ret[m] = "stw"   -> "stw_mutex"
                   [] OTHER            -> "native"

EnterInc(m) ==
    /\ pc[m] = "enter_inc"
    /\ IncSaferegionCount
    /\ state' = [state EXCEPT ![m] = instance]
    /\ Goto(m, "enter_flag")
    /\ UNCHANGED <<mutatorList, locks, stw, inSaferegion, ret, entered, shouldLeave>>

EnterFlag(m) ==
    /\ pc[m] = "enter_flag"
    /\ inSaferegion' = [inSaferegion EXCEPT ![m] = TRUE]
    /\ Goto(m, IF LastToEnter(state[m]) THEN "enter_wake" ELSE AfterEnter(m))
    /\ state' = [state EXCEPT ![m] = NoState]
    /\ UNCHANGED <<instance, mutatorList, locks, stw, ret, entered, shouldLeave>>

\* EnterSaferegionSlowPath
EnterWake(m) ==
    /\ pc[m] = "enter_wake"
    /\ WakeStopper(m, AfterEnter(m))
    /\ UNCHANGED <<instance, mutatorList, locks, stw, inSaferegion, local>>

-----------------------------------------------------------------------------
(* Mutator::DoLeaveSaferegion and LeaveSaferegionSlowPath                  *)

\* Mutant: leaves whatever pendingCount is.
AfterDecUnchecked(old) == "leave_flag"

\* A pending stop seen by the decrement sends the mutator to the slow path.
AfterDec(old) == IF old.pendingCount # 0 THEN "slow_inc" ELSE "leave_flag"

LeaveDec(m) ==
    /\ pc[m] = "leave_dec"
    /\ DecSaferegionCount
    /\ Goto(m, AfterDec(instance))
    /\ UNCHANGED <<mutatorList, locks, stw, inSaferegion, local>>

SlowInc(m) ==
    /\ pc[m] = "slow_inc"
    /\ IncSaferegionCount
    /\ state' = [state EXCEPT ![m] = instance]
    /\ Goto(m, IF LastToEnter(instance) THEN "slow_wake" ELSE "slow_wait")
    /\ UNCHANGED <<mutatorList, locks, stw, inSaferegion, ret, entered, shouldLeave>>

SlowWake(m) ==
    /\ pc[m] = "slow_wake"
    /\ WakeStopper(m, "slow_wait")
    /\ UNCHANGED <<instance, mutatorList, locks, stw, inSaferegion, local>>

\* futex(&pendingCount, FUTEX_WAIT, curNum), skipped when curNum is 0
SlowWait(m) ==
    /\ pc[m] = "slow_wait"
    /\ LET curNum == state[m].pendingCount
       IN  Goto(m, IF curNum > 0 /\ instance.pendingCount = curNum
                   THEN "slow_blocked" ELSE "slow_dec")
    /\ UNCHANGED <<instance, mutatorList, locks, stw, inSaferegion, local>>

\* The wait returns without a wake-up (EINTR).
SlowInterrupted(m) ==
    /\ pc[m] = "slow_blocked"
    /\ Goto(m, "slow_dec")
    /\ UNCHANGED <<instance, mutatorList, locks, stw, inSaferegion, local>>

SlowDec(m) ==
    /\ pc[m] = "slow_dec"
    /\ DecSaferegionCount
    /\ state' = [state EXCEPT ![m] = NoState]
    /\ Goto(m, AfterDec(instance))
    /\ UNCHANGED <<mutatorList, locks, stw, inSaferegion, ret, entered, shouldLeave>>

\* The stack scan barrier that follows is the subject of module StackScan.
LeaveFlag(m) ==
    /\ pc[m] = "leave_flag"
    /\ inSaferegion' = [inSaferegion EXCEPT ![m] = FALSE]
    /\ Goto(m, IF ret[m] = "fini" THEN "fini_unlock" ELSE "managed")
    /\ UNCHANGED <<instance, mutatorList, locks, stw, local>>

-----------------------------------------------------------------------------
(* What a mutator does.                                                    *)

\* Call DoEnterSaferegion for the given reason.
Enter(m, why) ==
    /\ ret' = [ret EXCEPT ![m] = why]
    /\ Goto(m, "enter_inc")

\* Call DoLeaveSaferegion for the given reason.
Leave(m, why) ==
    /\ ret' = [ret EXCEPT ![m] = why]
    /\ Goto(m, "leave_dec")

\* Mutant: the list is changed without its lock.
ListGuardIgnored == TRUE

\* AddMutator and RemoveMutator block while the list is locked.
ListGuard == listLock = NoOwner

InitYieldpoint(m) ==
    /\ pc[m] = "outside"
    /\ ListGuard
    /\ mutatorList' = mutatorList \cup {m}
    /\ Enter(m, "native")
    /\ UNCHANGED <<instance, locks, stw, inSaferegion, state, entered, shouldLeave>>

\* FiniYieldpoint: the saferegion is left with the list locked.
FiniYieldpoint(m) ==
    /\ pc[m] = "native"
    /\ ListGuard
    /\ listLock' = m
    /\ mutatorList' = mutatorList \ {m}
    /\ Leave(m, "fini")
    /\ UNCHANGED <<instance, stwMutex, stwDepth, threadListLock, stw,
                   inSaferegion, state, entered, shouldLeave>>

FiniUnlock(m) ==
    /\ pc[m] = "fini_unlock"
    /\ listLock' = NoOwner
    /\ Goto(m, "outside")
    /\ UNCHANGED <<instance, mutatorList, stwMutex, stwDepth, threadListLock,
                   stw, inSaferegion, local>>

\* MRT_EnterSaferegion before a native call
EnterSaferegion(m) ==
    /\ pc[m] = "managed"
    /\ ~inSaferegion[m]
    /\ Enter(m, "native")
    /\ UNCHANGED <<instance, mutatorList, locks, stw, inSaferegion, state, entered, shouldLeave>>

\* MRT_LeaveSaferegion after a native call
LeaveSaferegion(m) ==
    /\ pc[m] = "native"
    /\ inSaferegion[m]
    /\ Leave(m, "managed")
    /\ UNCHANGED <<instance, mutatorList, locks, stw, inSaferegion, state, entered, shouldLeave>>

\* A yieldpoint reads the polling page and faults: YieldpointSignalHandler
\* redirects to MRT_YieldpointHandler, which enters and leaves.
Yieldpoint(m) ==
    /\ pc[m] = "managed"
    /\ ~pageReadable
    /\ ~inSaferegion[m]
    /\ Enter(m, "yield")
    /\ UNCHANGED <<instance, mutatorList, locks, stw, inSaferegion, state, entered, shouldLeave>>

\* The embedding runtime uses its thread list lock from native code.
RuntimeLock(m) ==
    /\ pc[m] = "native" /\ threadListLock = NoOwner
    /\ threadListLock' = m
    /\ Goto(m, "native_tl")
    /\ UNCHANGED <<instance, mutatorList, listLock, stwMutex, stwDepth, stw,
                   inSaferegion, local>>

RuntimeUnlock(m) ==
    /\ pc[m] = "native_tl"
    /\ threadListLock' = NoOwner
    /\ Goto(m, "native")
    /\ UNCHANGED <<instance, mutatorList, listLock, stwMutex, stwDepth, stw,
                   inSaferegion, local>>

-----------------------------------------------------------------------------
(* StopTheWorld and WaitForAllMutatorsStopped                              *)

\* An active mutator enters the saferegion before it competes for stwMutex.
StopTheWorld(t) ==
    /\ pc[t] \in {"managed", "native", "idle", "held"}
    /\ IF t \in mutatorList /\ ~inSaferegion[t]
       THEN entered' = [entered EXCEPT ![t] = TRUE] /\ Enter(t, "stw")
       ELSE entered' = [entered EXCEPT ![t] = FALSE] /\ Goto(t, "stw_mutex") /\ UNCHANGED ret
    /\ UNCHANGED <<instance, mutatorList, locks, stw, inSaferegion, state, shouldLeave>>

\* stwMutex is recursive.
LockStwMutex(t) ==
    /\ stwMutex \in {NoOwner, t}
    /\ stwMutex' = t
    /\ stwDepth' = stwDepth + 1

UnlockStwMutex(t) ==
    /\ stwDepth' = stwDepth - 1
    /\ stwMutex' = IF stwDepth = 1 THEN NoOwner ELSE t

StwMutexLock(t) ==
    /\ pc[t] = "stw_mutex"
    /\ LockStwMutex(t)
    /\ Goto(t, "stw_threads")
    /\ UNCHANGED <<instance, mutatorList, listLock, threadListLock, stw, inSaferegion, local>>

\* The successful turn of the TryAcquireThreadListLock loop.
StwThreadListLock(t) ==
    /\ pc[t] = "stw_threads"
    /\ threadListLock = NoOwner
    /\ threadListLock' = t
    /\ Goto(t, "stw_list")
    /\ UNCHANGED <<instance, mutatorList, listLock, stwMutex, stwDepth, stw, inSaferegion, local>>

\* Mutant: the answer of an earlier caller is kept.
RememberCallerSticky(t) == stateChanged' = (stateChanged \/ entered[t])

\* The region the caller came from, for its StartTheWorld.
RememberCaller(t) == stateChanged' = entered[t]

\* The successful turn of the TryLock loop; from here on the list is fixed.
StwListLock(t) ==
    /\ pc[t] = "stw_list"
    /\ listLock = NoOwner
    /\ listLock' = t
    /\ RememberCaller(t)
    /\ Goto(t, IF Cardinality(mutatorList) = 0 THEN "stw_done" ELSE "stw_pending")
    /\ UNCHANGED <<instance, mutatorList, stwMutex, stwDepth, threadListLock,
                   worldStopped, pageReadable, inSaferegion, local>>

StwSetPending(t) ==
    /\ pc[t] = "stw_pending"
    /\ SetPendingCount(Cardinality(mutatorList))
    /\ Goto(t, "stw_page")
    /\ UNCHANGED <<mutatorList, locks, stw, inSaferegion, local>>

SetPollingPageUnreadable(t) ==
    /\ pc[t] = "stw_page"
    /\ pageReadable' = FALSE
    /\ Goto(t, "stw_load")
    /\ UNCHANGED <<instance, mutatorList, locks, worldStopped, stateChanged, inSaferegion, local>>

\* One turn of the wait loop up to its futex call.
StwLoad(t) ==
    /\ pc[t] = "stw_load"
    /\ state' = [state EXCEPT ![t] = IF AllMutatorStopped(instance) THEN NoState ELSE instance]
    /\ Goto(t, IF instance.pendingCount < instance.saferegionCount THEN "fatal"
               ELSE IF AllMutatorStopped(instance) THEN "stw_done" ELSE "stw_wait")
    /\ UNCHANGED <<instance, mutatorList, locks, stw, inSaferegion, ret, entered, shouldLeave>>

\* futex(&saferegionCount, FUTEX_WAIT, curNum, timeout)
StwWait(t) ==
    /\ pc[t] = "stw_wait"
    /\ LET curNum == state[t].saferegionCount
       IN  Goto(t, IF instance.saferegionCount = curNum THEN "stw_blocked" ELSE "stw_load")
    /\ UNCHANGED <<instance, mutatorList, locks, stw, inSaferegion, local>>

\* ETIMEDOUT or EINTR
StwTimeout(t) ==
    /\ pc[t] = "stw_blocked"
    /\ Goto(t, "stw_load")
    /\ UNCHANGED <<instance, mutatorList, locks, stw, inSaferegion, local>>

StwDone(t) ==
    /\ pc[t] = "stw_done"
    /\ worldStopped' = TRUE
    /\ Goto(t, "stopped")
    /\ UNCHANGED <<instance, mutatorList, locks, stateChanged, pageReadable, inSaferegion, local>>

-----------------------------------------------------------------------------
(* StartTheWorld                                                           *)

StartTheWorld(t) ==
    /\ pc[t] = "stopped"
    /\ shouldLeave' = [shouldLeave EXCEPT ![t] = stateChanged]
    /\ worldStopped' = FALSE
    /\ Goto(t, "start_page")
    /\ UNCHANGED <<instance, mutatorList, locks, stateChanged, pageReadable,
                   inSaferegion, ret, state, entered>>

SetPollingPageReadable(t) ==
    /\ pc[t] = "start_page"
    /\ pageReadable' = TRUE
    /\ Goto(t, "start_pending")
    /\ UNCHANGED <<instance, mutatorList, locks, worldStopped, stateChanged, inSaferegion, local>>

StartClearPending(t) ==
    /\ pc[t] = "start_pending"
    /\ SetPendingCount(0)
    /\ Goto(t, "start_wake")
    /\ UNCHANGED <<mutatorList, locks, stw, inSaferegion, local>>

StartWake(t) ==
    /\ pc[t] = "start_wake"
    /\ WakeMutators(t, "start_list")
    /\ UNCHANGED <<instance, mutatorList, locks, stw, inSaferegion, local>>

StartListUnlock(t) ==
    /\ pc[t] = "start_list"
    /\ listLock' = NoOwner
    /\ Goto(t, "start_threads")
    /\ UNCHANGED <<instance, mutatorList, stwMutex, stwDepth, threadListLock, stw, inSaferegion, local>>

StartThreadListUnlock(t) ==
    /\ pc[t] = "start_threads"
    /\ threadListLock' = NoOwner
    /\ Goto(t, "start_mutex")
    /\ UNCHANGED <<instance, mutatorList, listLock, stwMutex, stwDepth, stw, inSaferegion, local>>

\* A mutator that StopTheWorld() moved into the saferegion leaves it again.
StartMutexUnlock(t) ==
    /\ pc[t] = "start_mutex"
    /\ UnlockStwMutex(t)
    /\ IF t \in mutatorList /\ shouldLeave[t] /\ inSaferegion[t]
       THEN Leave(t, "managed")
       ELSE /\ Goto(t, IF t \in Mutators THEN "native"
                       ELSE IF stwDepth > 1 THEN "held" ELSE "idle")
            /\ UNCHANGED ret
    /\ entered' = [entered EXCEPT ![t] = FALSE]
    /\ shouldLeave' = [shouldLeave EXCEPT ![t] = FALSE]
    /\ UNCHANGED <<instance, mutatorList, listLock, threadListLock, stw, inSaferegion, state>>

-----------------------------------------------------------------------------
(* ScopedLockStopTheWorld: a collection keeps stwMutex across its pauses.  *)

LockStopTheWorld(t) ==
    /\ pc[t] = "idle"
    /\ LockStwMutex(t)
    /\ Goto(t, "held")
    /\ UNCHANGED <<instance, mutatorList, listLock, threadListLock, stw, inSaferegion, local>>

UnlockStopTheWorld(t) ==
    /\ pc[t] = "held"
    /\ UnlockStwMutex(t)
    /\ Goto(t, "idle")
    /\ UNCHANGED <<instance, mutatorList, listLock, threadListLock, stw, inSaferegion, local>>

-----------------------------------------------------------------------------
DoEnterSaferegion(m) == EnterInc(m) \/ EnterFlag(m) \/ EnterWake(m)

LeaveSaferegionSlowPath(m) == SlowInc(m) \/ SlowWake(m) \/ SlowWait(m) \/ SlowDec(m)

DoLeaveSaferegion(m) ==
    LeaveDec(m) \/ LeaveSaferegionSlowPath(m) \/ LeaveFlag(m) \/ FiniUnlock(m)

MutatorCall(m) ==
    \/ InitYieldpoint(m) \/ FiniYieldpoint(m) \/ EnterSaferegion(m)
    \/ LeaveSaferegion(m) \/ Yieldpoint(m) \/ RuntimeLock(m) \/ RuntimeUnlock(m)

WaitForAllMutatorsStopped(t) == StwLoad(t) \/ StwWait(t) \/ StwDone(t)

StopSteps(t) ==
    \/ StwMutexLock(t) \/ StwThreadListLock(t) \/ StwListLock(t)
    \/ StwSetPending(t) \/ SetPollingPageUnreadable(t)
    \/ WaitForAllMutatorsStopped(t)

StartSteps(t) ==
    \/ StartTheWorld(t) \/ SetPollingPageReadable(t) \/ StartClearPending(t)
    \/ StartWake(t) \/ StartListUnlock(t) \/ StartThreadListUnlock(t)
    \/ StartMutexUnlock(t)

\* Everything but waits that end without a wake-up.
Steady ==
    \/ \E m \in Mutators : DoEnterSaferegion(m) \/ DoLeaveSaferegion(m) \/ MutatorCall(m)
    \/ \E t \in Threads : StopTheWorld(t) \/ StopSteps(t) \/ StartSteps(t)
    \/ \E g \in GCThreads : LockStopTheWorld(g) \/ UnlockStopTheWorld(g)

Next ==
    \/ Steady
    \/ \E m \in Mutators : SlowInterrupted(m)
    \/ \E t \in Threads : StwTimeout(t)

Spec == Init /\ [][Next]_vars

\* Fairness: a thread inside one of the protocol's procedures keeps being
\* scheduled; compiled code keeps reaching yieldpoints; locks and TryLock loops
\* are not starved; a collection has finitely many pauses.  Nobody is assumed
\* to attach, to detach, to call or to return from native code.
LockSteps(t) == StwMutexLock(t) \/ StwThreadListLock(t) \/ StwListLock(t)

StepsOnItsOwn(t) ==
    \/ StwSetPending(t) \/ SetPollingPageUnreadable(t)
    \/ WaitForAllMutatorsStopped(t) \/ StartSteps(t)
    \/ /\ t \in Mutators
       /\ \/ DoEnterSaferegion(t) \/ DoLeaveSaferegion(t)
          \/ Yieldpoint(t) \/ RuntimeUnlock(t)

Fairness ==
    /\ \A t \in Threads : WF_vars(StepsOnItsOwn(t)) /\ SF_vars(LockSteps(t))
    /\ \A g \in GCThreads : SF_vars(UnlockStopTheWorld(g))

\* Liveness must not lean on time-outs or on interrupted waits to repair a lost
\* wake-up, and a mutator interrupted forever need not make progress: the
\* liveness properties are about behaviours without either.
LiveSpec == Init /\ [][Steady]_vars /\ Fairness

-----------------------------------------------------------------------------
(* Properties.                                                             *)

\* Type invariant.  The counters are subtracted from with fetch_sub on one
\* 64-bit word: a count below zero would borrow from pendingCount, so that
\* saferegionCount is a natural number is not a matter of its declaration.
TypeOK ==
    /\ instance \in SaferegionState
    /\ mutatorList \subseteq Mutators
    /\ listLock \in Threads \cup {NoOwner}
    /\ stwMutex \in Threads \cup {NoOwner}
    /\ stwDepth \in Nat
    /\ threadListLock \in Threads \cup {NoOwner}
    /\ worldStopped \in BOOLEAN /\ stateChanged \in BOOLEAN /\ pageReadable \in BOOLEAN
    /\ inSaferegion \in [Mutators -> BOOLEAN]
    /\ pc \in [Threads -> Labels]
    /\ ret \in [Mutators -> {"native", "managed", "yield", "stw", "fini"}]
    /\ state \in [Threads -> SaferegionState]
    /\ entered \in [Threads -> BOOLEAN]
    /\ shouldLeave \in [Threads -> BOOLEAN]

\* A listed mutator at one of these labels is outside the saferegion: it runs
\* managed code or is committed to doing so without another check.
RunningPcs == {"managed", "enter_inc", "leave_flag"}
Running == {m \in mutatorList : pc[m] \in RunningPcs}

\* While WorldStopped() answers true, no mutator of the list is outside the
\* saferegion, whatever it does to enter, leave, attach or detach meanwhile
\* (StopTheWorld, LeaveSaferegionSlowPath).
StoppedMeansParked == worldStopped => Running = {}

\* WaitForAllMutatorsStopped never loads a saferegionCount above pendingCount,
\* its LOG(FATAL) "Incorrect SaferegionState!".
NoFatal == \A t \in Threads : pc[t] # "fatal"

\* FiniYieldpoint leaves the saferegion with the mutator list locked; it never
\* meets a pending stop there, which would block it with the lock held.
FiniNeverBlocks == \A m \in Mutators : pc[m] \in SlowPcs => ret[m] # "fini"

\* saferegionStateChanged is one global for all callers of StopTheWorld; while
\* a thread is between StopTheWorld and the end of StartTheWorld it is still
\* the caller's own, so StartTheWorld puts the caller back where it was.
RestoresCaller ==
    \A t \in Threads :
        /\ pc[t] \in StopPcs \cup {"stopped"} => stateChanged = entered[t]
        /\ pc[t] \in StartPcs \cup {"start_threads", "start_mutex"}
              => shouldLeave[t] = entered[t]

\* No wake-up is lost.  A mutator still blocked although no stop is pending is
\* about to be woken by StartTheWorld, and a stopper blocked although the last
\* mutator has arrived is about to be woken by that mutator.
NoLostWakeup ==
    /\ (\E m \in Mutators : pc[m] = "slow_blocked") /\ instance.pendingCount = 0
         => \E t \in Threads : pc[t] = "start_wake"
    /\ (\E t \in Threads : pc[t] = "stw_blocked") /\ AllMutatorStopped(instance)
         => \E m \in Mutators : \/ pc[m] \in {"enter_wake", "slow_wake"}
                                \/ pc[m] = "enter_flag" /\ LastToEnter(state[m])

\* The number of mutators published as pendingCount stays right: nobody is
\* added to or removed from the list while a stop is pending (AddMutator,
\* RemoveMutator).
ListFixedWhilePending == [][instance.pendingCount # 0 => mutatorList' = mutatorList]_vars

\* A thread that asks for a stop gets it, without relying on the time-out of
\* the futex wait (StopTheWorld, WaitForAllMutatorsStopped).
StopCompletes == \A t \in Threads : pc[t] = "stw_mutex" ~> pc[t] = "stopped"

\* A mutator blocked in LeaveSaferegionSlowPath is woken, without relying on
\* interrupted waits (StartTheWorld).
BlockedIsWoken == \A m \in Mutators : pc[m] = "slow_blocked" ~> pc[m] # "slow_blocked"

\* What stop-the-world promises, stated without counters, futexes or locks.
Abstract == INSTANCE StopWorld WITH running <- Running, stopped <- worldStopped

\* The protocol implements it: nobody leaves the saferegion in a stopped world,
\* and the world is only stopped when everybody is in.
Refinement == Abstract!Spec

-----------------------------------------------------------------------------
(* The inductive invariant of the proofs in SafeRegionProofs.              *)

\* A mutator contributes to saferegionCount between its increment and its
\* decrement, that is, except at these labels.
UncountedPcs == RunningPcs \cup {"outside", "slow_inc", "fini_unlock"}
Counted == {m \in Mutators : pc[m] \notin UncountedPcs}

\* Where pendingCount is the size of the list, and where, from the moment the
\* counters were seen equal, nobody can get out of the saferegion.
ParkedPcs  == {"stw_done", "stopped", "start_page", "start_pending"}
PendingPcs == {"stw_page"} \cup WaitPcs \cup ParkedPcs

Finishing(t) == t \in Mutators /\ ret[t] = "fini" /\ pc[t] \in LeavePcs
HoldsList(t) == pc[t] \in StopPcs \cup {"stopped"} \cup StartPcs \/ Finishing(t)
HoldsStw(t) == pc[t] \in StopPcs \cup {"stopped"} \cup StartPcs
                    \cup {"stw_threads", "stw_list", "start_threads", "start_mutex", "held"}

\* saferegionCount counts.
CountInv == instance.saferegionCount = Cardinality(Counted)

\* The list lock excludes stoppers and finishing mutators from one another,
\* and stwMutex stoppers from one another.
LockInv ==
    /\ \A t \in Threads : HoldsList(t) => listLock = t
    /\ \A t \in Threads : HoldsStw(t) => stwMutex = t /\ stwDepth > 0

\* pendingCount is the size of the list during a stop, and 0 otherwise.
PendingInv ==
    /\ (\E t \in Threads : pc[t] \in PendingPcs)
         => instance.pendingCount = Cardinality(mutatorList)
    /\ instance.pendingCount # 0 => \E t \in Threads : pc[t] \in PendingPcs

\* Who is in the list.
MemberInv ==
    \A m \in Mutators :
        /\ m \in mutatorList <=> pc[m] # "outside" /\ ~Finishing(m)
        /\ pc[m] = "fini_unlock" => ret[m] = "fini"

\* The inSaferegion flag follows the program counter.
FlagInv ==
    \A m \in Mutators :
        inSaferegion[m] <=> pc[m] \notin {"outside", "managed", "enter_inc",
                                         "enter_flag", "fini_unlock"}

\* A stopped world, from the moment the counters were seen equal.
ParkedInv ==
    /\ (\E t \in Threads : pc[t] \in ParkedPcs) => Running = {}
    /\ worldStopped => \E t \in Threads : pc[t] = "stopped"

IInv ==
    /\ TypeOK /\ CountInv /\ LockInv /\ PendingInv /\ MemberInv /\ FlagInv
    /\ FiniNeverBlocks /\ NoFatal /\ ParkedInv
=============================================================================
