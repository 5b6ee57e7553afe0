------------------------------ MODULE GCRequest ------------------------------
(***************************************************************************)
(* How collections are requested and served (compiler-rt: task_queue.h,    *)
(* collector_tracing.cpp).                                                 *)
(*                                                                         *)
(* Blocking requests go to a FIFO queue under taskQueueLock and carry an   *)
(* index; the requester waits until finishedGcIndex has reached it.        *)
(* Non-blocking requests set a bit in one atomic word, without a lock.     *)
(* The GC thread serves the FIFO queue first and then the lowest bit, and  *)
(* waits for a second when there is neither.                               *)
(*                                                                         *)
(* A critical section of taskQueueLock is one action, except where the     *)
(* lock-free word can change in the middle of one.                         *)
(***************************************************************************)
EXTENDS Integers, Sequences, FiniteSets, FiniteSetsExt

CONSTANTS Requesters,     \* threads that request collections
          Blocking,       \* reasons [B]: wait for the collection
          LiteBlocking,   \* reasons [LB]: wait for a while
          NonBlocking,    \* reasons [NB]: do not wait
          Ignorable,      \* reasons that are dropped when too frequent
          EarlyRequests,  \* may requests come before the GC thread's Init()?
          MaxIndex        \* bound on queueSyncIndex

Reasons == Blocking \cup LiteBlocking \cup NonBlocking

kGCReasonMax     == 9
kGCReasonForceGC == 3
kGCReasonHeu     == 5

ASSUME ReasonAssumption ==
    /\ Reasons \subseteq 0..kGCReasonMax - 1
    /\ Blocking \cap LiteBlocking = {} /\ Blocking \cap NonBlocking = {}
    /\ LiteBlocking \cap NonBlocking = {}
    /\ Ignorable \subseteq Reasons
    /\ EarlyRequests \in BOOLEAN
    /\ MaxIndex \in Nat \ {0}

VARIABLES
    queueSyncIndex,   \* TaskQueue::queueSyncIndex
    syncTaskQueue,    \* TaskQueue::syncTaskQueue
    tqWord,           \* LocklessTaskQueue::tqWord, as the set of its bits
    finishedGcIndex, isGcTriggered,
    gpc,              \* where the GC thread is
    gtask,            \* the task it executes
    timedOut,         \* its local cvResult
    rpc,              \* where each requester is
    reason,           \* what it requested
    index,            \* the index it waits for
    owed              \* whether a collection for its request has begun, or ended

queueVars == <<queueSyncIndex, syncTaskQueue, tqWord>>
gcVars    == <<finishedGcIndex, isGcTriggered, gpc, gtask, timedOut>>
reqVars   == <<rpc, reason, index, owed>>
vars      == <<queueVars, gcVars, reqVars>>

kIndexExit           == 0
kSyncIndexStartValue == 1
kAsyncIndex          == -1   \* ULONG_MAX

kPrioTimeout  == 1
kPrioInvokeGC == 2

Task(type, r, i) == [type |-> type, reason |-> r, index |-> i]
kInvalidGCReason == -1
Nothing == Task("Invalid", kInvalidGCReason, kAsyncIndex)
TaskTypes == {"Invalid", "Timeout", "Terminate", "InvokeGC"}

Init ==
    /\ queueSyncIndex \in {0, 1}   \* not initialised by a constructor
    /\ syncTaskQueue = <<>> /\ tqWord = {}
    /\ finishedGcIndex = 0 /\ isGcTriggered = FALSE
    /\ gpc = "start" /\ gtask = Nothing /\ timedOut = FALSE
    /\ rpc = [r \in Requesters |-> "run"]
    /\ reason = [r \in Requesters |-> kInvalidGCReason]
    /\ index = [r \in Requesters |-> 0]
    /\ owed = [r \in Requesters |-> "no"]

-----------------------------------------------------------------------------
(* LocklessTaskQueue                                                       *)

Push(prio)           == tqWord' = tqWord \cup {prio}
PushOverriding(prio) == tqWord' = {prio} \cup {p \in tqWord : p < prio}

FromPrio(prio) ==
    IF prio = kPrioTimeout THEN Task("Timeout", kInvalidGCReason, kAsyncIndex)
                           ELSE Task("InvokeGC", prio - kPrioInvokeGC, kAsyncIndex)

-----------------------------------------------------------------------------
(* Requests.                                                               *)

\* taskQueueLock is held by the GC thread in the middle of Dequeue().
LockFree == gpc \notin {"timeout", "pop", "block"}

\* taskQueueCondVar.notify_all()
NotifyQueue ==
    /\ gpc' = IF gpc = "waiting" THEN "dequeue" ELSE gpc
    /\ timedOut' = IF gpc = "waiting" THEN FALSE ELSE timedOut

Return(r) == rpc' = [rpc EXCEPT ![r] = "run"]

\* InvokeGC() lets the request through.
Invoke(r, why) ==
    /\ rpc[r] = "run"
    /\ EarlyRequests \/ gpc # "start"
    /\ reason' = [reason EXCEPT ![r] = why]
    /\ owed' = [owed EXCEPT ![r] = "asked"]

\* EnqueueAsync(), by RequestGCUnsafe() or RequestGCAndWait()
EnqueueAsync(r, why) ==
    /\ why \in NonBlocking
    /\ Invoke(r, why)
    /\ Push(kPrioInvokeGC + why)
    /\ rpc' = [rpc EXCEPT ![r] = "notify"]
    /\ UNCHANGED <<queueSyncIndex, syncTaskQueue, gcVars, index>>

NotifyAsync(r) ==
    /\ rpc[r] = "notify"
    /\ NotifyQueue
    /\ Return(r)
    /\ UNCHANGED <<queueVars, finishedGcIndex, isGcTriggered, gtask, reason, index, owed>>

\* Positions of queued requests for the same reason; Enqueue() joins the last one.
Same(why) == {i \in DOMAIN syncTaskQueue : syncTaskQueue[i].reason = why}

\* RequestGCAndWait() up to its wait
EnqueueSync(r, why) ==
    /\ why \in Blocking \cup LiteBlocking
    /\ LockFree
    /\ Invoke(r, why)
    /\ IF Same(why) # {}
       THEN /\ index' = [index EXCEPT ![r] = syncTaskQueue[Max(Same(why))].index]
            /\ UNCHANGED <<queueSyncIndex, syncTaskQueue, gpc, timedOut>>
       ELSE /\ queueSyncIndex < MaxIndex
            /\ queueSyncIndex' = queueSyncIndex + 1
            /\ syncTaskQueue' = Append(syncTaskQueue, Task("InvokeGC", why, queueSyncIndex'))
            /\ index' = [index EXCEPT ![r] = queueSyncIndex']
            /\ NotifyQueue
    /\ rpc' = [rpc EXCEPT ![r] = IF why \in LiteBlocking THEN "lite" ELSE "wait"]
    /\ UNCHANGED <<tqWord, finishedGcIndex, isGcTriggered, gtask>>

\* Mutant: a request takes the collection before its own for its own.
FinishedOffByOne(i) == finishedGcIndex + 1 >= i \/ finishedGcIndex = kIndexExit

\* The predicate of the wait
Finished(i) == finishedGcIndex >= i \/ finishedGcIndex = kIndexExit

\* One evaluation of the predicate; a thread at "blocked" waits for gcFinishedCondVar.
WaitGC(r) ==
    /\ rpc[r] = "wait"
    /\ rpc' = [rpc EXCEPT ![r] = IF Finished(index[r]) THEN "returned" ELSE "blocked"]
    /\ UNCHANGED <<queueVars, gcVars, reason, index, owed>>

LeaveRequest(r) ==
    /\ rpc[r] = "returned"
    /\ Return(r)
    /\ owed' = [owed EXCEPT ![r] = "no"]
    /\ UNCHANGED <<queueVars, gcVars, reason, index>>

\* WaitGCStoppedLite() returns with the next notification or after its time-out.
LeaveLite(r) ==
    /\ rpc[r] = "lite"
    /\ Return(r)
    /\ UNCHANGED <<queueVars, gcVars, reason, index, owed>>

\* InvokeGC() of a request that is too frequent: OnUnsuccessfulInvoke()
IgnoredInvoke(r, why) ==
    /\ why \in Ignorable /\ rpc[r] = "run"
    /\ EarlyRequests \/ gpc # "start"
    /\ why # kGCReasonHeu /\ why \notin NonBlocking /\ isGcTriggered
    /\ rpc' = [rpc EXCEPT ![r] = "stop_enter"]
    /\ UNCHANGED <<queueVars, gcVars, reason, index, owed>>

\* WaitGCStopped() up to its wait
LoadWaitIndex(r) ==
    /\ rpc[r] = "stop_enter"
    /\ index' = [index EXCEPT ![r] = finishedGcIndex]
    /\ rpc' = [rpc EXCEPT ![r] = "stopping"]
    /\ UNCHANGED <<queueVars, gcVars, reason, owed>>

WaitGCStopped(r) ==
    /\ rpc[r] = "stopping"
    /\ rpc' = [rpc EXCEPT ![r] =
                  IF ~isGcTriggered \/ index[r] # finishedGcIndex \/ finishedGcIndex = kIndexExit
                  THEN "run" ELSE "stopping_blocked"]
    /\ UNCHANGED <<queueVars, gcVars, reason, index, owed>>

\* StopThread(), called once, sends the terminate task, which joins no other.
StopThread ==
    /\ LockFree /\ gpc \notin {"exit", "exited"}
    /\ EarlyRequests \/ gpc # "start"
    /\ gtask.type # "Terminate"
    /\ queueSyncIndex < MaxIndex
    /\ \A i \in DOMAIN syncTaskQueue : syncTaskQueue[i].type # "Terminate"
    /\ queueSyncIndex' = queueSyncIndex + 1
    /\ syncTaskQueue' = Append(syncTaskQueue, Task("Terminate", kInvalidGCReason, queueSyncIndex'))
    /\ NotifyQueue
    /\ UNCHANGED <<tqWord, finishedGcIndex, isGcTriggered, gtask, reqVars>>

-----------------------------------------------------------------------------
(* The GC thread.                                                          *)

\* RunTaskLoop() up to LoopDrainTaskQueue()
RunTaskLoop ==
    /\ gpc = "start"
    /\ finishedGcIndex' = kSyncIndexStartValue
    /\ queueSyncIndex' = kSyncIndexStartValue
    /\ gpc' = "dequeue"
    /\ UNCHANGED <<syncTaskQueue, tqWord, isGcTriggered, gtask, timedOut, reqVars>>

\* Dequeue() returns task t.
Execute(t) == gtask' = t /\ gpc' = "execute" /\ timedOut' = FALSE

DequeueSync ==
    /\ gpc = "dequeue"
    /\ IF syncTaskQueue # <<>>
       THEN Execute(Head(syncTaskQueue)) /\ syncTaskQueue' = Tail(syncTaskQueue)
       ELSE /\ gpc' = IF timedOut THEN "timeout" ELSE "pop"
            /\ UNCHANGED <<syncTaskQueue, gtask, timedOut>>
    /\ UNCHANGED <<queueSyncIndex, tqWord, finishedGcIndex, isGcTriggered, reqVars>>

PushTimeout ==
    /\ gpc = "timeout"
    /\ PushOverriding(kPrioTimeout)
    /\ gpc' = "pop"
    /\ UNCHANGED <<queueSyncIndex, syncTaskQueue, finishedGcIndex, isGcTriggered, gtask, timedOut,
                   reqVars>>

Pop ==
    /\ gpc = "pop"
    /\ IF tqWord # {}
       THEN Execute(FromPrio(Min(tqWord))) /\ tqWord' = tqWord \ {Min(tqWord)}
       ELSE gpc' = "block" /\ UNCHANGED <<tqWord, gtask, timedOut>>
    /\ UNCHANGED <<queueSyncIndex, syncTaskQueue, finishedGcIndex, isGcTriggered, reqVars>>

\* wait_for() releases taskQueueLock.
Block ==
    /\ gpc = "block"
    /\ gpc' = "waiting"
    /\ UNCHANGED <<queueVars, finishedGcIndex, isGcTriggered, gtask, timedOut, reqVars>>

WaitTimesOut ==
    /\ gpc = "waiting"
    /\ gpc' = "dequeue" /\ timedOut' = TRUE
    /\ UNCHANGED <<queueVars, finishedGcIndex, isGcTriggered, gtask, reqVars>>

\* A collection for reason why begins: it serves who asked for it before.
BeginCollection(why) ==
    /\ isGcTriggered' = TRUE
    /\ owed' = [r \in Requesters |->
                  IF owed[r] = "asked" /\ (reason[r] = why \/ reason[r] \in NonBlocking)
                  THEN "begun" ELSE owed[r]]
    /\ gpc' = "collect"

\* GCTask::Execute() of an InvokeGC task
ExecuteInvokeGC ==
    /\ gpc = "execute" /\ gtask.type = "InvokeGC"
    /\ BeginCollection(gtask.reason)
    /\ UNCHANGED <<queueVars, finishedGcIndex, gtask, timedOut, rpc, reason, index>>

\* GCTask::Execute() of a Timeout task: a forced collection if epoch statistics
\* are enabled and the last collection is long enough ago, and else nothing.
ExecuteTimeout(force) ==
    /\ gpc = "execute" /\ gtask.type = "Timeout"
    /\ IF force THEN BeginCollection(kGCReasonForceGC)
                ELSE gpc' = "dequeue" /\ UNCHANGED <<isGcTriggered, owed>>
    /\ UNCHANGED <<queueVars, finishedGcIndex, gtask, timedOut, rpc, reason, index>>

\* Mutant: only requesters with an index are notified.
NotifyWaitersOfIndex ==
    rpc' = [r \in Requesters |-> IF rpc[r] = "blocked" THEN "wait" ELSE rpc[r]]

\* gcFinishedCondVar.notify_all()
NotifyWaiters ==
    rpc' = [r \in Requesters |-> CASE rpc[r] = "blocked" -> "wait"
                                   [] rpc[r] = "stopping_blocked" -> "stopping"
                                   [] OTHER -> rpc[r]]

NotifyGCFinished(gcIndex) ==
    /\ isGcTriggered' = FALSE
    /\ finishedGcIndex' = IF gcIndex # kAsyncIndex THEN gcIndex ELSE finishedGcIndex
    /\ NotifyWaiters

\* RunFullCollection() and its PostMSHook()
Collect ==
    /\ gpc = "collect"
    /\ NotifyGCFinished(gtask.index)
    /\ owed' = [r \in Requesters |-> IF owed[r] = "begun" THEN "ended" ELSE owed[r]]
    /\ gtask' = Nothing
    /\ gpc' = "dequeue"
    /\ UNCHANGED <<queueVars, timedOut, reason, index>>

\* The terminate task ends the loop: DeInit()
ExecuteTerminate ==
    /\ gpc = "execute" /\ gtask.type = "Terminate"
    /\ syncTaskQueue' = <<>> /\ tqWord' = {}
    /\ gpc' = "exit"
    /\ UNCHANGED <<queueSyncIndex, finishedGcIndex, isGcTriggered, gtask, timedOut, reqVars>>

\* Mutant: the exiting GC thread reports no index.
ExitIndexAsync == kAsyncIndex

ExitIndex == kIndexExit

GCThreadExit ==
    /\ gpc = "exit"
    /\ NotifyGCFinished(ExitIndex)
    /\ gtask' = Nothing
    /\ gpc' = "exited"
    /\ UNCHANGED <<queueVars, timedOut, reason, index, owed>>

\* The rest of the process goes on without a GC thread.
Exited == gpc = "exited" /\ UNCHANGED vars

-----------------------------------------------------------------------------
GCSteps ==
    \/ RunTaskLoop \/ DequeueSync \/ PushTimeout \/ Pop \/ Block \/ WaitTimesOut
    \/ ExecuteInvokeGC \/ (\E force \in BOOLEAN : ExecuteTimeout(force))
    \/ Collect \/ ExecuteTerminate \/ GCThreadExit

RequesterSteps(r) ==
    \/ WaitGC(r) \/ LeaveRequest(r) \/ LeaveLite(r) \/ NotifyAsync(r)
    \/ LoadWaitIndex(r) \/ WaitGCStopped(r)

Next ==
    \/ GCSteps \/ StopThread \/ Exited
    \/ \E r \in Requesters :
          \/ RequesterSteps(r)
          \/ \E why \in Reasons : EnqueueAsync(r, why) \/ EnqueueSync(r, why) \/ IgnoredInvoke(r, why)

Spec == Init /\ [][Next]_vars

\* Fairness: the GC thread and a thread inside a request keep being scheduled,
\* collections end and a wait_for() times out.
Fairness == WF_vars(GCSteps) /\ \A r \in Requesters : WF_vars(RequesterSteps(r))

LiveSpec == Spec /\ Fairness

-----------------------------------------------------------------------------
(* Properties.                                                             *)

QueueTypeOK ==
    /\ queueSyncIndex \in 0..MaxIndex
    /\ \A i \in DOMAIN syncTaskQueue : /\ syncTaskQueue[i].type \in {"InvokeGC", "Terminate"}
                                       /\ syncTaskQueue[i].index \in 1..MaxIndex
    /\ tqWord \subseteq {kPrioTimeout} \cup {kPrioInvokeGC + w : w \in NonBlocking}

GCTypeOK ==
    /\ finishedGcIndex \in 0..MaxIndex /\ isGcTriggered \in BOOLEAN /\ timedOut \in BOOLEAN
    /\ gpc \in {"start", "dequeue", "timeout", "pop", "block", "waiting", "execute", "collect",
                "exit", "exited"}
    /\ gtask.type \in TaskTypes /\ gtask.reason \in Reasons \cup {kInvalidGCReason}
    /\ gtask.index \in -1..MaxIndex
    /\ gtask.type = "InvokeGC" /\ gtask.index = kAsyncIndex => gtask.reason \in NonBlocking

RequesterTypeOK ==
    /\ rpc \in [Requesters -> {"run", "notify", "wait", "blocked", "returned", "lite", "stop_enter",
                               "stopping", "stopping_blocked"}]
    /\ reason \in [Requesters -> Reasons \cup {kInvalidGCReason}]
    /\ index \in [Requesters -> 0..MaxIndex]
    /\ owed \in [Requesters -> {"no", "asked", "begun", "ended"}]

\* Variables have their types; what comes out of the task word is a non-blocking
\* reason (GCTask::FromPrio, GetPrio).
TypeOK == QueueTypeOK /\ GCTypeOK /\ RequesterTypeOK

\* A blocking request returns only after a collection that was made for its
\* reason and began after the request has ended, or after the GC thread is
\* gone, also when it joins a queued request (RequestGCAndWait, Enqueue).
ServedOnReturn ==
    \A r \in Requesters : rpc[r] = "returned" => owed[r] = "ended" \/ gpc = "exited"

\* Requesters are released, by the end of their collection or of the GC
\* thread (NotifyGCFinished, RequestGCAndWait).
WaitersReleased == \A r \in Requesters : rpc[r] = "blocked" ~> rpc[r] = "returned"

\* A thread whose request was dropped waits for the collection that runs; it is
\* released unless collections follow one another for ever, each one begun
\* before the thread has looked (WaitGCStopped, NotifyGCFinished).
StoppersReleased ==
    <>[]~isGcTriggered
        => \A r \in Requesters : rpc[r] = "stopping_blocked" ~> rpc[r] = "run"

\* "on timeout, the force gc removes all other gcs" (GCTask::IsOverriding): a
\* non-blocking request is followed by a collection, its own or the forced one.
AsyncServed ==
    \A r \in Requesters :
        owed[r] = "asked" /\ reason[r] \in NonBlocking
            ~> owed[r] # "asked" \/ gpc = "exited"
=============================================================================
