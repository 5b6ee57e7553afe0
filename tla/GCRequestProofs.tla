--------------------------- MODULE GCRequestProofs ---------------------------
(***************************************************************************)
(* Proofs about GCRequest, for every set of requesters and of reasons and  *)
(* every bound on the index, when requests come after the GC thread's      *)
(* Init() (with EarlyRequests the property is false).                      *)
(*                                                                         *)
(* That a blocking request returns only once it is served is not           *)
(* inductive: a requester looks at nothing but finishedGcIndex.  IInv says *)
(* why that is enough: indices grow along the queue and beyond             *)
(* finishedGcIndex, so a request whose collection has not begun is still   *)
(* in the queue, or is the task about to be executed, with an index the    *)
(* GC thread has not reached.                                              *)
(***************************************************************************)
EXTENDS GCRequest, SequenceTheorems, WellFoundedInduction, TLAPS

QueuedTasks ==
    [type : {"InvokeGC", "Terminate"}, reason : Reasons \cup {kInvalidGCReason},
     index : 1..MaxIndex]

Tasks ==
    [type : TaskTypes, reason : Reasons \cup {kInvalidGCReason}, index : -1..MaxIndex]

\* The queue holds tasks and the GC thread has one, which is the one it executes.
TasksInv ==
    /\ syncTaskQueue \in Seq(QueuedTasks)
    /\ \A i \in DOMAIN syncTaskQueue :
          syncTaskQueue[i].reason # kInvalidGCReason => syncTaskQueue[i].type = "InvokeGC"
    /\ gtask \in Tasks
    /\ gpc = "execute" => gtask.type # "Invalid" /\ gtask.index # 0

\* Before RunTaskLoop() nobody has requested anything.
StartInv ==
    gpc = "start" => /\ syncTaskQueue = <<>> /\ finishedGcIndex = 0 /\ gtask = Nothing
                     /\ \A r \in Requesters : rpc[r] = "run" /\ owed[r] = "no"

\* finishedGcIndex is kIndexExit only before the GC thread begins and after it
\* is gone.
ExitInv == finishedGcIndex = kIndexExit <=> gpc \in {"start", "exited"}

\* The indices of the tasks that are to be executed grow in the order in which
\* they will be, beyond what is finished.
OrderInv ==
    /\ gpc # "start" => finishedGcIndex <= queueSyncIndex
    /\ \A i \in DOMAIN syncTaskQueue : /\ syncTaskQueue[i].index > finishedGcIndex
                                       /\ syncTaskQueue[i].index <= queueSyncIndex
    /\ \A i, j \in DOMAIN syncTaskQueue :
          i < j => syncTaskQueue[i].index < syncTaskQueue[j].index
    /\ gpc \in {"execute", "collect"} /\ gtask.index # kAsyncIndex
          => /\ gtask.index > finishedGcIndex
             /\ gtask.index <= queueSyncIndex
             /\ \A i \in DOMAIN syncTaskQueue : syncTaskQueue[i].index > gtask.index

\* The collection for request r is still to come.
Ahead(r) ==
    \/ gpc = "exit"
    \/ gpc = "execute" /\ gtask.type = "InvokeGC"
       /\ gtask.index = index[r] /\ gtask.reason = reason[r]
    \/ \E i \in DOMAIN syncTaskQueue :
          syncTaskQueue[i].index = index[r] /\ syncTaskQueue[i].reason = reason[r]

\* Where the request of a waiting thread is.
WaitInv ==
    /\ \A r \in Requesters : owed[r] = "begun" => gpc = "collect"
    /\ \A r \in Requesters :
          rpc[r] \in {"wait", "blocked"} /\ gpc # "exited" /\ owed[r] # "ended"
             => /\ owed[r] \in {"asked", "begun"} /\ reason[r] # kInvalidGCReason
                /\ index[r] > finishedGcIndex
                /\ owed[r] = "asked" => Ahead(r)

IInv ==
    /\ TypeOK /\ TasksInv /\ StartInv /\ ExitInv /\ OrderInv /\ WaitInv /\ ServedOnReturn

\* A non-empty set of natural numbers has a least element.
LEMMA HasMin ==
    ASSUME NEW S, S \subseteq Nat, S # {}
    PROVE  \E x \in S : \A y \in S : x <= y
  <1> DEFINE R == OpToRel(<, Nat)
  <1>1. IsWellFoundedOn(R, Nat) BY NatLessThanWellFounded
  <1> HIDE DEF R
  <1>2. PICK x \in S : \A y \in S : ~(<<y, x>> \in R) BY <1>1, WFMin
  <1>3. \A m, k \in Nat : (<<k, m>> \in R) <=> k < m BY Zenon DEF R, OpToRel
  <1>4. ASSUME NEW y \in S PROVE x <= y
    <2>1. ~(y < x) BY <1>2, <1>3, Zenon
    <2>2. x \in Nat /\ y \in Nat OBVIOUS
    <2> QED BY <2>1, <2>2
  <1> QED BY <1>4

\* Min() of priorities is one of them.
LEMMA MinIn ==
    ASSUME NEW S, S \subseteq Nat, S # {}
    PROVE  Min(S) \in S
  BY HasMin DEF Min

\* Max() of positions of the queue is one of them.
LEMMA MaxIn ==
    ASSUME NEW n \in Nat, NEW S, S \subseteq 1..n, S # {}
    PROVE  Max(S) \in S
  <1> DEFINE T == {n - i : i \in S}
  <1>1. T \subseteq Nat
    <2>1. \A i \in S : n - i \in Nat OBVIOUS
    <2> QED BY <2>1
  <1>2. T # {}
    <2>1. PICK i \in S : TRUE OBVIOUS
    <2>2. n - i \in T OBVIOUS
    <2> QED BY <2>2
  <1>3. \E x \in T : \A y \in T : x <= y BY <1>1, <1>2, HasMin
  <1>4. PICK i \in S : \A y \in T : n - i <= y BY <1>3
  <1>5. ASSUME NEW y \in S PROVE i >= y
    <2>1. n - y \in T OBVIOUS
    <2>2. n - i <= n - y BY <2>1, <1>4
    <2> QED BY <2>2
  <1> QED BY <1>5 DEF Max

\* What Append() and Tail() do to the queue.
LEMMA AppendIs ==
    ASSUME NEW S, NEW q \in Seq(S), NEW e \in S
    PROVE  /\ Append(q, e) \in Seq(S)
           /\ DOMAIN q = 1..Len(q) /\ Len(q) \in Nat
           /\ DOMAIN Append(q, e) = 1..(Len(q) + 1)
           /\ \A i \in 1..Len(q) : Append(q, e)[i] = q[i]
           /\ Append(q, e)[Len(q) + 1] = e
  OBVIOUS

LEMMA TailIs ==
    ASSUME NEW S, NEW q \in Seq(S), q # <<>>
    PROVE  /\ Tail(q) \in Seq(S) /\ Head(q) = q[1] /\ q[1] \in S
           /\ DOMAIN q = 1..Len(q) /\ Len(q) \in Nat /\ 1 \in DOMAIN q
           /\ DOMAIN Tail(q) = 1..(Len(q) - 1)
           /\ \A i \in 1..(Len(q) - 1) : Tail(q)[i] = q[i + 1]
  OBVIOUS

\* What is in the queue has the types of a queued task.
LEMMA QueueElement ==
    ASSUME NEW q \in Seq(QueuedTasks)
    PROVE  \A i \in DOMAIN q : /\ q[i] \in QueuedTasks /\ q[i].type \in {"InvokeGC", "Terminate"}
                               /\ q[i].index \in 1..MaxIndex /\ q[i].index \in Nat
  <1> SUFFICES ASSUME NEW i \in DOMAIN q
               PROVE  /\ q[i] \in QueuedTasks /\ q[i].type \in {"InvokeGC", "Terminate"}
                      /\ q[i].index \in 1..MaxIndex /\ q[i].index \in Nat
    OBVIOUS
  <1>1. q[i] \in QueuedTasks OBVIOUS
  <1> QED BY <1>1, ReasonAssumption DEF QueuedTasks

\* The invalid reason of OnUnsuccessfulInvoke is not one of a request.
LEMMA ReasonOK == kInvalidGCReason \notin Reasons
  BY ReasonAssumption DEF kInvalidGCReason, kGCReasonMax

\* The invariant holds in the initial states.
LEMMA InitIInv == Init => IInv
  <1> SUFFICES ASSUME Init PROVE IInv
    OBVIOUS
  <1> USE ReasonAssumption DEF Init, Nothing, Task, kInvalidGCReason, kAsyncIndex, kIndexExit
  <1>0. isGcTriggered \in BOOLEAN /\ timedOut \in BOOLEAN BY Zenon
  <1>1. TypeOK BY <1>0 DEF TypeOK, QueueTypeOK, GCTypeOK, RequesterTypeOK, TaskTypes
  <1>2. TasksInv BY DEF TasksInv, Tasks, TaskTypes
  <1>3. StartInv /\ ExitInv BY DEF StartInv, ExitInv
  <1>4. OrderInv BY DEF OrderInv
  <1>5. WaitInv /\ ServedOnReturn BY DEF WaitInv, ServedOnReturn
  <1> QED BY <1>1, <1>2, <1>3, <1>4, <1>5 DEF IInv

\* Requests: what is queued or set in the lock-free word keeps its order.
LEMMA EnqueueAsyncInv ==
    ASSUME IInv, ~EarlyRequests, NEW r \in Requesters, NEW why \in Reasons, EnqueueAsync(r, why)
    PROVE  IInv'
  <1> USE ReasonAssumption DEF IInv, TypeOK, kIndexExit, kAsyncIndex, kInvalidGCReason,
        kSyncIndexStartValue, kPrioTimeout, kPrioInvokeGC
  <1>1. TasksInv'
    BY DEF EnqueueAsync, Invoke, Push, queueVars, gcVars, reqVars, vars, QueueTypeOK, GCTypeOK,
       RequesterTypeOK, TasksInv, Tasks, QueuedTasks, TaskTypes
  <1>2. QueueTypeOK'
    BY DEF EnqueueAsync, Invoke, Push, queueVars, gcVars, reqVars, vars, TasksInv, QueuedTasks,
       QueueTypeOK
  <1>3. GCTypeOK'
    BY DEF EnqueueAsync, Invoke, Push, queueVars, gcVars, reqVars, vars, TasksInv, GCTypeOK,
       TaskTypes
  <1>4. RequesterTypeOK'
    BY DEF EnqueueAsync, Invoke, Push, queueVars, gcVars, reqVars, vars, RequesterTypeOK,
       QueueTypeOK, GCTypeOK
  <1>5. StartInv'
    BY DEF EnqueueAsync, Invoke, Push, queueVars, gcVars, reqVars, vars, QueueTypeOK, GCTypeOK,
       RequesterTypeOK, StartInv
  <1>6. ExitInv'
    BY DEF EnqueueAsync, Invoke, Push, queueVars, gcVars, reqVars, vars, QueueTypeOK, GCTypeOK,
       RequesterTypeOK, ExitInv, TasksInv, Tasks, OrderInv, StartInv
  <1>7. OrderInv'
    BY DEF EnqueueAsync, Invoke, Push, queueVars, gcVars, reqVars, vars, QueueTypeOK, GCTypeOK,
       RequesterTypeOK, TasksInv, Tasks, OrderInv, QueuedTasks, StartInv
  <1>8. WaitInv'
    BY DEF EnqueueAsync, Invoke, Push, queueVars, gcVars, reqVars, vars, QueueTypeOK, GCTypeOK,
       RequesterTypeOK, WaitInv, Ahead, StartInv
  <1>9. ServedOnReturn'
    BY DEF EnqueueAsync, Invoke, Push, queueVars, gcVars, reqVars, vars, QueueTypeOK, GCTypeOK,
       RequesterTypeOK, ServedOnReturn, WaitInv, ExitInv, StartInv
  <1> QED BY <1>1, <1>2, <1>3, <1>4, <1>5, <1>6, <1>7, <1>8, <1>9

LEMMA NotifyAsyncInv ==
    ASSUME IInv, ~EarlyRequests, NEW r \in Requesters, NotifyAsync(r)
    PROVE  IInv'
  <1> USE ReasonAssumption DEF IInv, TypeOK, kIndexExit, kAsyncIndex, kInvalidGCReason,
        kSyncIndexStartValue, kPrioTimeout, kPrioInvokeGC
  <1>1. TasksInv'
    BY DEF NotifyAsync, NotifyQueue, Return, queueVars, gcVars, reqVars, vars, QueueTypeOK,
       GCTypeOK, RequesterTypeOK, TasksInv, Tasks, QueuedTasks, TaskTypes
  <1>2. QueueTypeOK'
    BY DEF NotifyAsync, NotifyQueue, Return, queueVars, gcVars, reqVars, vars, TasksInv,
       QueuedTasks, QueueTypeOK
  <1>3. GCTypeOK'
    BY DEF NotifyAsync, NotifyQueue, Return, queueVars, gcVars, reqVars, vars, TasksInv, GCTypeOK,
       TaskTypes
  <1>4. RequesterTypeOK'
    BY DEF NotifyAsync, NotifyQueue, Return, queueVars, gcVars, reqVars, vars, RequesterTypeOK,
       QueueTypeOK, GCTypeOK
  <1>5. StartInv'
    BY DEF NotifyAsync, NotifyQueue, Return, queueVars, gcVars, reqVars, vars, QueueTypeOK,
       GCTypeOK, RequesterTypeOK, StartInv
  <1>6. ExitInv'
    BY DEF NotifyAsync, NotifyQueue, Return, queueVars, gcVars, reqVars, vars, QueueTypeOK,
       GCTypeOK, RequesterTypeOK, ExitInv, TasksInv, Tasks, OrderInv, StartInv
  <1>7. OrderInv'
    BY DEF NotifyAsync, NotifyQueue, Return, queueVars, gcVars, reqVars, vars, QueueTypeOK,
       GCTypeOK, RequesterTypeOK, TasksInv, Tasks, OrderInv, QueuedTasks, StartInv
  <1>8. WaitInv'
    BY DEF NotifyAsync, NotifyQueue, Return, queueVars, gcVars, reqVars, vars, QueueTypeOK,
       GCTypeOK, RequesterTypeOK, WaitInv, Ahead, StartInv
  <1>9. ServedOnReturn'
    BY DEF NotifyAsync, NotifyQueue, Return, queueVars, gcVars, reqVars, vars, QueueTypeOK,
       GCTypeOK, RequesterTypeOK, ServedOnReturn, WaitInv, ExitInv, StartInv
  <1> QED BY <1>1, <1>2, <1>3, <1>4, <1>5, <1>6, <1>7, <1>8, <1>9

LEMMA EnqueueSyncInv ==
    ASSUME IInv, ~EarlyRequests, NEW r \in Requesters, NEW why \in Reasons, EnqueueSync(r, why)
    PROVE  IInv'
  <1> USE ReasonAssumption DEF IInv, TypeOK, kIndexExit, kAsyncIndex, kInvalidGCReason,
        kSyncIndexStartValue, kPrioTimeout, kPrioInvokeGC
  <1> DEFINE e == [type |-> "InvokeGC", reason |-> why, index |-> queueSyncIndex + 1]
  <1>n. ASSUME Same(why) = {}
       PROVE  /\ e \in QueuedTasks /\ syncTaskQueue' = Append(syncTaskQueue, e)
              /\ queueSyncIndex' = queueSyncIndex + 1 /\ queueSyncIndex < MaxIndex
              /\ index' = [index EXCEPT ![r] = queueSyncIndex + 1]
    BY <1>n DEF EnqueueSync, Task, QueuedTasks, QueueTypeOK, GCTypeOK, RequesterTypeOK, Reasons
  <1> HIDE DEF e
  <1>q. ASSUME Same(why) = {}
       PROVE  /\ syncTaskQueue' \in Seq(QueuedTasks)
              /\ DOMAIN syncTaskQueue = 1..Len(syncTaskQueue) /\ Len(syncTaskQueue) \in Nat
              /\ DOMAIN syncTaskQueue' = 1..(Len(syncTaskQueue) + 1)
              /\ \A i \in 1..Len(syncTaskQueue) : syncTaskQueue'[i] = syncTaskQueue[i]
              /\ syncTaskQueue'[Len(syncTaskQueue) + 1] = e
    <2>1. syncTaskQueue \in Seq(QueuedTasks) BY DEF TasksInv
    <2> QED BY SMTT(40), <2>1, <1>n, <1>q, AppendIs
  <1>s. ASSUME Same(why) # {}
       PROVE  \E m \in DOMAIN syncTaskQueue :
                 /\ syncTaskQueue[m].reason = why
                 /\ index' = [index EXCEPT ![r] = syncTaskQueue[m].index]
    <2>1. /\ Same(why) \subseteq 1..Len(syncTaskQueue) /\ Len(syncTaskQueue) \in Nat
      BY DEF Same, TasksInv
    <2>2. Max(Same(why)) \in Same(why) BY <1>s, <2>1, MaxIn
    <2> QED BY <1>s, <2>2 DEF EnqueueSync, Same
  <1>u. ASSUME Same(why) # {} PROVE UNCHANGED <<queueSyncIndex, syncTaskQueue, gpc, timedOut>>
    BY <1>u DEF EnqueueSync
  <1> HIDE DEF e
  <1>1. TasksInv'
    <2>1. CASE Same(why) = {}
      <3>1. \A i \in DOMAIN syncTaskQueue' :
               syncTaskQueue'[i].reason # kInvalidGCReason => syncTaskQueue'[i].type = "InvokeGC"
        BY <2>1, <1>q DEF TasksInv, e
      <3> QED BY <2>1, <1>q, <3>1 DEF TasksInv, EnqueueSync, NotifyQueue
    <2>2. CASE Same(why) # {}
      BY <2>2, <1>u DEF EnqueueSync, TasksInv
    <2> QED BY <2>1, <2>2
  <1>2. QueueTypeOK'
    <2>1. \A i \in DOMAIN syncTaskQueue' : /\ syncTaskQueue'[i].type \in {"InvokeGC", "Terminate"}
                                          /\ syncTaskQueue'[i].index \in 1..MaxIndex
      BY <1>1, QueueElement DEF TasksInv
    <2>2. queueSyncIndex' \in 0..MaxIndex BY <1>n, <1>u DEF QueueTypeOK
    <2>3. tqWord' = tqWord BY DEF EnqueueSync
    <2> QED BY <2>1, <2>2, <2>3 DEF QueueTypeOK
  <1>3. GCTypeOK'
    <2>0. isGcTriggered' \in BOOLEAN /\ timedOut' \in BOOLEAN
      BY Zenon DEF EnqueueSync, NotifyQueue, GCTypeOK
    <2>1. gtask'.type \in TaskTypes /\ gtask'.reason \in Reasons \cup {kInvalidGCReason}
          /\ gtask'.index \in -1..MaxIndex
      BY <1>1 DEF TasksInv, Tasks
    <2> QED BY <2>0, <2>1, ReasonAssumption DEF EnqueueSync, NotifyQueue, LockFree, GCTypeOK,
          QueuedTasks
  <1>4. RequesterTypeOK'
    <2>1. CASE Same(why) = {}
      BY <2>1, <1>n DEF EnqueueSync, Invoke, RequesterTypeOK, QueueTypeOK
    <2>2. CASE Same(why) # {}
      BY <2>2, <1>s DEF EnqueueSync, Invoke, RequesterTypeOK, QueueTypeOK
    <2> QED BY <2>1, <2>2
  <1>5. StartInv'
    BY DEF EnqueueSync, Invoke, NotifyQueue, LockFree, Task, queueVars, gcVars, reqVars, vars,
       QueueTypeOK, GCTypeOK, RequesterTypeOK, StartInv
  <1>6. ExitInv'
    BY DEF EnqueueSync, Invoke, NotifyQueue, LockFree, Task, queueVars, gcVars, reqVars, vars,
       QueueTypeOK, GCTypeOK, RequesterTypeOK, ExitInv, TasksInv, Tasks, OrderInv, StartInv
  <1>7. OrderInv'
    <2>1. CASE Same(why) = {}
      <3>1. \A i \in DOMAIN syncTaskQueue : syncTaskQueue[i].index \in Nat
        BY QueueElement DEF TasksInv
      <3>2. /\ gtask' = gtask /\ finishedGcIndex' = finishedGcIndex
            /\ (gpc = gpc' \/ (gpc = "waiting" /\ gpc' = "dequeue")) /\ gpc # "start"
        BY DEF EnqueueSync, NotifyQueue, Invoke
      <3>3. \A i \in DOMAIN syncTaskQueue' :
               \/ i \in DOMAIN syncTaskQueue /\ syncTaskQueue'[i] = syncTaskQueue[i]
               \/ /\ syncTaskQueue'[i].index = queueSyncIndex + 1
                  /\ \A j \in DOMAIN syncTaskQueue' : ~(i < j)
        BY <2>1, <1>q DEF e
      <3>4. \A i, j \in DOMAIN syncTaskQueue' :
               i < j => syncTaskQueue'[i].index < syncTaskQueue'[j].index
        BY <3>1, <3>3 DEF OrderInv, QueueTypeOK
      <3>5. /\ finishedGcIndex <= queueSyncIndex /\ finishedGcIndex \in Nat /\ queueSyncIndex \in Nat
            /\ queueSyncIndex' = queueSyncIndex + 1
        BY <2>1, <3>2, <1>n DEF OrderInv, QueueTypeOK, GCTypeOK
      <3>6. \A i \in DOMAIN syncTaskQueue' : /\ syncTaskQueue'[i].index > finishedGcIndex
                                            /\ syncTaskQueue'[i].index <= queueSyncIndex + 1
        BY <3>1, <3>3, <3>5 DEF OrderInv
      <3>7. ASSUME gpc' \in {"execute", "collect"}, gtask.index # kAsyncIndex
            PROVE  /\ gtask.index > finishedGcIndex
                   /\ gtask.index <= queueSyncIndex + 1
                   /\ \A i \in DOMAIN syncTaskQueue' : syncTaskQueue'[i].index > gtask.index
        <4>1. gpc \in {"execute", "collect"} /\ gtask.index \in Int BY <3>2, <3>7 DEF GCTypeOK
        <4> QED BY <4>1, <3>1, <3>3, <3>5, <3>7 DEF OrderInv
      <3> QED BY <3>2, <3>4, <3>5, <3>6, <3>7 DEF OrderInv
    <2>2. CASE Same(why) # {}
      BY <2>2, <1>u DEF EnqueueSync, OrderInv
    <2> QED BY <2>1, <2>2
  <1>8. WaitInv'
    <2>1. \A x \in Requesters : owed'[x] = "begun" => gpc' = "collect"
      BY DEF EnqueueSync, Invoke, NotifyQueue, LockFree, QueueTypeOK, GCTypeOK, RequesterTypeOK,
         WaitInv
    <2>2. \A x \in Requesters \ {r} :
             rpc'[x] = rpc[x] /\ owed'[x] = owed[x] /\ index'[x] = index[x] /\ reason'[x] = reason[x]
      BY DEF EnqueueSync, Invoke, QueueTypeOK, GCTypeOK, RequesterTypeOK
    <2>3. owed'[r] = "asked" /\ reason'[r] = why
      BY DEF EnqueueSync, Invoke, QueueTypeOK, GCTypeOK, RequesterTypeOK
    <2>4. /\ gtask' = gtask /\ finishedGcIndex' = finishedGcIndex
          /\ (gpc = gpc' \/ (gpc = "waiting" /\ gpc' = "dequeue"))
      BY DEF EnqueueSync, NotifyQueue
    <2>5. ASSUME NEW x \in Requesters, x # r,
                 rpc'[x] \in {"wait", "blocked"}, gpc' # "exited", owed'[x] # "ended"
          PROVE  /\ owed'[x] \in {"asked", "begun"} /\ reason'[x] # kInvalidGCReason
                 /\ index'[x] > finishedGcIndex'
                 /\ owed'[x] = "asked" => Ahead(x)'
      <3>1. /\ owed[x] \in {"asked", "begun"} /\ reason[x] # kInvalidGCReason /\ index[x] > finishedGcIndex
            /\ owed[x] = "asked" => Ahead(x)
        BY <2>2, <2>4, <2>5 DEF WaitInv
      <3>2. CASE Same(why) = {}
        BY SMTT(40), <3>1, <3>2, <2>2, <2>4, <2>5, <1>q DEF Ahead
      <3>3. CASE Same(why) # {}
        BY <3>1, <3>3, <2>2, <2>4, <2>5, <1>u DEF Ahead
      <3> QED BY <3>2, <3>3
    <2>6. ASSUME gpc' # "exited"
          PROVE  index'[r] > finishedGcIndex' /\ Ahead(r)'
      <3>0. gpc # "start" BY DEF EnqueueSync, Invoke
      <3>1. CASE Same(why) = {}
        <4>1. index'[r] = queueSyncIndex + 1 BY <3>1, <1>n DEF QueueTypeOK, GCTypeOK, RequesterTypeOK
        <4>2. index'[r] > finishedGcIndex' BY <3>0, <4>1, <2>4 DEF OrderInv, QueueTypeOK, GCTypeOK, RequesterTypeOK
        <4>3. /\ Len(syncTaskQueue) + 1 \in DOMAIN syncTaskQueue'
              /\ syncTaskQueue'[Len(syncTaskQueue) + 1].index = queueSyncIndex + 1
              /\ syncTaskQueue'[Len(syncTaskQueue) + 1].reason = why
          BY <3>1, <1>q DEF e
        <4> QED BY <4>1, <4>2, <4>3, <2>3 DEF Ahead
      <3>2. CASE Same(why) # {}
        BY <3>2, <1>s, <1>u, <2>3, <2>4 DEF Ahead, OrderInv, QueueTypeOK, GCTypeOK,
           RequesterTypeOK
      <3> QED BY <3>1, <3>2
    <2> QED BY <2>1, <2>3, <2>5, <2>6, ReasonOK DEF WaitInv
  <1>9. ServedOnReturn'
    BY DEF EnqueueSync, Invoke, NotifyQueue, LockFree, Task, queueVars, gcVars, reqVars, vars,
       QueueTypeOK, GCTypeOK, RequesterTypeOK, ServedOnReturn, WaitInv, ExitInv, StartInv
  <1> QED BY <1>1, <1>2, <1>3, <1>4, <1>5, <1>6, <1>7, <1>8, <1>9

\* Waiting requesters, and those that leave.
LEMMA WaitGCInv ==
    ASSUME IInv, ~EarlyRequests, NEW r \in Requesters, WaitGC(r)
    PROVE  IInv'
  <1> USE ReasonAssumption DEF IInv, TypeOK, kIndexExit, kAsyncIndex, kInvalidGCReason,
        kSyncIndexStartValue, kPrioTimeout, kPrioInvokeGC
  <1>1. TasksInv'
    BY DEF WaitGC, Finished, queueVars, gcVars, reqVars, vars, QueueTypeOK, GCTypeOK,
       RequesterTypeOK, TasksInv, Tasks, QueuedTasks, TaskTypes
  <1>2. QueueTypeOK'
    BY DEF WaitGC, Finished, queueVars, gcVars, reqVars, vars, TasksInv, QueuedTasks, QueueTypeOK
  <1>3. GCTypeOK'
    BY DEF WaitGC, Finished, queueVars, gcVars, reqVars, vars, TasksInv, GCTypeOK, TaskTypes
  <1>4. RequesterTypeOK'
    BY DEF WaitGC, Finished, queueVars, gcVars, reqVars, vars, RequesterTypeOK, QueueTypeOK,
       GCTypeOK
  <1>5. StartInv'
    BY DEF WaitGC, Finished, queueVars, gcVars, reqVars, vars, QueueTypeOK, GCTypeOK,
       RequesterTypeOK, StartInv
  <1>6. ExitInv'
    BY DEF WaitGC, Finished, queueVars, gcVars, reqVars, vars, QueueTypeOK, GCTypeOK,
       RequesterTypeOK, ExitInv, TasksInv, Tasks, OrderInv, StartInv
  <1>7. OrderInv'
    BY DEF WaitGC, Finished, queueVars, gcVars, reqVars, vars, QueueTypeOK, GCTypeOK,
       RequesterTypeOK, TasksInv, Tasks, OrderInv, QueuedTasks, StartInv
  <1>8. WaitInv'
    BY DEF WaitGC, Finished, queueVars, gcVars, reqVars, vars, QueueTypeOK, GCTypeOK,
       RequesterTypeOK, WaitInv, Ahead, StartInv
  <1>9. ServedOnReturn'
    BY DEF WaitGC, Finished, queueVars, gcVars, reqVars, vars, QueueTypeOK, GCTypeOK,
       RequesterTypeOK, ServedOnReturn, WaitInv, ExitInv, StartInv
  <1> QED BY <1>1, <1>2, <1>3, <1>4, <1>5, <1>6, <1>7, <1>8, <1>9

LEMMA LeaveRequestInv ==
    ASSUME IInv, ~EarlyRequests, NEW r \in Requesters, LeaveRequest(r)
    PROVE  IInv'
  <1> USE ReasonAssumption DEF IInv, TypeOK, kIndexExit, kAsyncIndex, kInvalidGCReason,
        kSyncIndexStartValue, kPrioTimeout, kPrioInvokeGC
  <1>1. TasksInv'
    BY DEF LeaveRequest, Return, queueVars, gcVars, reqVars, vars, QueueTypeOK, GCTypeOK,
       RequesterTypeOK, TasksInv, Tasks, QueuedTasks, TaskTypes
  <1>2. QueueTypeOK'
    BY DEF LeaveRequest, Return, queueVars, gcVars, reqVars, vars, TasksInv, QueuedTasks,
       QueueTypeOK
  <1>3. GCTypeOK'
    BY DEF LeaveRequest, Return, queueVars, gcVars, reqVars, vars, TasksInv, GCTypeOK, TaskTypes
  <1>4. RequesterTypeOK'
    BY DEF LeaveRequest, Return, queueVars, gcVars, reqVars, vars, RequesterTypeOK, QueueTypeOK,
       GCTypeOK
  <1>5. StartInv'
    BY DEF LeaveRequest, Return, queueVars, gcVars, reqVars, vars, QueueTypeOK, GCTypeOK,
       RequesterTypeOK, StartInv
  <1>6. ExitInv'
    BY DEF LeaveRequest, Return, queueVars, gcVars, reqVars, vars, QueueTypeOK, GCTypeOK,
       RequesterTypeOK, ExitInv, TasksInv, Tasks, OrderInv, StartInv
  <1>7. OrderInv'
    BY DEF LeaveRequest, Return, queueVars, gcVars, reqVars, vars, QueueTypeOK, GCTypeOK,
       RequesterTypeOK, TasksInv, Tasks, OrderInv, QueuedTasks, StartInv
  <1>8. WaitInv'
    BY DEF LeaveRequest, Return, queueVars, gcVars, reqVars, vars, QueueTypeOK, GCTypeOK,
       RequesterTypeOK, WaitInv, Ahead, StartInv
  <1>9. ServedOnReturn'
    BY DEF LeaveRequest, Return, queueVars, gcVars, reqVars, vars, QueueTypeOK, GCTypeOK,
       RequesterTypeOK, ServedOnReturn, WaitInv, ExitInv, StartInv
  <1> QED BY <1>1, <1>2, <1>3, <1>4, <1>5, <1>6, <1>7, <1>8, <1>9

LEMMA LeaveLiteInv ==
    ASSUME IInv, ~EarlyRequests, NEW r \in Requesters, LeaveLite(r)
    PROVE  IInv'
  <1> USE ReasonAssumption DEF IInv, TypeOK, kIndexExit, kAsyncIndex, kInvalidGCReason,
        kSyncIndexStartValue, kPrioTimeout, kPrioInvokeGC
  <1>1. TasksInv'
    BY DEF LeaveLite, Return, queueVars, gcVars, reqVars, vars, QueueTypeOK, GCTypeOK,
       RequesterTypeOK, TasksInv, Tasks, QueuedTasks, TaskTypes
  <1>2. QueueTypeOK'
    BY DEF LeaveLite, Return, queueVars, gcVars, reqVars, vars, TasksInv, QueuedTasks, QueueTypeOK
  <1>3. GCTypeOK'
    BY DEF LeaveLite, Return, queueVars, gcVars, reqVars, vars, TasksInv, GCTypeOK, TaskTypes
  <1>4. RequesterTypeOK'
    BY DEF LeaveLite, Return, queueVars, gcVars, reqVars, vars, RequesterTypeOK, QueueTypeOK,
       GCTypeOK
  <1>5. StartInv'
    BY DEF LeaveLite, Return, queueVars, gcVars, reqVars, vars, QueueTypeOK, GCTypeOK,
       RequesterTypeOK, StartInv
  <1>6. ExitInv'
    BY DEF LeaveLite, Return, queueVars, gcVars, reqVars, vars, QueueTypeOK, GCTypeOK,
       RequesterTypeOK, ExitInv, TasksInv, Tasks, OrderInv, StartInv
  <1>7. OrderInv'
    BY DEF LeaveLite, Return, queueVars, gcVars, reqVars, vars, QueueTypeOK, GCTypeOK,
       RequesterTypeOK, TasksInv, Tasks, OrderInv, QueuedTasks, StartInv
  <1>8. WaitInv'
    BY DEF LeaveLite, Return, queueVars, gcVars, reqVars, vars, QueueTypeOK, GCTypeOK,
       RequesterTypeOK, WaitInv, Ahead, StartInv
  <1>9. ServedOnReturn'
    BY DEF LeaveLite, Return, queueVars, gcVars, reqVars, vars, QueueTypeOK, GCTypeOK,
       RequesterTypeOK, ServedOnReturn, WaitInv, ExitInv, StartInv
  <1> QED BY <1>1, <1>2, <1>3, <1>4, <1>5, <1>6, <1>7, <1>8, <1>9

LEMMA IgnoredInvokeInv ==
    ASSUME IInv, ~EarlyRequests, NEW r \in Requesters, NEW why \in Reasons, IgnoredInvoke(r, why)
    PROVE  IInv'
  <1> USE ReasonAssumption DEF IInv, TypeOK, kIndexExit, kAsyncIndex, kInvalidGCReason,
        kSyncIndexStartValue, kPrioTimeout, kPrioInvokeGC
  <1>1. TasksInv'
    BY DEF IgnoredInvoke, queueVars, gcVars, reqVars, vars, QueueTypeOK, GCTypeOK,
       RequesterTypeOK, TasksInv, Tasks, QueuedTasks, TaskTypes
  <1>2. QueueTypeOK'
    BY DEF IgnoredInvoke, queueVars, gcVars, reqVars, vars, TasksInv, QueuedTasks, QueueTypeOK
  <1>3. GCTypeOK'
    BY DEF IgnoredInvoke, queueVars, gcVars, reqVars, vars, TasksInv, GCTypeOK, TaskTypes
  <1>4. RequesterTypeOK'
    BY DEF IgnoredInvoke, queueVars, gcVars, reqVars, vars, RequesterTypeOK, QueueTypeOK, GCTypeOK
  <1>5. StartInv'
    BY DEF IgnoredInvoke, queueVars, gcVars, reqVars, vars, QueueTypeOK, GCTypeOK,
       RequesterTypeOK, StartInv
  <1>6. ExitInv'
    BY DEF IgnoredInvoke, queueVars, gcVars, reqVars, vars, QueueTypeOK, GCTypeOK,
       RequesterTypeOK, ExitInv, TasksInv, Tasks, OrderInv, StartInv
  <1>7. OrderInv'
    BY DEF IgnoredInvoke, queueVars, gcVars, reqVars, vars, QueueTypeOK, GCTypeOK,
       RequesterTypeOK, TasksInv, Tasks, OrderInv, QueuedTasks, StartInv
  <1>8. WaitInv'
    BY DEF IgnoredInvoke, queueVars, gcVars, reqVars, vars, QueueTypeOK, GCTypeOK,
       RequesterTypeOK, WaitInv, Ahead, StartInv
  <1>9. ServedOnReturn'
    BY DEF IgnoredInvoke, queueVars, gcVars, reqVars, vars, QueueTypeOK, GCTypeOK,
       RequesterTypeOK, ServedOnReturn, WaitInv, ExitInv, StartInv
  <1> QED BY <1>1, <1>2, <1>3, <1>4, <1>5, <1>6, <1>7, <1>8, <1>9

LEMMA LoadWaitIndexInv ==
    ASSUME IInv, ~EarlyRequests, NEW r \in Requesters, LoadWaitIndex(r)
    PROVE  IInv'
  <1> USE ReasonAssumption DEF IInv, TypeOK, kIndexExit, kAsyncIndex, kInvalidGCReason,
        kSyncIndexStartValue, kPrioTimeout, kPrioInvokeGC
  <1>1. TasksInv'
    BY DEF LoadWaitIndex, queueVars, gcVars, reqVars, vars, QueueTypeOK, GCTypeOK,
       RequesterTypeOK, TasksInv, Tasks, QueuedTasks, TaskTypes
  <1>2. QueueTypeOK'
    BY DEF LoadWaitIndex, queueVars, gcVars, reqVars, vars, TasksInv, QueuedTasks, QueueTypeOK
  <1>3. GCTypeOK'
    BY DEF LoadWaitIndex, queueVars, gcVars, reqVars, vars, TasksInv, GCTypeOK, TaskTypes
  <1>4. RequesterTypeOK'
    BY DEF LoadWaitIndex, queueVars, gcVars, reqVars, vars, RequesterTypeOK, QueueTypeOK, GCTypeOK
  <1>5. StartInv'
    BY DEF LoadWaitIndex, queueVars, gcVars, reqVars, vars, QueueTypeOK, GCTypeOK,
       RequesterTypeOK, StartInv
  <1>6. ExitInv'
    BY DEF LoadWaitIndex, queueVars, gcVars, reqVars, vars, QueueTypeOK, GCTypeOK,
       RequesterTypeOK, ExitInv, TasksInv, Tasks, OrderInv, StartInv
  <1>7. OrderInv'
    BY DEF LoadWaitIndex, queueVars, gcVars, reqVars, vars, QueueTypeOK, GCTypeOK,
       RequesterTypeOK, TasksInv, Tasks, OrderInv, QueuedTasks, StartInv
  <1>8. WaitInv'
    BY ZenonT(40) DEF LoadWaitIndex, queueVars, gcVars, reqVars, vars, QueueTypeOK, GCTypeOK,
       RequesterTypeOK, WaitInv, Ahead, StartInv
  <1>9. ServedOnReturn'
    BY DEF LoadWaitIndex, queueVars, gcVars, reqVars, vars, QueueTypeOK, GCTypeOK,
       RequesterTypeOK, ServedOnReturn, WaitInv, ExitInv, StartInv
  <1> QED BY <1>1, <1>2, <1>3, <1>4, <1>5, <1>6, <1>7, <1>8, <1>9

LEMMA WaitGCStoppedInv ==
    ASSUME IInv, ~EarlyRequests, NEW r \in Requesters, WaitGCStopped(r)
    PROVE  IInv'
  <1> USE ReasonAssumption DEF IInv, TypeOK, kIndexExit, kAsyncIndex, kInvalidGCReason,
        kSyncIndexStartValue, kPrioTimeout, kPrioInvokeGC
  <1>1. TasksInv'
    BY DEF WaitGCStopped, queueVars, gcVars, reqVars, vars, QueueTypeOK, GCTypeOK,
       RequesterTypeOK, TasksInv, Tasks, QueuedTasks, TaskTypes
  <1>2. QueueTypeOK'
    BY DEF WaitGCStopped, queueVars, gcVars, reqVars, vars, TasksInv, QueuedTasks, QueueTypeOK
  <1>3. GCTypeOK'
    BY DEF WaitGCStopped, queueVars, gcVars, reqVars, vars, TasksInv, GCTypeOK, TaskTypes
  <1>4. RequesterTypeOK'
    BY DEF WaitGCStopped, queueVars, gcVars, reqVars, vars, RequesterTypeOK, QueueTypeOK, GCTypeOK
  <1>5. StartInv'
    BY DEF WaitGCStopped, queueVars, gcVars, reqVars, vars, QueueTypeOK, GCTypeOK,
       RequesterTypeOK, StartInv
  <1>6. ExitInv'
    BY DEF WaitGCStopped, queueVars, gcVars, reqVars, vars, QueueTypeOK, GCTypeOK,
       RequesterTypeOK, ExitInv, TasksInv, Tasks, OrderInv, StartInv
  <1>7. OrderInv'
    BY DEF WaitGCStopped, queueVars, gcVars, reqVars, vars, QueueTypeOK, GCTypeOK,
       RequesterTypeOK, TasksInv, Tasks, OrderInv, QueuedTasks, StartInv
  <1>8. WaitInv'
    BY DEF WaitGCStopped, queueVars, gcVars, reqVars, vars, QueueTypeOK, GCTypeOK,
       RequesterTypeOK, WaitInv, Ahead, StartInv
  <1>9. ServedOnReturn'
    BY DEF WaitGCStopped, queueVars, gcVars, reqVars, vars, QueueTypeOK, GCTypeOK,
       RequesterTypeOK, ServedOnReturn, WaitInv, ExitInv, StartInv
  <1> QED BY <1>1, <1>2, <1>3, <1>4, <1>5, <1>6, <1>7, <1>8, <1>9

LEMMA StopThreadInv ==
    ASSUME IInv, ~EarlyRequests, StopThread
    PROVE  IInv'
  <1> USE ReasonAssumption DEF IInv, TypeOK, kIndexExit, kAsyncIndex, kInvalidGCReason,
        kSyncIndexStartValue, kPrioTimeout, kPrioInvokeGC
  <1> DEFINE e == [type |-> "Terminate", reason |-> kInvalidGCReason, index |-> queueSyncIndex + 1]
  <1>n. /\ e \in QueuedTasks /\ syncTaskQueue' = Append(syncTaskQueue, e)
        /\ queueSyncIndex' = queueSyncIndex + 1 /\ queueSyncIndex < MaxIndex
    BY DEF StopThread, Task, QueuedTasks, QueueTypeOK, GCTypeOK, RequesterTypeOK
  <1>q. /\ syncTaskQueue' \in Seq(QueuedTasks)
        /\ DOMAIN syncTaskQueue = 1..Len(syncTaskQueue) /\ Len(syncTaskQueue) \in Nat
        /\ DOMAIN syncTaskQueue' = 1..(Len(syncTaskQueue) + 1)
        /\ \A i \in 1..Len(syncTaskQueue) : syncTaskQueue'[i] = syncTaskQueue[i]
        /\ syncTaskQueue'[Len(syncTaskQueue) + 1] = e
    BY <1>n, AppendIs DEF TasksInv
  <1> HIDE DEF e
  <1>1. TasksInv'
    BY <1>n, <1>q DEF e, StopThread, NotifyQueue, LockFree, queueVars, gcVars, reqVars,
       QueueTypeOK, GCTypeOK, RequesterTypeOK, TasksInv
  <1>2. QueueTypeOK'
    <2>1. \A i \in DOMAIN syncTaskQueue' : /\ syncTaskQueue'[i].type \in {"InvokeGC", "Terminate"}
                                          /\ syncTaskQueue'[i].index \in 1..MaxIndex
      BY <1>1, QueueElement DEF TasksInv
    <2> QED BY <2>1, <1>n, ReasonAssumption DEF StopThread, NotifyQueue, LockFree, queueVars,
          QueueTypeOK
  <1>3. GCTypeOK'
    <2>0. isGcTriggered' \in BOOLEAN /\ timedOut' \in BOOLEAN
      BY Zenon DEF StopThread, NotifyQueue, GCTypeOK
    <2>1. gtask'.type \in TaskTypes /\ gtask'.reason \in Reasons \cup {kInvalidGCReason}
          /\ gtask'.index \in -1..MaxIndex
      BY <1>1 DEF TasksInv, Tasks
    <2> QED BY <2>0, <2>1, <1>n, ReasonAssumption DEF StopThread, NotifyQueue, LockFree, GCTypeOK,
          QueuedTasks
  <1>4. RequesterTypeOK'
    BY DEF StopThread, NotifyQueue, LockFree, Task, queueVars, gcVars, reqVars, vars,
       RequesterTypeOK, QueueTypeOK, GCTypeOK
  <1>5. StartInv'
    BY DEF StopThread, NotifyQueue, LockFree, Task, queueVars, gcVars, reqVars, vars, QueueTypeOK,
       GCTypeOK, RequesterTypeOK, StartInv
  <1>6. ExitInv'
    BY DEF StopThread, NotifyQueue, LockFree, Task, queueVars, gcVars, reqVars, vars, QueueTypeOK,
       GCTypeOK, RequesterTypeOK, ExitInv, TasksInv, Tasks, OrderInv, StartInv
  <1>7. OrderInv'
    BY SMTT(40), <1>n, <1>q DEF e, StopThread, NotifyQueue, LockFree, queueVars, gcVars, reqVars,
       QueueTypeOK, GCTypeOK, RequesterTypeOK, TasksInv, Tasks, QueuedTasks, OrderInv, StartInv
  <1>8. WaitInv'
    BY <1>n, <1>q DEF StopThread, NotifyQueue, LockFree, queueVars, gcVars, reqVars, QueueTypeOK,
       GCTypeOK, RequesterTypeOK, WaitInv, Ahead
  <1>9. ServedOnReturn'
    BY DEF StopThread, NotifyQueue, LockFree, Task, queueVars, gcVars, reqVars, vars, QueueTypeOK,
       GCTypeOK, RequesterTypeOK, ServedOnReturn, WaitInv, ExitInv, StartInv
  <1> QED BY <1>1, <1>2, <1>3, <1>4, <1>5, <1>6, <1>7, <1>8, <1>9

\* The loop of the GC thread.
LEMMA RunTaskLoopInv ==
    ASSUME IInv, ~EarlyRequests, RunTaskLoop
    PROVE  IInv'
  <1> USE ReasonAssumption DEF IInv, TypeOK, kIndexExit, kAsyncIndex, kInvalidGCReason,
        kSyncIndexStartValue, kPrioTimeout, kPrioInvokeGC
  <1>1. TasksInv'
    BY DEF RunTaskLoop, queueVars, gcVars, reqVars, vars, QueueTypeOK, GCTypeOK, RequesterTypeOK,
       TasksInv, Tasks, QueuedTasks, TaskTypes
  <1>2. QueueTypeOK'
    BY DEF RunTaskLoop, queueVars, gcVars, reqVars, vars, TasksInv, QueuedTasks, QueueTypeOK
  <1>3. GCTypeOK'
    BY DEF RunTaskLoop, queueVars, gcVars, reqVars, vars, TasksInv, GCTypeOK, TaskTypes
  <1>4. RequesterTypeOK'
    BY DEF RunTaskLoop, queueVars, gcVars, reqVars, vars, RequesterTypeOK, QueueTypeOK, GCTypeOK
  <1>5. StartInv'
    BY DEF RunTaskLoop, queueVars, gcVars, reqVars, vars, QueueTypeOK, GCTypeOK, RequesterTypeOK,
       StartInv
  <1>6. ExitInv'
    BY DEF RunTaskLoop, queueVars, gcVars, reqVars, vars, QueueTypeOK, GCTypeOK, RequesterTypeOK,
       ExitInv, TasksInv, Tasks, OrderInv, StartInv
  <1>7. OrderInv'
    BY DEF RunTaskLoop, queueVars, gcVars, reqVars, vars, QueueTypeOK, GCTypeOK, RequesterTypeOK,
       TasksInv, Tasks, OrderInv, QueuedTasks, StartInv
  <1>8. WaitInv'
    BY DEF RunTaskLoop, queueVars, gcVars, reqVars, vars, QueueTypeOK, GCTypeOK, RequesterTypeOK,
       WaitInv, Ahead, StartInv
  <1>9. ServedOnReturn'
    BY DEF RunTaskLoop, queueVars, gcVars, reqVars, vars, QueueTypeOK, GCTypeOK, RequesterTypeOK,
       ServedOnReturn, WaitInv, ExitInv, StartInv
  <1> QED BY <1>1, <1>2, <1>3, <1>4, <1>5, <1>6, <1>7, <1>8, <1>9

LEMMA DequeueSyncInv ==
    ASSUME IInv, ~EarlyRequests, DequeueSync
    PROVE  IInv'
  <1> USE ReasonAssumption DEF IInv, TypeOK, kIndexExit, kAsyncIndex, kInvalidGCReason,
        kSyncIndexStartValue, kPrioTimeout, kPrioInvokeGC
  <1>q. ASSUME syncTaskQueue # <<>>
       PROVE  /\ syncTaskQueue' = Tail(syncTaskQueue) /\ syncTaskQueue' \in Seq(QueuedTasks)
              /\ gtask' = syncTaskQueue[1] /\ gtask' \in QueuedTasks /\ gpc' = "execute"
              /\ DOMAIN syncTaskQueue = 1..Len(syncTaskQueue) /\ Len(syncTaskQueue) \in Nat
              /\ 1 \in DOMAIN syncTaskQueue /\ timedOut' = FALSE
              /\ DOMAIN syncTaskQueue' = 1..(Len(syncTaskQueue) - 1)
              /\ \A i \in 1..(Len(syncTaskQueue) - 1) : syncTaskQueue'[i] = syncTaskQueue[i + 1]
    BY SMTT(40), <1>q, TailIs DEF DequeueSync, Execute, TasksInv
  <1>u. ASSUME syncTaskQueue = <<>>
       PROVE  gpc' \in {"timeout", "pop"} /\ UNCHANGED <<syncTaskQueue, gtask, timedOut>>
    BY <1>u DEF DequeueSync
  <1>v. gpc = "dequeue" /\ UNCHANGED <<queueSyncIndex, tqWord, finishedGcIndex, isGcTriggered, reqVars>>
    BY DEF DequeueSync
  <1>1. TasksInv'
    <2>1. CASE syncTaskQueue # <<>>
      <3>1. gtask' \in Tasks /\ gtask'.type # "Invalid" /\ gtask'.index # 0
        BY <2>1, <1>q DEF QueuedTasks, Tasks, TaskTypes
      <3>2. \A i \in DOMAIN syncTaskQueue' :
               syncTaskQueue'[i].reason # kInvalidGCReason => syncTaskQueue'[i].type = "InvokeGC"
        BY SMTT(40), <2>1, <1>q DEF TasksInv
      <3> QED BY <2>1, <1>q, <3>1, <3>2 DEF TasksInv
    <2>2. CASE syncTaskQueue = <<>>
      BY <2>2, <1>u, <1>v DEF TasksInv
    <2> QED BY <2>1, <2>2
  <1>2. QueueTypeOK'
    <2>1. \A i \in DOMAIN syncTaskQueue' : /\ syncTaskQueue'[i].type \in {"InvokeGC", "Terminate"}
                                          /\ syncTaskQueue'[i].index \in 1..MaxIndex
      BY <1>1, QueueElement DEF TasksInv
    <2> QED BY <2>1, <1>q, <1>u, <1>v, ReasonAssumption DEF DequeueSync, Execute, queueVars,
          QueueTypeOK
  <1>3. GCTypeOK'
    <2>0. isGcTriggered' \in BOOLEAN /\ timedOut' \in BOOLEAN
      BY Zenon DEF DequeueSync, Execute, GCTypeOK
    <2>1. gtask'.type \in TaskTypes /\ gtask'.reason \in Reasons \cup {kInvalidGCReason}
          /\ gtask'.index \in -1..MaxIndex
      BY <1>1 DEF TasksInv, Tasks
    <2>2. gtask'.type = "InvokeGC" /\ gtask'.index = kAsyncIndex => gtask'.reason \in NonBlocking
      <3>1. CASE syncTaskQueue # <<>> BY <3>1, <1>q DEF QueuedTasks
      <3>2. CASE syncTaskQueue = <<>> BY <3>2, <1>u DEF GCTypeOK
      <3> QED BY <3>1, <3>2
    <2> QED BY <2>2, <2>0, <2>1, <1>q, <1>u, <1>v, ReasonAssumption DEF DequeueSync, Execute,
          GCTypeOK
  <1>4. RequesterTypeOK'
    BY DEF DequeueSync, Execute, queueVars, gcVars, reqVars, vars, RequesterTypeOK, QueueTypeOK,
       GCTypeOK
  <1>5. StartInv'
    BY DEF DequeueSync, Execute, queueVars, gcVars, reqVars, vars, QueueTypeOK, GCTypeOK,
       RequesterTypeOK, StartInv
  <1>6. ExitInv'
    BY DEF DequeueSync, Execute, queueVars, gcVars, reqVars, vars, QueueTypeOK, GCTypeOK,
       RequesterTypeOK, ExitInv, TasksInv, Tasks, OrderInv, StartInv
  <1>7. OrderInv'
    <2>1. CASE syncTaskQueue # <<>>
      <3>1. \A i \in DOMAIN syncTaskQueue : syncTaskQueue[i].index \in Nat
        BY QueueElement DEF TasksInv
      <3>2. \A i \in DOMAIN syncTaskQueue' : /\ i \in Nat /\ i + 1 \in DOMAIN syncTaskQueue
                                            /\ 1 < i + 1
                                            /\ syncTaskQueue'[i] = syncTaskQueue[i + 1]
        BY <2>1, <1>q
      <3>3. \A i, j \in DOMAIN syncTaskQueue' :
               i < j => syncTaskQueue'[i].index < syncTaskQueue'[j].index
        BY <3>2 DEF OrderInv
      <3>4. \A i \in DOMAIN syncTaskQueue' : /\ syncTaskQueue'[i].index > finishedGcIndex
                                            /\ syncTaskQueue'[i].index <= queueSyncIndex
                                            /\ syncTaskQueue'[i].index > syncTaskQueue[1].index
        BY <3>1, <3>2, <2>1, <1>q DEF OrderInv
      <3>5. syncTaskQueue[1].index > finishedGcIndex /\ syncTaskQueue[1].index <= queueSyncIndex
        BY <2>1, <1>q DEF OrderInv
      <3> QED BY <3>3, <3>4, <3>5, <2>1, <1>q, <1>v DEF OrderInv
    <2>2. CASE syncTaskQueue = <<>>
      BY <2>2, <1>u, <1>v DEF OrderInv
    <2> QED BY <2>1, <2>2
  <1>8. WaitInv'
    <2>1. CASE syncTaskQueue # <<>>
      <3> SUFFICES ASSUME NEW x \in Requesters, rpc[x] \in {"wait", "blocked"}, owed[x] = "asked"
                   PROVE  Ahead(x)'
        BY <2>1, <1>q, <1>v DEF WaitInv, reqVars
      <3>1. PICK i \in DOMAIN syncTaskQueue :
               syncTaskQueue[i].index = index[x] /\ syncTaskQueue[i].reason = reason[x]
        BY <1>v DEF WaitInv, Ahead
      <3>2. CASE i = 1
        <4>1. reason[x] # kInvalidGCReason /\ gtask'.type = "InvokeGC"
          BY <3>1, <3>2, <2>1, <1>q, <1>v DEF WaitInv, TasksInv, QueuedTasks
        <4> QED BY <3>1, <3>2, <4>1, <2>1, <1>q, <1>v DEF Ahead, reqVars
      <3>3. CASE i # 1
        <4>1. i - 1 \in 1..(Len(syncTaskQueue) - 1) /\ (i - 1) + 1 = i
          BY <3>3, <2>1, <1>q
        <4>2. syncTaskQueue'[i - 1] = syncTaskQueue[i] BY <4>1, <2>1, <1>q
        <4> QED BY <3>1, <4>1, <4>2, <2>1, <1>q, <1>v DEF Ahead, reqVars
      <3> QED BY <3>2, <3>3
    <2>2. CASE syncTaskQueue = <<>>
      BY <2>2, <1>u, <1>v DEF WaitInv, Ahead, reqVars
    <2> QED BY <2>1, <2>2
  <1>9. ServedOnReturn'
    BY DEF DequeueSync, Execute, queueVars, gcVars, reqVars, vars, QueueTypeOK, GCTypeOK,
       RequesterTypeOK, ServedOnReturn, WaitInv, ExitInv, StartInv
  <1> QED BY <1>1, <1>2, <1>3, <1>4, <1>5, <1>6, <1>7, <1>8, <1>9

LEMMA PushTimeoutInv ==
    ASSUME IInv, ~EarlyRequests, PushTimeout
    PROVE  IInv'
  <1> USE ReasonAssumption DEF IInv, TypeOK, kIndexExit, kAsyncIndex, kInvalidGCReason,
        kSyncIndexStartValue, kPrioTimeout, kPrioInvokeGC
  <1>1. TasksInv'
    BY DEF PushTimeout, PushOverriding, queueVars, gcVars, reqVars, vars, QueueTypeOK, GCTypeOK,
       RequesterTypeOK, TasksInv, Tasks, QueuedTasks, TaskTypes
  <1>2. QueueTypeOK'
    BY DEF PushTimeout, PushOverriding, queueVars, gcVars, reqVars, vars, TasksInv, QueuedTasks,
       QueueTypeOK
  <1>3. GCTypeOK'
    BY DEF PushTimeout, PushOverriding, queueVars, gcVars, reqVars, vars, TasksInv, GCTypeOK,
       TaskTypes
  <1>4. RequesterTypeOK'
    BY DEF PushTimeout, PushOverriding, queueVars, gcVars, reqVars, vars, RequesterTypeOK,
       QueueTypeOK, GCTypeOK
  <1>5. StartInv'
    BY DEF PushTimeout, PushOverriding, queueVars, gcVars, reqVars, vars, QueueTypeOK, GCTypeOK,
       RequesterTypeOK, StartInv
  <1>6. ExitInv'
    BY DEF PushTimeout, PushOverriding, queueVars, gcVars, reqVars, vars, QueueTypeOK, GCTypeOK,
       RequesterTypeOK, ExitInv, TasksInv, Tasks, OrderInv, StartInv
  <1>7. OrderInv'
    BY DEF PushTimeout, PushOverriding, queueVars, gcVars, reqVars, vars, QueueTypeOK, GCTypeOK,
       RequesterTypeOK, TasksInv, Tasks, OrderInv, QueuedTasks, StartInv
  <1>8. WaitInv'
    BY DEF PushTimeout, PushOverriding, queueVars, gcVars, reqVars, vars, QueueTypeOK, GCTypeOK,
       RequesterTypeOK, WaitInv, Ahead, StartInv
  <1>9. ServedOnReturn'
    BY DEF PushTimeout, PushOverriding, queueVars, gcVars, reqVars, vars, QueueTypeOK, GCTypeOK,
       RequesterTypeOK, ServedOnReturn, WaitInv, ExitInv, StartInv
  <1> QED BY <1>1, <1>2, <1>3, <1>4, <1>5, <1>6, <1>7, <1>8, <1>9

LEMMA PopInv ==
    ASSUME IInv, ~EarlyRequests, Pop
    PROVE  IInv'
  <1> USE ReasonAssumption DEF IInv, TypeOK, kIndexExit, kAsyncIndex, kInvalidGCReason,
        kSyncIndexStartValue, kPrioTimeout, kPrioInvokeGC
  <1>q. ASSUME tqWord # {}
       PROVE  /\ gtask' \in Tasks /\ gtask'.index = -1 /\ gtask'.type \in {"Timeout", "InvokeGC"}
              /\ gtask'.type = "InvokeGC" => gtask'.reason \in NonBlocking
              /\ gpc' = "execute" /\ tqWord' \subseteq tqWord /\ timedOut' = FALSE
    <2>1. tqWord \subseteq Nat BY DEF QueueTypeOK, GCTypeOK, RequesterTypeOK, Reasons, kGCReasonMax
    <2>2. Min(tqWord) \in tqWord BY <1>q, <2>1, MinIn
    <2>3. gtask' = FromPrio(Min(tqWord)) /\ gpc' = "execute" /\ tqWord' \subseteq tqWord
          /\ timedOut' = FALSE
      BY <1>q DEF Pop, Execute
    <2>4. CASE Min(tqWord) = kPrioTimeout
      BY <2>3, <2>4 DEF FromPrio, Task, Tasks, TaskTypes
    <2>5. ASSUME NEW w \in NonBlocking, Min(tqWord) = kPrioInvokeGC + w
          PROVE  /\ gtask' \in Tasks /\ gtask'.index = -1 /\ gtask'.type = "InvokeGC"
                 /\ gtask'.reason \in NonBlocking
      <3>1. w \in Nat /\ w \in Reasons BY DEF Reasons, kGCReasonMax
      <3>2. gtask' = [type |-> "InvokeGC", reason |-> w, index |-> -1]
        BY <2>3, <2>5, <3>1 DEF FromPrio, Task
      <3> QED BY <3>1, <3>2 DEF Tasks, TaskTypes
    <2> QED BY <2>2, <2>3, <2>4, <2>5 DEF QueueTypeOK, GCTypeOK, RequesterTypeOK
  <1>u. ASSUME tqWord = {} PROVE gpc' = "block" /\ UNCHANGED <<tqWord, gtask, timedOut>>
    BY <1>u DEF Pop
  <1>w. syncTaskQueue' = syncTaskQueue
    BY DEF Pop
  <1>v. gpc = "pop" /\ UNCHANGED <<queueSyncIndex, syncTaskQueue, finishedGcIndex, isGcTriggered, reqVars>>
    BY DEF Pop
  <1>1. TasksInv'
    <2>1. gtask' \in Tasks /\ (gpc' = "execute" => gtask'.type # "Invalid" /\ gtask'.index # 0)
      <3>1. CASE tqWord # {}
        <4>1. gtask' \in Tasks /\ gtask'.index = -1 /\ gtask'.type \in {"Timeout", "InvokeGC"}
          BY <3>1, <1>q
        <4>2. -1 # 0 OBVIOUS
        <4> QED BY <4>1, <4>2, Zenon
      <3>2. CASE tqWord = {} BY <3>2, <1>u DEF TasksInv
      <3> QED BY <3>1, <3>2
    <2> QED BY <2>1, <1>w DEF TasksInv
  <1>2. QueueTypeOK'
    <2>1. \A i \in DOMAIN syncTaskQueue' : /\ syncTaskQueue'[i].type \in {"InvokeGC", "Terminate"}
                                          /\ syncTaskQueue'[i].index \in 1..MaxIndex
      BY <1>1, QueueElement DEF TasksInv
    <2> QED BY <2>1, <1>q, <1>u, <1>v, ReasonAssumption DEF Pop, queueVars, QueueTypeOK
  <1>3. GCTypeOK'
    <2>0. isGcTriggered' \in BOOLEAN /\ timedOut' \in BOOLEAN
      BY Zenon DEF Pop, Execute, GCTypeOK
    <2>1. gtask'.type \in TaskTypes /\ gtask'.reason \in Reasons \cup {kInvalidGCReason}
          /\ gtask'.index \in -1..MaxIndex
      BY <1>1 DEF TasksInv, Tasks
    <2> QED BY <2>0, <2>1, <1>q, <1>u, <1>v, ReasonAssumption DEF Pop, GCTypeOK, QueuedTasks
  <1>4. RequesterTypeOK'
    BY DEF Pop, Execute, queueVars, gcVars, reqVars, vars, RequesterTypeOK, QueueTypeOK, GCTypeOK
  <1>5. StartInv'
    BY DEF Pop, Execute, queueVars, gcVars, reqVars, vars, QueueTypeOK, GCTypeOK, RequesterTypeOK,
       StartInv
  <1>6. ExitInv'
    BY DEF Pop, Execute, queueVars, gcVars, reqVars, vars, QueueTypeOK, GCTypeOK, RequesterTypeOK,
       ExitInv, TasksInv, Tasks, OrderInv, StartInv
  <1>7. OrderInv'
    <2>1. CASE tqWord # {}
      BY <2>1, <1>q, <1>v DEF reqVars, OrderInv, QueueTypeOK, GCTypeOK, RequesterTypeOK
    <2>2. CASE tqWord = {}
      BY <2>2, <1>u, <1>v DEF reqVars, OrderInv, QueueTypeOK, GCTypeOK, RequesterTypeOK
    <2> QED BY <2>1, <2>2
  <1>8. WaitInv'
    BY DEF Pop, Execute, queueVars, gcVars, reqVars, vars, QueueTypeOK, GCTypeOK, RequesterTypeOK,
       WaitInv, Ahead, StartInv
  <1>9. ServedOnReturn'
    BY DEF Pop, Execute, queueVars, gcVars, reqVars, vars, QueueTypeOK, GCTypeOK, RequesterTypeOK,
       ServedOnReturn, WaitInv, ExitInv, StartInv
  <1> QED BY <1>1, <1>2, <1>3, <1>4, <1>5, <1>6, <1>7, <1>8, <1>9

LEMMA BlockInv ==
    ASSUME IInv, ~EarlyRequests, Block
    PROVE  IInv'
  <1> USE ReasonAssumption DEF IInv, TypeOK, kIndexExit, kAsyncIndex, kInvalidGCReason,
        kSyncIndexStartValue, kPrioTimeout, kPrioInvokeGC
  <1>1. TasksInv'
    BY DEF Block, queueVars, gcVars, reqVars, vars, QueueTypeOK, GCTypeOK, RequesterTypeOK,
       TasksInv, Tasks, QueuedTasks, TaskTypes
  <1>2. QueueTypeOK'
    BY DEF Block, queueVars, gcVars, reqVars, vars, TasksInv, QueuedTasks, QueueTypeOK
  <1>3. GCTypeOK'
    BY DEF Block, queueVars, gcVars, reqVars, vars, TasksInv, GCTypeOK, TaskTypes
  <1>4. RequesterTypeOK'
    BY DEF Block, queueVars, gcVars, reqVars, vars, RequesterTypeOK, QueueTypeOK, GCTypeOK
  <1>5. StartInv'
    BY DEF Block, queueVars, gcVars, reqVars, vars, QueueTypeOK, GCTypeOK, RequesterTypeOK,
       StartInv
  <1>6. ExitInv'
    BY DEF Block, queueVars, gcVars, reqVars, vars, QueueTypeOK, GCTypeOK, RequesterTypeOK,
       ExitInv, TasksInv, Tasks, OrderInv, StartInv
  <1>7. OrderInv'
    BY DEF Block, queueVars, gcVars, reqVars, vars, QueueTypeOK, GCTypeOK, RequesterTypeOK,
       TasksInv, Tasks, OrderInv, QueuedTasks, StartInv
  <1>8. WaitInv'
    BY DEF Block, queueVars, gcVars, reqVars, vars, QueueTypeOK, GCTypeOK, RequesterTypeOK,
       WaitInv, Ahead, StartInv
  <1>9. ServedOnReturn'
    BY DEF Block, queueVars, gcVars, reqVars, vars, QueueTypeOK, GCTypeOK, RequesterTypeOK,
       ServedOnReturn, WaitInv, ExitInv, StartInv
  <1> QED BY <1>1, <1>2, <1>3, <1>4, <1>5, <1>6, <1>7, <1>8, <1>9

LEMMA WaitTimesOutInv ==
    ASSUME IInv, ~EarlyRequests, WaitTimesOut
    PROVE  IInv'
  <1> USE ReasonAssumption DEF IInv, TypeOK, kIndexExit, kAsyncIndex, kInvalidGCReason,
        kSyncIndexStartValue, kPrioTimeout, kPrioInvokeGC
  <1>1. TasksInv'
    BY DEF WaitTimesOut, queueVars, gcVars, reqVars, vars, QueueTypeOK, GCTypeOK, RequesterTypeOK,
       TasksInv, Tasks, QueuedTasks, TaskTypes
  <1>2. QueueTypeOK'
    BY DEF WaitTimesOut, queueVars, gcVars, reqVars, vars, TasksInv, QueuedTasks, QueueTypeOK
  <1>3. GCTypeOK'
    BY DEF WaitTimesOut, queueVars, gcVars, reqVars, vars, TasksInv, GCTypeOK, TaskTypes
  <1>4. RequesterTypeOK'
    BY DEF WaitTimesOut, queueVars, gcVars, reqVars, vars, RequesterTypeOK, QueueTypeOK, GCTypeOK
  <1>5. StartInv'
    BY DEF WaitTimesOut, queueVars, gcVars, reqVars, vars, QueueTypeOK, GCTypeOK, RequesterTypeOK,
       StartInv
  <1>6. ExitInv'
    BY DEF WaitTimesOut, queueVars, gcVars, reqVars, vars, QueueTypeOK, GCTypeOK, RequesterTypeOK,
       ExitInv, TasksInv, Tasks, OrderInv, StartInv
  <1>7. OrderInv'
    BY DEF WaitTimesOut, queueVars, gcVars, reqVars, vars, QueueTypeOK, GCTypeOK, RequesterTypeOK,
       TasksInv, Tasks, OrderInv, QueuedTasks, StartInv
  <1>8. WaitInv'
    BY DEF WaitTimesOut, queueVars, gcVars, reqVars, vars, QueueTypeOK, GCTypeOK, RequesterTypeOK,
       WaitInv, Ahead, StartInv
  <1>9. ServedOnReturn'
    BY DEF WaitTimesOut, queueVars, gcVars, reqVars, vars, QueueTypeOK, GCTypeOK, RequesterTypeOK,
       ServedOnReturn, WaitInv, ExitInv, StartInv
  <1> QED BY <1>1, <1>2, <1>3, <1>4, <1>5, <1>6, <1>7, <1>8, <1>9

\* The collection and the index it serves.
LEMMA ExecuteInvokeGCInv ==
    ASSUME IInv, ~EarlyRequests, ExecuteInvokeGC
    PROVE  IInv'
  <1> USE ReasonAssumption DEF IInv, TypeOK, kIndexExit, kAsyncIndex, kInvalidGCReason,
        kSyncIndexStartValue, kPrioTimeout, kPrioInvokeGC
  <1>1. TasksInv'
    BY DEF ExecuteInvokeGC, BeginCollection, queueVars, gcVars, reqVars, vars, QueueTypeOK,
       GCTypeOK, RequesterTypeOK, TasksInv, Tasks, QueuedTasks, TaskTypes
  <1>2. QueueTypeOK'
    BY DEF ExecuteInvokeGC, BeginCollection, queueVars, gcVars, reqVars, vars, TasksInv,
       QueuedTasks, QueueTypeOK
  <1>3. GCTypeOK'
    BY DEF ExecuteInvokeGC, BeginCollection, queueVars, gcVars, reqVars, vars, TasksInv, GCTypeOK,
       TaskTypes
  <1>4. RequesterTypeOK'
    BY DEF ExecuteInvokeGC, BeginCollection, queueVars, gcVars, reqVars, vars, RequesterTypeOK,
       QueueTypeOK, GCTypeOK
  <1>5. StartInv'
    BY DEF ExecuteInvokeGC, BeginCollection, queueVars, gcVars, reqVars, vars, QueueTypeOK,
       GCTypeOK, RequesterTypeOK, StartInv
  <1>6. ExitInv'
    BY DEF ExecuteInvokeGC, BeginCollection, queueVars, gcVars, reqVars, vars, QueueTypeOK,
       GCTypeOK, RequesterTypeOK, ExitInv, TasksInv, Tasks, OrderInv, StartInv
  <1>7. OrderInv'
    BY DEF ExecuteInvokeGC, BeginCollection, queueVars, gcVars, reqVars, vars, QueueTypeOK,
       GCTypeOK, RequesterTypeOK, TasksInv, Tasks, OrderInv, QueuedTasks, StartInv
  <1>8. WaitInv'
    BY DEF ExecuteInvokeGC, BeginCollection, queueVars, gcVars, reqVars, vars, QueueTypeOK,
       GCTypeOK, RequesterTypeOK, WaitInv, Ahead, StartInv
  <1>9. ServedOnReturn'
    BY DEF ExecuteInvokeGC, BeginCollection, queueVars, gcVars, reqVars, vars, QueueTypeOK,
       GCTypeOK, RequesterTypeOK, ServedOnReturn, WaitInv, ExitInv, StartInv
  <1> QED BY <1>1, <1>2, <1>3, <1>4, <1>5, <1>6, <1>7, <1>8, <1>9

LEMMA ExecuteTimeoutInv ==
    ASSUME IInv, ~EarlyRequests, NEW force \in BOOLEAN, ExecuteTimeout(force)
    PROVE  IInv'
  <1> USE ReasonAssumption DEF IInv, TypeOK, kIndexExit, kAsyncIndex, kInvalidGCReason,
        kSyncIndexStartValue, kPrioTimeout, kPrioInvokeGC
  <1>1. TasksInv'
    BY DEF ExecuteTimeout, BeginCollection, queueVars, gcVars, reqVars, vars, QueueTypeOK,
       GCTypeOK, RequesterTypeOK, TasksInv, Tasks, QueuedTasks, TaskTypes
  <1>2. QueueTypeOK'
    BY DEF ExecuteTimeout, BeginCollection, queueVars, gcVars, reqVars, vars, TasksInv,
       QueuedTasks, QueueTypeOK
  <1>3. GCTypeOK'
    BY DEF ExecuteTimeout, BeginCollection, queueVars, gcVars, reqVars, vars, TasksInv, GCTypeOK,
       TaskTypes
  <1>4. RequesterTypeOK'
    BY DEF ExecuteTimeout, BeginCollection, queueVars, gcVars, reqVars, vars, RequesterTypeOK,
       QueueTypeOK, GCTypeOK
  <1>5. StartInv'
    BY DEF ExecuteTimeout, BeginCollection, queueVars, gcVars, reqVars, vars, QueueTypeOK,
       GCTypeOK, RequesterTypeOK, StartInv
  <1>6. ExitInv'
    BY DEF ExecuteTimeout, BeginCollection, queueVars, gcVars, reqVars, vars, QueueTypeOK,
       GCTypeOK, RequesterTypeOK, ExitInv, TasksInv, Tasks, OrderInv, StartInv
  <1>7. OrderInv'
    BY DEF ExecuteTimeout, BeginCollection, queueVars, gcVars, reqVars, vars, QueueTypeOK,
       GCTypeOK, RequesterTypeOK, TasksInv, Tasks, OrderInv, QueuedTasks, StartInv
  <1>8. WaitInv'
    BY DEF ExecuteTimeout, BeginCollection, queueVars, gcVars, reqVars, vars, QueueTypeOK,
       GCTypeOK, RequesterTypeOK, WaitInv, Ahead, StartInv
  <1>9. ServedOnReturn'
    BY DEF ExecuteTimeout, BeginCollection, queueVars, gcVars, reqVars, vars, QueueTypeOK,
       GCTypeOK, RequesterTypeOK, ServedOnReturn, WaitInv, ExitInv, StartInv
  <1> QED BY <1>1, <1>2, <1>3, <1>4, <1>5, <1>6, <1>7, <1>8, <1>9

LEMMA CollectInv ==
    ASSUME IInv, ~EarlyRequests, Collect
    PROVE  IInv'
  <1> USE ReasonAssumption DEF IInv, TypeOK, kIndexExit, kAsyncIndex, kInvalidGCReason,
        kSyncIndexStartValue, kPrioTimeout, kPrioInvokeGC
  <1>1. TasksInv'
    BY DEF Collect, NotifyGCFinished, NotifyWaiters, Nothing, Task, queueVars, gcVars, reqVars,
       vars, QueueTypeOK, GCTypeOK, RequesterTypeOK, TasksInv, Tasks, QueuedTasks, TaskTypes
  <1>2. QueueTypeOK'
    <2>1. \A i \in DOMAIN syncTaskQueue' : /\ syncTaskQueue'[i].type \in {"InvokeGC", "Terminate"}
                                          /\ syncTaskQueue'[i].index \in 1..MaxIndex
      BY <1>1, QueueElement DEF TasksInv
    <2> QED BY <2>1, ReasonAssumption DEF Collect, NotifyGCFinished, Nothing, Task, queueVars,
          QueueTypeOK
  <1>3. GCTypeOK'
    <2>0. isGcTriggered' \in BOOLEAN /\ timedOut' \in BOOLEAN
      BY Zenon DEF Collect, NotifyGCFinished, GCTypeOK
    <2>1. gtask'.type \in TaskTypes /\ gtask'.reason \in Reasons \cup {kInvalidGCReason}
          /\ gtask'.index \in -1..MaxIndex
      BY <1>1 DEF TasksInv, Tasks
    <2> QED BY <2>0, <2>1, ReasonAssumption DEF Collect, NotifyGCFinished, Nothing, Task,
          GCTypeOK, QueuedTasks
  <1>4. RequesterTypeOK'
    <2>1. /\ rpc' \in [Requesters -> {"run", "notify", "wait", "blocked", "returned", "lite",
                                      "stop_enter", "stopping", "stopping_blocked"}]
      BY DEF Collect, NotifyGCFinished, NotifyWaiters, RequesterTypeOK
    <2> QED BY <2>1 DEF Collect, RequesterTypeOK
  <1>5. StartInv'
    BY DEF Collect, NotifyGCFinished, NotifyWaiters, Nothing, Task, queueVars, gcVars, reqVars,
       vars, QueueTypeOK, GCTypeOK, RequesterTypeOK, StartInv
  <1>6. ExitInv'
    BY DEF Collect, NotifyGCFinished, NotifyWaiters, Nothing, Task, queueVars, gcVars, reqVars,
       vars, QueueTypeOK, GCTypeOK, RequesterTypeOK, ExitInv, TasksInv, Tasks, OrderInv, StartInv
  <1>7. OrderInv'
    BY DEF Collect, NotifyGCFinished, NotifyWaiters, Nothing, Task, queueVars, gcVars, reqVars,
       vars, QueueTypeOK, GCTypeOK, RequesterTypeOK, TasksInv, Tasks, OrderInv, QueuedTasks,
       StartInv
  <1>8. WaitInv'
    <2>1. \A x \in Requesters :
             rpc'[x] \in {"wait", "blocked"} => rpc[x] \in {"wait", "blocked"}
      BY DEF Collect, NotifyGCFinished, NotifyWaiters, QueueTypeOK, GCTypeOK, RequesterTypeOK
    <2>2. /\ gpc = "collect" /\ gpc' = "dequeue" /\ UNCHANGED <<syncTaskQueue, index, reason>>
          /\ finishedGcIndex' = IF gtask.index # kAsyncIndex THEN gtask.index ELSE finishedGcIndex
          /\ owed' = [x \in Requesters |-> IF owed[x] = "begun" THEN "ended" ELSE owed[x]]
      BY DEF Collect, NotifyGCFinished, queueVars
    <2>3. \A i \in DOMAIN syncTaskQueue : syncTaskQueue[i].index > finishedGcIndex'
      BY <2>2 DEF OrderInv
    <2> QED BY <2>1, <2>2, <2>3 DEF WaitInv, Ahead, QueueTypeOK, GCTypeOK, RequesterTypeOK
  <1>9. ServedOnReturn'
    BY DEF Collect, NotifyGCFinished, NotifyWaiters, Nothing, Task, queueVars, gcVars, reqVars,
       vars, QueueTypeOK, GCTypeOK, RequesterTypeOK, ServedOnReturn, WaitInv, ExitInv, StartInv
  <1> QED BY <1>1, <1>2, <1>3, <1>4, <1>5, <1>6, <1>7, <1>8, <1>9

LEMMA ExecuteTerminateInv ==
    ASSUME IInv, ~EarlyRequests, ExecuteTerminate
    PROVE  IInv'
  <1> USE ReasonAssumption DEF IInv, TypeOK, kIndexExit, kAsyncIndex, kInvalidGCReason,
        kSyncIndexStartValue, kPrioTimeout, kPrioInvokeGC
  <1>1. TasksInv'
    BY DEF ExecuteTerminate, queueVars, gcVars, reqVars, vars, QueueTypeOK, GCTypeOK,
       RequesterTypeOK, TasksInv, Tasks, QueuedTasks, TaskTypes
  <1>2. QueueTypeOK'
    BY DEF ExecuteTerminate, queueVars, gcVars, reqVars, vars, TasksInv, QueuedTasks, QueueTypeOK
  <1>3. GCTypeOK'
    BY DEF ExecuteTerminate, queueVars, gcVars, reqVars, vars, TasksInv, GCTypeOK, TaskTypes
  <1>4. RequesterTypeOK'
    BY DEF ExecuteTerminate, queueVars, gcVars, reqVars, vars, RequesterTypeOK, QueueTypeOK,
       GCTypeOK
  <1>5. StartInv'
    BY DEF ExecuteTerminate, queueVars, gcVars, reqVars, vars, QueueTypeOK, GCTypeOK,
       RequesterTypeOK, StartInv
  <1>6. ExitInv'
    BY DEF ExecuteTerminate, queueVars, gcVars, reqVars, vars, QueueTypeOK, GCTypeOK,
       RequesterTypeOK, ExitInv, TasksInv, Tasks, OrderInv, StartInv
  <1>7. OrderInv'
    BY DEF ExecuteTerminate, queueVars, gcVars, reqVars, vars, QueueTypeOK, GCTypeOK,
       RequesterTypeOK, TasksInv, Tasks, OrderInv, QueuedTasks, StartInv
  <1>8. WaitInv'
    BY DEF ExecuteTerminate, queueVars, gcVars, reqVars, vars, QueueTypeOK, GCTypeOK,
       RequesterTypeOK, WaitInv, Ahead, StartInv
  <1>9. ServedOnReturn'
    BY DEF ExecuteTerminate, queueVars, gcVars, reqVars, vars, QueueTypeOK, GCTypeOK,
       RequesterTypeOK, ServedOnReturn, WaitInv, ExitInv, StartInv
  <1> QED BY <1>1, <1>2, <1>3, <1>4, <1>5, <1>6, <1>7, <1>8, <1>9

LEMMA GCThreadExitInv ==
    ASSUME IInv, ~EarlyRequests, GCThreadExit
    PROVE  IInv'
  <1> USE ReasonAssumption DEF IInv, TypeOK, kIndexExit, kAsyncIndex, kInvalidGCReason,
        kSyncIndexStartValue, kPrioTimeout, kPrioInvokeGC
  <1>1. TasksInv'
    BY DEF GCThreadExit, NotifyGCFinished, NotifyWaiters, ExitIndex, Nothing, Task, queueVars,
       gcVars, reqVars, vars, QueueTypeOK, GCTypeOK, RequesterTypeOK, TasksInv, Tasks,
       QueuedTasks, TaskTypes
  <1>2. QueueTypeOK'
    <2>1. \A i \in DOMAIN syncTaskQueue' : /\ syncTaskQueue'[i].type \in {"InvokeGC", "Terminate"}
                                          /\ syncTaskQueue'[i].index \in 1..MaxIndex
      BY <1>1, QueueElement DEF TasksInv
    <2> QED BY <2>1, ReasonAssumption DEF GCThreadExit, NotifyGCFinished, ExitIndex, Nothing,
          Task, queueVars, QueueTypeOK
  <1>3. GCTypeOK'
    <2>0. isGcTriggered' \in BOOLEAN /\ timedOut' \in BOOLEAN
      BY Zenon DEF GCThreadExit, NotifyGCFinished, GCTypeOK
    <2>1. gtask'.type \in TaskTypes /\ gtask'.reason \in Reasons \cup {kInvalidGCReason}
          /\ gtask'.index \in -1..MaxIndex
      BY <1>1 DEF TasksInv, Tasks
    <2> QED BY <2>0, <2>1, ReasonAssumption DEF GCThreadExit, NotifyGCFinished, ExitIndex,
          Nothing, Task, GCTypeOK, QueuedTasks
  <1>4. RequesterTypeOK'
    <2>1. /\ rpc' \in [Requesters -> {"run", "notify", "wait", "blocked", "returned", "lite",
                                      "stop_enter", "stopping", "stopping_blocked"}]
      BY DEF GCThreadExit, NotifyGCFinished, NotifyWaiters, RequesterTypeOK
    <2> QED BY <2>1 DEF GCThreadExit, RequesterTypeOK
  <1>5. StartInv'
    BY DEF GCThreadExit, NotifyGCFinished, NotifyWaiters, ExitIndex, Nothing, Task, queueVars,
       gcVars, reqVars, vars, QueueTypeOK, GCTypeOK, RequesterTypeOK, StartInv
  <1>6. ExitInv'
    BY DEF GCThreadExit, NotifyGCFinished, NotifyWaiters, ExitIndex, Nothing, Task, queueVars,
       gcVars, reqVars, vars, QueueTypeOK, GCTypeOK, RequesterTypeOK, ExitInv, TasksInv, Tasks,
       OrderInv, StartInv
  <1>7. OrderInv'
    BY SMTT(40)
       DEF GCThreadExit, NotifyGCFinished, NotifyWaiters, ExitIndex, Nothing, Task, queueVars,
       gcVars, reqVars, vars, QueueTypeOK, GCTypeOK, RequesterTypeOK, TasksInv, Tasks, OrderInv,
       QueuedTasks, StartInv
  <1>8. WaitInv'
    BY DEF GCThreadExit, NotifyGCFinished, NotifyWaiters, ExitIndex, Nothing, Task, queueVars,
       gcVars, reqVars, vars, QueueTypeOK, GCTypeOK, RequesterTypeOK, WaitInv, Ahead, StartInv
  <1>9. ServedOnReturn'
    BY DEF GCThreadExit, NotifyGCFinished, NotifyWaiters, ExitIndex, Nothing, Task, queueVars,
       gcVars, reqVars, vars, QueueTypeOK, GCTypeOK, RequesterTypeOK, ServedOnReturn, WaitInv,
       ExitInv, StartInv
  <1> QED BY <1>1, <1>2, <1>3, <1>4, <1>5, <1>6, <1>7, <1>8, <1>9

\* It is about the variables only.
LEMMA StutterInv ==
    ASSUME IInv, UNCHANGED vars
    PROVE  IInv'
  BY DEF IInv, TypeOK, QueueTypeOK, GCTypeOK, RequesterTypeOK, TasksInv, StartInv, ExitInv,
     OrderInv, WaitInv, Ahead, ServedOnReturn,
         vars, queueVars, gcVars, reqVars

\* Every step keeps it.
LEMMA NextIInv == ~EarlyRequests /\ IInv /\ [Next]_vars => IInv'
  <1> SUFFICES ASSUME ~EarlyRequests, IInv, [Next]_vars PROVE IInv'
    OBVIOUS
  <1>1. CASE GCSteps
    BY <1>1, RunTaskLoopInv, DequeueSyncInv, PushTimeoutInv, PopInv, BlockInv, WaitTimesOutInv,
       ExecuteInvokeGCInv, CollectInv, ExecuteTerminateInv, GCThreadExitInv, ExecuteTimeoutInv DEF
       GCSteps
  <1>2. CASE StopThread
    BY <1>2, StopThreadInv
  <1>3. CASE Exited \/ UNCHANGED vars
    BY <1>3, StutterInv DEF Exited
  <1>4. ASSUME NEW r \in Requesters, RequesterSteps(r) PROVE IInv'
    BY <1>4, WaitGCInv, LeaveRequestInv, LeaveLiteInv, NotifyAsyncInv, LoadWaitIndexInv,
       WaitGCStoppedInv DEF RequesterSteps
  <1>5. ASSUME NEW r \in Requesters, NEW why \in Reasons,
              EnqueueAsync(r, why) \/ EnqueueSync(r, why) \/ IgnoredInvoke(r, why)
       PROVE  IInv'
    BY <1>5, EnqueueAsyncInv, EnqueueSyncInv, IgnoredInvokeInv
  <1> QED BY <1>1, <1>2, <1>3, <1>4, <1>5 DEF Next

\* The inductive invariant holds in every reachable state.
THEOREM GCRequestInvariant == ~EarlyRequests => (Spec => []IInv)
  <1> SUFFICES ASSUME ~EarlyRequests PROVE Spec => []IInv
    OBVIOUS
  <1>1. IInv /\ [Next]_vars => IInv' BY NextIInv
  <1> QED BY <1>1, InitIInv, PTL DEF Spec

\* A task that comes out of the task word is a collection for a non-blocking
\* reason (GCTask::FromPrio, Dequeue), and every variable has its type.
THEOREM GCRequestTypeOK == ~EarlyRequests => (Spec => []TypeOK)
  <1>1. IInv => TypeOK BY DEF IInv
  <1> QED BY <1>1, GCRequestInvariant, PTL

\* A blocking request returns only after a collection for its reason that
\* began after the request has ended, or the GC thread is gone
\* (RequestGCAndWait, Enqueue, NotifyGCFinished).
THEOREM GCRequestServedOnReturn == ~EarlyRequests => (Spec => []ServedOnReturn)
  <1>1. IInv => ServedOnReturn BY DEF IInv
  <1> QED BY <1>1, GCRequestInvariant, PTL
=============================================================================
