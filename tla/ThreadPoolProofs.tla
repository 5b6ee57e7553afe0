-------------------------- MODULE ThreadPoolProofs --------------------------
(***************************************************************************)
(* Proofs about ThreadPool, for every finite set of workers and every set  *)
(* of tasks.                                                               *)
(*                                                                         *)
(* The properties are not inductive: that a stopped pool is quiet rests on *)
(* the counter of active workers and on the flag that keeps them from      *)
(* taking tasks, and that no task is left behind on where each task is (in *)
(* the queue, with a thread, or executed).  IInv says this.                *)
(***************************************************************************)
EXTENDS ThreadPool, FiniteSetTheorems, SequenceTheorems, TLAPS

Threads == Workers \cup {GC}

\* The labels of the GC thread after which Stop() has cleared the flag, and
\* those after which all workers have stopped as well.
StopPcs    == {"stop", "stop_check", "stop_wait"}
StoppedPcs == {"ready", "drain", "drain_execute", "quit", "deleted"}

\* A thread has a task exactly while it executes one.
TaskInv ==
    /\ \A w \in Workers : task[w] # NoTask <=> wpc[w] = "execute"
    /\ task[GC] # NoTask <=> gpc \in {"help_execute", "drain_execute"}

\* From Stop() to Start() the pool does not run.
FlagInv == gpc \in StoppedPcs \cup {"stop_check", "stop_wait"} => ~running

\* The constructor's Stop() is the only one that does not drain the queue.
FirstStop == gpc \in StopPcs /\ afterStop = "ready" => due = {}

InQueue(t)  == \E i \in 1..Len(taskQueue) : taskQueue[i] = t
Executed(t) == \E e \in Threads : task[e] = t

\* Until the pool is deleted, a task that was added is in the queue, with a
\* thread, or executed.
Accounted ==
    gpc # "deleted" => \A t \in Tasks \ fresh : InQueue(t) \/ Executed(t) \/ t \in done

\* Only tasks that were added are owed.
DueAdded == due \subseteq Tasks \ fresh

IInv ==
    /\ TypeOK
    /\ CountersExact
    /\ TaskInv
    /\ FlagInv
    /\ StoppedIsQuiet
    /\ FirstStop
    /\ Accounted
    /\ DueAdded
    /\ NoTaskLeftBehind

-----------------------------------------------------------------------------
(* Counting and queueing.                                                  *)

\* A set of workers is finite and no larger than the pool.
LEMMA SetOfWorkers ==
    ASSUME NEW S \in SUBSET Workers
    PROVE  IsFiniteSet(S) /\ Cardinality(S) \in 0 .. MaxThreadNum
  <1>1. IsFiniteSet(S) /\ Cardinality(S) <= Cardinality(Workers)
    BY PoolAssumption, FS_Subset
  <1>2. Cardinality(S) \in Nat /\ Cardinality(Workers) \in Nat
    BY <1>1, PoolAssumption, FS_CardinalityType
  <1>3. QED
    BY <1>1, <1>2 DEF MaxThreadNum

\* The pool has a thread.
LEMMA PoolNotEmpty == MaxThreadNum \in Nat \ {0}
  BY PoolAssumption, FS_EmptySet, FS_CardinalityType DEF MaxThreadNum

\* What a worker that returns from a wait makes of the two counters.
LEMMA AwakeCounts ==
    ASSUME TypeOK, CountersExact, NEW w \in Workers,
           wpc[w] \in {"top", "sleep_wake", "task_wake"}
    PROVE  /\ Awake(w) = Cardinality(Awakened \cup {w}) /\ Awake(w) \in Nat
           /\ Idle(w) = Cardinality(Waiting \ {w}) /\ Idle(w) \in Nat
  <1>1. /\ IsFiniteSet(Awakened) /\ IsFiniteSet(Waiting)
        /\ Cardinality(Awakened) \in Nat /\ Cardinality(Waiting) \in Nat
        /\ Cardinality(Awakened \cup {w}) \in Nat /\ Cardinality(Waiting \ {w}) \in Nat
    BY SetOfWorkers DEF Awakened, Waiting
  <1>2. Awake(w) = Cardinality(Awakened \cup {w})
    <2>1. w \in Awakened <=> wpc[w] # "sleep_wake"
      BY DEF Awakened
    <2>2. Cardinality(Awakened \cup {w})
            = IF w \in Awakened THEN Cardinality(Awakened) ELSE Cardinality(Awakened) + 1
      BY <1>1, FS_AddElement
    <2>3. QED
      BY <1>1, <2>1, <2>2 DEF Awake, CountersExact
  <1>3. Idle(w) = Cardinality(Waiting \ {w})
    <2>1. w \in Waiting <=> wpc[w] = "task_wake"
      BY DEF Waiting
    <2>2. Cardinality(Waiting \ {w})
            = IF w \in Waiting THEN Cardinality(Waiting) - 1 ELSE Cardinality(Waiting)
      BY <1>1, FS_RemoveElement
    <2>3. QED
      BY <1>1, <2>1, <2>2 DEF Idle, CountersExact
  <1>4. QED
    BY <1>1, <1>2, <1>3

\* Exact counters are in range, in the state after a step too.
LEMMA CountersInRange ==
    ASSUME CountersExact
    PROVE  currActive \in 0 .. MaxThreadNum /\ currWaiting \in 0 .. MaxThreadNum
  BY SetOfWorkers DEF CountersExact, Awakened, Waiting

LEMMA CountersInRangeNext ==
    ASSUME CountersExact'
    PROVE  currActive' \in 0 .. MaxThreadNum /\ currWaiting' \in 0 .. MaxThreadNum
  <1>1. Awakened' \in SUBSET Workers /\ Waiting' \in SUBSET Workers
    BY DEF Awakened, Waiting
  <1>2. currActive' = Cardinality(Awakened') /\ currWaiting' = Cardinality(Waiting')
    BY DEF CountersExact
  <1>3. QED
    BY <1>1, <1>2, SetOfWorkers

\* Taking the first task leaves the others in the queue.
LEMMA TakeFirst ==
    ASSUME TypeOK, taskQueue # <<>>, taskQueue' = Tail(taskQueue)
    PROVE  /\ Head(taskQueue) \in Tasks /\ taskQueue' \in Seq(Tasks)
           /\ \A t : InQueue(t) => t = Head(taskQueue) \/ InQueue(t)'
  <1>1. /\ Head(taskQueue) \in Tasks /\ Tail(taskQueue) \in Seq(Tasks)
        /\ Len(taskQueue) \in Nat /\ Len(Tail(taskQueue)) = Len(taskQueue) - 1
        /\ \A i \in 1 .. Len(Tail(taskQueue)) : Tail(taskQueue)[i] = taskQueue[i + 1]
    BY HeadTailProperties, LenProperties DEF TypeOK
  <1>2. ASSUME NEW t, NEW i \in 1 .. Len(taskQueue), taskQueue[i] = t,
               t # Head(taskQueue)
        PROVE  \E j \in 1 .. Len(taskQueue') : taskQueue'[j] = t
    <2>1. i # 1
      BY <1>2 DEF TypeOK
    <2>2. i - 1 \in 1 .. Len(taskQueue') /\ taskQueue'[i - 1] = t
      BY <1>1, <1>2, <2>1
    <2>3. QED
      BY <2>2
  <1>3. QED
    BY <1>1, <1>2 DEF InQueue

\* Adding a task keeps the others in the queue.
LEMMA AddLast ==
    ASSUME TypeOK, NEW t \in Tasks, taskQueue' = Append(taskQueue, t)
    PROVE  /\ taskQueue' \in Seq(Tasks)
           /\ InQueue(t)' /\ \A u : InQueue(u) => InQueue(u)'
  <1>1. /\ taskQueue' \in Seq(Tasks) /\ Len(taskQueue) \in Nat
        /\ Len(taskQueue') = Len(taskQueue) + 1
        /\ \A i \in 1 .. Len(taskQueue) : taskQueue'[i] = taskQueue[i]
        /\ taskQueue'[Len(taskQueue) + 1] = t
    BY AppendProperties, LenProperties DEF TypeOK
  <1>2. Len(taskQueue) + 1 \in 1 .. Len(taskQueue')
        /\ 1 .. Len(taskQueue) \subseteq 1 .. Len(taskQueue')
    BY <1>1
  <1>3. QED
    BY <1>1, <1>2 DEF InQueue

-----------------------------------------------------------------------------
(* The invariant is inductive.                                             *)

\* The constructor has counted all threads as active.
LEMMA InitIInv == Init => IInv
<1> SUFFICES ASSUME Init PROVE IInv
  OBVIOUS
<1>1. CountersExact
  <2>1. Awakened = Workers /\ Waiting = {}
    BY DEF Init, Awakened, Waiting
  <2>2. QED
    BY <2>1, FS_EmptySet DEF Init, CountersExact, MaxThreadNum
<1>2. TypeOK
  <2>1. taskQueue \in Seq(Tasks) /\ maxActive \in 1 .. MaxThreadNum
        /\ currActive \in 0 .. MaxThreadNum /\ currWaiting \in 0 .. MaxThreadNum
    BY PoolNotEmpty, EmptySeq DEF Init
  <2>2. QED
    BY <2>1 DEF Init, TypeOK, WorkerPcs, GCPcs
<1>3. TaskInv /\ FlagInv /\ StoppedIsQuiet /\ FirstStop /\ DueAdded
  BY PoolAssumption
  DEF Init, TaskInv, FlagInv, StoppedIsQuiet, FirstStop, DueAdded, StoppedPcs, StopPcs
<1>4. Accounted /\ NoTaskLeftBehind
  BY DEF Init, Accounted, NoTaskLeftBehind
<1>5. QED
  BY <1>1, <1>2, <1>3, <1>4 DEF IInv

\* A step that moves no task leaves every task where it is.
LEMMA NoTaskMoves ==
    ASSUME Accounted, UNCHANGED <<taskQueue, task, fresh, done>>,
           gpc' = "deleted" <=> gpc = "deleted"
    PROVE  Accounted'
  BY DEF Accounted, InQueue, Executed

\* A task leaves the queue for the thread that takes it.
LEMMA TaskIsTaken ==
    ASSUME TypeOK, Accounted, NEW e \in Threads, task[e] = NoTask, taskQueue # <<>>,
           task' = [task EXCEPT ![e] = Head(taskQueue)], taskQueue' = Tail(taskQueue),
           UNCHANGED <<fresh, done>>, gpc # "deleted"
    PROVE  Accounted'
  <1>1. SUFFICES ASSUME NEW t \in Tasks \ fresh
                 PROVE  InQueue(t)' \/ Executed(t)' \/ t \in done
    BY DEF Accounted
  <1>2. CASE InQueue(t)
    <2>1. t = Head(taskQueue) \/ InQueue(t)'
      BY <1>2, TakeFirst
    <2>2. task'[e] = Head(taskQueue)
      BY DEF TypeOK, Threads
    <2>3. QED
      BY <2>1, <2>2 DEF Executed
  <1>3. ASSUME NEW d \in Threads, task[d] = t PROVE Executed(t)'
    <2>1. d # e /\ task'[d] = t
      BY <1>3, PoolAssumption DEF TypeOK, Threads
    <2>2. QED
      BY <2>1 DEF Executed
  <1>4. QED
    BY <1>2, <1>3 DEF Accounted, Executed

\* It leaves the thread when it has been executed.
LEMMA TaskIsDone ==
    ASSUME TypeOK, Accounted, NEW e \in Threads,
           task' = [task EXCEPT ![e] = NoTask], done' = done \cup {task[e]},
           UNCHANGED <<fresh, taskQueue>>, gpc' = "deleted" <=> gpc = "deleted"
    PROVE  Accounted'
  <1>1. SUFFICES ASSUME gpc # "deleted", NEW t \in Tasks \ fresh
                 PROVE  InQueue(t)' \/ Executed(t)' \/ t \in done'
    BY DEF Accounted
  <1>2. CASE InQueue(t) \/ t \in done
    BY <1>2 DEF InQueue
  <1>3. ASSUME NEW d \in Threads, task[d] = t PROVE Executed(t)' \/ t \in done'
    <2>1. CASE d = e
      BY <1>3, <2>1
    <2>2. CASE d # e
      <3>1. task'[d] = t
        BY <1>3, <2>2 DEF TypeOK, Threads
      <3>2. QED
        BY <3>1 DEF Executed
    <2>3. QED
      BY <2>1, <2>2
  <1>4. QED
    BY <1>1, <1>2, <1>3 DEF Accounted, Executed

\* Waking threads, by a notification or spuriously, changes no count.
LEMMA WakingKeepsCounts ==
    ASSUME TypeOK, CountersExact, wpc' \in [Workers -> WorkerPcs],
           \A w \in Workers : \/ wpc'[w] = wpc[w]
                              \/ wpc[w] = "sleeping" /\ wpc'[w] = "sleep_wake"
                              \/ wpc[w] = "waiting" /\ wpc'[w] = "task_wake",
           UNCHANGED <<currActive, currWaiting>>
    PROVE  CountersExact'
  <1>1. Awakened' = Awakened /\ Waiting' = Waiting
    BY DEF Awakened, Waiting
  <1>2. QED
    BY <1>1 DEF CountersExact

\* A worker's steps preserve the invariant.
LEMMA WorkerIInv ==
    ASSUME IInv, NEW w \in Workers, WorkerFunc(w)
    PROVE  IInv'
  <1> USE DEF flags, counters, history, StopPcs, StoppedPcs, Threads, WorkerPcs, GCPcs
  <1>0. /\ TypeOK /\ CountersExact /\ TaskInv /\ FlagInv /\ StoppedIsQuiet /\ FirstStop
        /\ Accounted /\ DueAdded /\ NoTaskLeftBehind
    BY DEF IInv
  <1>a. /\ Awakened \cup {w} \in SUBSET Workers /\ IsFiniteSet(Awakened \cup {w})
        /\ Waiting \ {w} \in SUBSET Workers /\ IsFiniteSet(Waiting \ {w})
        /\ IsFiniteSet(Awakened) /\ IsFiniteSet(Waiting)
    BY SetOfWorkers DEF Awakened, Waiting
  <1>b. ASSUME wpc[w] \in {"top", "sleep_wake", "task_wake"}
        PROVE  /\ Awake(w) = Cardinality(Awakened \cup {w}) /\ Awake(w) \in Nat
               /\ Idle(w) = Cardinality(Waiting \ {w}) /\ Idle(w) \in Nat
               /\ Cardinality((Awakened \cup {w}) \ {w}) = Awake(w) - 1
               /\ Cardinality((Waiting \ {w}) \cup {w}) = Idle(w) + 1
    <2>1. /\ Awake(w) = Cardinality(Awakened \cup {w}) /\ Awake(w) \in Nat
          /\ Idle(w) = Cardinality(Waiting \ {w}) /\ Idle(w) \in Nat
      BY <1>0, <1>b, AwakeCounts
    <2>2. Cardinality((Awakened \cup {w}) \ {w}) = Cardinality(Awakened \cup {w}) - 1
      BY <1>a, FS_RemoveElement
    <2>3. Cardinality((Waiting \ {w}) \cup {w}) = Cardinality(Waiting \ {w}) + 1
      BY <1>a, FS_AddElement
    <2>4. QED
      BY <2>1, <2>2, <2>3
  <1>1. CASE Sleep(w)
    <2> USE <1>1 DEF Sleep, NotifyStopped
    <2>1. CountersExact'
      <3>1. Awakened' = (Awakened \cup {w}) \ {w} /\ Waiting' = Waiting
        BY <1>0 DEF TypeOK, Awakened, Waiting
      <3>2. QED
        BY <1>0, <1>b, <3>1 DEF CountersExact
    <2>2. TypeOK'
      BY <1>0, <2>1, CountersInRangeNext DEF TypeOK
    <2>3. TaskInv' /\ FlagInv' /\ StoppedIsQuiet' /\ FirstStop'
      BY <1>0 DEF TypeOK, TaskInv, FlagInv, StoppedIsQuiet, FirstStop
    <2>4. Accounted'
      BY <1>0, NoTaskMoves
    <2>5. DueAdded' /\ NoTaskLeftBehind'
      BY <1>0 DEF DueAdded, NoTaskLeftBehind
    <2>6. QED
      BY <2>1, <2>2, <2>3, <2>4, <2>5 DEF IInv
  <1>2. CASE WaitForTask(w)
    <2> USE <1>2 DEF WaitForTask, PastSleep, NotifyWorkDone
    <2>1. CountersExact'
      <3>1. Awakened' = Awakened \cup {w} /\ Waiting' = (Waiting \ {w}) \cup {w}
        BY <1>0 DEF TypeOK, Awakened, Waiting
      <3>2. QED
        BY <1>0, <1>b, <3>1 DEF CountersExact
    <2>2. TypeOK'
      BY <1>0, <2>1, CountersInRangeNext DEF TypeOK
    <2>3. TaskInv' /\ FlagInv' /\ StoppedIsQuiet' /\ FirstStop'
      BY <1>0 DEF TypeOK, TaskInv, FlagInv, StoppedIsQuiet, FirstStop
    <2>4. Accounted'
      BY <1>0, NoTaskMoves
    <2>5. DueAdded' /\ NoTaskLeftBehind'
      BY <1>0 DEF DueAdded, NoTaskLeftBehind
    <2>6. QED
      BY <2>1, <2>2, <2>3, <2>4, <2>5 DEF IInv
  <1>3. CASE TakeTask(w)
    <2> USE <1>3 DEF TakeTask, PastSleep
    <2>0. /\ Head(taskQueue) \in Tasks /\ taskQueue' \in Seq(Tasks)
          /\ task[w] = NoTask /\ gpc \notin StoppedPcs /\ w # GC
      BY <1>0, TakeFirst, PoolAssumption DEF TaskInv, FlagInv
    <2>1. CountersExact'
      <3>1. Awakened' = Awakened \cup {w} /\ Waiting' = Waiting \ {w}
        BY <1>0 DEF TypeOK, Awakened, Waiting
      <3>2. QED
        BY <1>0, <1>b, <3>1 DEF CountersExact
    <2>2. TypeOK'
      BY <1>0, <2>0, <2>1, CountersInRangeNext DEF TypeOK
    <2>3. TaskInv' /\ FlagInv' /\ StoppedIsQuiet' /\ FirstStop'
      BY <1>0, <2>0, PoolAssumption
      DEF TypeOK, TaskInv, FlagInv, StoppedIsQuiet, FirstStop
    <2>4. Accounted'
      BY <1>0, <2>0, TaskIsTaken
    <2>5. DueAdded' /\ NoTaskLeftBehind'
      BY <1>0 DEF DueAdded, NoTaskLeftBehind
    <2>6. QED
      BY <2>1, <2>2, <2>3, <2>4, <2>5 DEF IInv
  <1>4. CASE GoRound(w)
    <2> USE <1>4 DEF GoRound, PastSleep
    <2>1. CountersExact'
      <3>1. Awakened' = Awakened \cup {w} /\ Waiting' = Waiting \ {w}
        BY <1>0 DEF TypeOK, Awakened, Waiting
      <3>2. QED
        BY <1>0, <1>b, <3>1 DEF CountersExact
    <2>2. TypeOK'
      BY <1>0, <2>1, CountersInRangeNext DEF TypeOK
    <2>3. TaskInv' /\ FlagInv' /\ StoppedIsQuiet' /\ FirstStop'
      BY <1>0 DEF TypeOK, TaskInv, FlagInv, StoppedIsQuiet, FirstStop
    <2>4. Accounted'
      BY <1>0, NoTaskMoves
    <2>5. DueAdded' /\ NoTaskLeftBehind'
      BY <1>0 DEF DueAdded, NoTaskLeftBehind
    <2>6. QED
      BY <2>1, <2>2, <2>3, <2>4, <2>5 DEF IInv
  <1>5. CASE FinishTask(w)
    <2> USE <1>5 DEF FinishTask
    <2>0. task[w] \in Tasks /\ w # GC
      BY <1>0, PoolAssumption DEF TaskInv, TypeOK
    <2>1. CountersExact'
      <3>1. Awakened' = Awakened /\ Waiting' = Waiting
        BY <1>0 DEF TypeOK, Awakened, Waiting
      <3>2. QED
        BY <1>0, <3>1 DEF CountersExact
    <2>2. TypeOK'
      BY <1>0, <2>0 DEF TypeOK
    <2>3. TaskInv' /\ FlagInv' /\ StoppedIsQuiet' /\ FirstStop'
      BY <1>0, <2>0, PoolAssumption
      DEF TypeOK, TaskInv, FlagInv, StoppedIsQuiet, FirstStop
    <2>4. Accounted'
      BY <1>0, TaskIsDone
    <2>5. DueAdded' /\ NoTaskLeftBehind'
      BY <1>0 DEF DueAdded, NoTaskLeftBehind
    <2>6. QED
      BY <2>1, <2>2, <2>3, <2>4, <2>5 DEF IInv
  <1>6. CASE WorkerExit(w)
    <2> USE <1>6 DEF WorkerExit, NotifyStopped
    <2>1. CountersExact'
      <3>1. w \in Awakened /\ Awakened' = Awakened \ {w} /\ Waiting' = Waiting
        BY <1>0 DEF TypeOK, Awakened, Waiting
      <3>2. QED
        BY <1>0, <1>a, <3>1, FS_RemoveElement DEF CountersExact
    <2>2. TypeOK'
      BY <1>0, <2>1, CountersInRangeNext DEF TypeOK
    <2>3. TaskInv' /\ FlagInv' /\ StoppedIsQuiet' /\ FirstStop'
      BY <1>0 DEF TypeOK, TaskInv, FlagInv, StoppedIsQuiet, FirstStop
    <2>4. Accounted'
      BY <1>0, NoTaskMoves
    <2>5. DueAdded' /\ NoTaskLeftBehind'
      BY <1>0 DEF DueAdded, NoTaskLeftBehind
    <2>6. QED
      BY <2>1, <2>2, <2>3, <2>4, <2>5 DEF IInv
  <1>7. QED
    BY <1>1, <1>2, <1>3, <1>4, <1>5, <1>6 DEF WorkerFunc

\* A pool without active workers executes nothing: what Stop() waits for.
LEMMA NobodyActive ==
    ASSUME CountersExact, currActive = 0
    PROVE  \A w \in Workers : wpc[w] # "execute"
  <1>1. IsFiniteSet(Awakened) /\ Cardinality(Awakened) = 0
    BY SetOfWorkers DEF CountersExact, Awakened
  <1>2. Awakened = {}
    BY <1>1, FS_EmptySet
  <1>3. QED
    BY <1>2 DEF Awakened

\* The GC thread's steps preserve the invariant.
LEMMA GCIInv ==
    ASSUME IInv, \/ GCSteps \/ Start \/ DrainTaskQueue \/ GCQuit \/ Destroy \/ Deleted
                 \/ SpuriousGC
                 \/ \E n \in 1 .. MaxThreadNum + 1 : SetMaxActiveThreadNum(n)
                 \/ \E addToExecute \in BOOLEAN : WaitFinish(addToExecute)
    PROVE  IInv'
  <1> USE DEF flags, counters, history, StopPcs, StoppedPcs, Threads, WorkerPcs, GCPcs
  <1>0. /\ TypeOK /\ CountersExact /\ TaskInv /\ FlagInv /\ StoppedIsQuiet /\ FirstStop
        /\ Accounted /\ DueAdded /\ NoTaskLeftBehind
    BY DEF IInv
  <1>1. CASE Start
    <2> USE <1>1 DEF Start, WakeSleepers, WakeFrom
    <2>1. CountersExact'
      BY <1>0, WakingKeepsCounts DEF TypeOK
    <2>2. TypeOK'
      BY <1>0, PoolNotEmpty DEF TypeOK
    <2>3. TaskInv' /\ FlagInv' /\ StoppedIsQuiet' /\ FirstStop'
      BY <1>0, PoolAssumption
      DEF TypeOK, TaskInv, FlagInv, StoppedIsQuiet, FirstStop
    <2>4. Accounted'
      BY <1>0, NoTaskMoves
    <2>5. DueAdded' /\ NoTaskLeftBehind'
      BY <1>0 DEF DueAdded, NoTaskLeftBehind
    <2>6. QED
      BY <2>1, <2>2, <2>3, <2>4, <2>5 DEF IInv
  <1>2. CASE DrainTaskQueue
    <2> USE <1>2 DEF DrainTaskQueue, Owe
    <2>1. CountersExact'
      BY <1>0, WakingKeepsCounts DEF TypeOK
    <2>2. TypeOK'
      BY <1>0, PoolNotEmpty DEF TypeOK
    <2>3. TaskInv' /\ FlagInv' /\ StoppedIsQuiet' /\ FirstStop'
      BY <1>0, PoolAssumption
      DEF TypeOK, TaskInv, FlagInv, StoppedIsQuiet, FirstStop
    <2>4. Accounted'
      BY <1>0, NoTaskMoves
    <2>5. DueAdded' /\ NoTaskLeftBehind'
      BY <1>0 DEF DueAdded, NoTaskLeftBehind
    <2>6. QED
      BY <2>1, <2>2, <2>3, <2>4, <2>5 DEF IInv
  <1>3. CASE GCQuit
    <2> USE <1>3 DEF GCQuit
    <2>1. CountersExact'
      BY <1>0, WakingKeepsCounts DEF TypeOK
    <2>2. TypeOK'
      BY <1>0, PoolNotEmpty DEF TypeOK
    <2>3. TaskInv' /\ FlagInv' /\ StoppedIsQuiet' /\ FirstStop'
      BY <1>0, PoolAssumption
      DEF TypeOK, TaskInv, FlagInv, StoppedIsQuiet, FirstStop
    <2>4. Accounted'
      BY <1>0, NoTaskMoves
    <2>5. DueAdded' /\ NoTaskLeftBehind'
      BY <1>0 DEF DueAdded, NoTaskLeftBehind
    <2>6. QED
      BY <2>1, <2>2, <2>3, <2>4, <2>5 DEF IInv
  <1>4. CASE SpuriousGC
    <2> USE <1>4 DEF SpuriousGC
    <2>1. CountersExact'
      BY <1>0, WakingKeepsCounts DEF TypeOK
    <2>2. TypeOK'
      BY <1>0, PoolNotEmpty DEF TypeOK
    <2>3. TaskInv' /\ FlagInv' /\ StoppedIsQuiet' /\ FirstStop'
      BY <1>0, PoolAssumption
      DEF TypeOK, TaskInv, FlagInv, StoppedIsQuiet, FirstStop
    <2>4. Accounted'
      BY <1>0, NoTaskMoves
    <2>5. DueAdded' /\ NoTaskLeftBehind'
      BY <1>0 DEF DueAdded, NoTaskLeftBehind
    <2>6. QED
      BY <2>1, <2>2, <2>3, <2>4, <2>5 DEF IInv
  <1>5. CASE Finish
    <2> USE <1>5 DEF Finish
    <2>1. CountersExact'
      BY <1>0, WakingKeepsCounts DEF TypeOK
    <2>2. TypeOK'
      BY <1>0, PoolNotEmpty DEF TypeOK
    <2>3. TaskInv' /\ FlagInv' /\ StoppedIsQuiet' /\ FirstStop'
      BY <1>0, PoolAssumption
      DEF TypeOK, TaskInv, FlagInv, StoppedIsQuiet, FirstStop
    <2>4. Accounted'
      BY <1>0, NoTaskMoves
    <2>5. DueAdded' /\ NoTaskLeftBehind'
      BY <1>0 DEF DueAdded, NoTaskLeftBehind
    <2>6. QED
      BY <2>1, <2>2, <2>3, <2>4, <2>5 DEF IInv
  <1>6. CASE Stop
    <2> USE <1>6 DEF Stop, AfterStopCheck, WakeWaiters, WakeFrom
    <2>1. CountersExact'
      BY <1>0, WakingKeepsCounts DEF TypeOK
    <2>2. TypeOK'
      BY <1>0, PoolNotEmpty DEF TypeOK
    <2>3. TaskInv' /\ FlagInv' /\ StoppedIsQuiet' /\ FirstStop'
      BY <1>0, NobodyActive, PoolAssumption
      DEF TypeOK, TaskInv, FlagInv, StoppedIsQuiet, FirstStop
    <2>4. Accounted'
      <3>1. gpc' # "deleted"
        BY <1>0 DEF TypeOK
      <3>2. QED
        BY <1>0, <3>1, NoTaskMoves
    <2>5. DueAdded' /\ NoTaskLeftBehind'
      BY <1>0 DEF DueAdded, NoTaskLeftBehind, FirstStop, TypeOK
    <2>6. QED
      BY <2>1, <2>2, <2>3, <2>4, <2>5 DEF IInv
  <1>7. CASE StopCheck
    <2> USE <1>7 DEF StopCheck, AfterStopCheck
    <2>1. CountersExact'
      BY <1>0, WakingKeepsCounts DEF TypeOK
    <2>2. TypeOK'
      BY <1>0, PoolNotEmpty DEF TypeOK
    <2>3. TaskInv' /\ FlagInv' /\ StoppedIsQuiet' /\ FirstStop'
      BY <1>0, NobodyActive, PoolAssumption
      DEF TypeOK, TaskInv, FlagInv, StoppedIsQuiet, FirstStop
    <2>4. Accounted'
      <3>1. gpc' # "deleted"
        BY <1>0 DEF TypeOK
      <3>2. QED
        BY <1>0, <3>1, NoTaskMoves
    <2>5. DueAdded' /\ NoTaskLeftBehind'
      BY <1>0 DEF DueAdded, NoTaskLeftBehind, FirstStop, TypeOK
    <2>6. QED
      BY <2>1, <2>2, <2>3, <2>4, <2>5 DEF IInv
  <1>8. ASSUME NEW n \in 1 .. MaxThreadNum + 1, SetMaxActiveThreadNum(n) PROVE IInv'
    <2> USE <1>8 DEF SetMaxActiveThreadNum, WakeSleepers, WakeFrom
    <2>1. CountersExact'
      BY <1>0, WakingKeepsCounts DEF TypeOK
    <2>2. TypeOK'
      BY <1>0, PoolNotEmpty DEF TypeOK
    <2>3. TaskInv' /\ FlagInv' /\ StoppedIsQuiet' /\ FirstStop'
      BY <1>0, PoolAssumption
      DEF TypeOK, TaskInv, FlagInv, StoppedIsQuiet, FirstStop
    <2>4. Accounted'
      BY <1>0, NoTaskMoves
    <2>5. DueAdded' /\ NoTaskLeftBehind'
      BY <1>0 DEF DueAdded, NoTaskLeftBehind
    <2>6. QED
      BY <2>1, <2>2, <2>3, <2>4, <2>5 DEF IInv
  <1>9. ASSUME NEW addToExecute \in BOOLEAN, WaitFinish(addToExecute) PROVE IInv'
    <2> USE <1>9 DEF WaitFinish, Owe
    <2>1. CountersExact'
      BY <1>0, WakingKeepsCounts DEF TypeOK
    <2>2. TypeOK'
      BY <1>0, PoolNotEmpty DEF TypeOK
    <2>3. TaskInv' /\ FlagInv' /\ StoppedIsQuiet' /\ FirstStop'
      BY <1>0, PoolAssumption
      DEF TypeOK, TaskInv, FlagInv, StoppedIsQuiet, FirstStop
    <2>4. Accounted'
      BY <1>0, NoTaskMoves
    <2>5. DueAdded' /\ NoTaskLeftBehind'
      BY <1>0 DEF DueAdded, NoTaskLeftBehind
    <2>6. QED
      BY <2>1, <2>2, <2>3, <2>4, <2>5 DEF IInv
  <1>10. CASE Destroy
    <2> USE <1>10 DEF Destroy
    <2>1. CountersExact'
      BY <1>0, WakingKeepsCounts DEF TypeOK
    <2>2. TypeOK'
      BY <1>0, EmptySeq DEF TypeOK
    <2>3. TaskInv' /\ FlagInv' /\ StoppedIsQuiet' /\ FirstStop'
      BY <1>0, PoolAssumption
      DEF TypeOK, TaskInv, FlagInv, StoppedIsQuiet, FirstStop
    <2>4. Accounted'
      BY DEF Accounted
    <2>5. DueAdded' /\ NoTaskLeftBehind'
      BY <1>0 DEF DueAdded, NoTaskLeftBehind
    <2>6. QED
      BY <2>1, <2>2, <2>3, <2>4, <2>5 DEF IInv
  <1>11. CASE Deleted
    BY <1>0, <1>11 DEF Deleted, vars, IInv, TypeOK, CountersExact, Awakened, Waiting, TaskInv,
         FlagInv, StoppedIsQuiet, FirstStop, Accounted, InQueue, Executed, DueAdded,
         NoTaskLeftBehind
  <1>12. CASE Help
    <2> USE <1>12 DEF Help, GCTake
    <2>0. GC \in Threads /\ task[GC] = NoTask
      BY <1>0 DEF TaskInv
    <2>1. CountersExact'
      BY <1>0, WakingKeepsCounts DEF TypeOK
    <2>2. TypeOK'
      BY <1>0, TakeFirst DEF TypeOK
    <2>3. TaskInv' /\ FlagInv' /\ StoppedIsQuiet' /\ FirstStop'
      <3>1. taskQueue # <<>> => Head(taskQueue) \in Tasks
        BY <1>0, HeadTailProperties DEF TypeOK
      <3>2. QED
        BY <1>0, <3>1, PoolAssumption
        DEF TypeOK, TaskInv, FlagInv, StoppedIsQuiet, FirstStop
    <2>4. Accounted'
      <3>1. CASE taskQueue # <<>> /\ running /\ ~exit
        BY <1>0, <2>0, <3>1, TaskIsTaken
      <3>2. CASE ~(taskQueue # <<>> /\ running /\ ~exit)
        BY <1>0, <3>2, NoTaskMoves
      <3>3. QED
        BY <3>1, <3>2
    <2>5. DueAdded' /\ NoTaskLeftBehind'
      BY <1>0 DEF DueAdded, NoTaskLeftBehind
    <2>6. QED
      BY <2>1, <2>2, <2>3, <2>4, <2>5 DEF IInv
  <1>13. CASE Drain
    <2> USE <1>13 DEF Drain, GCTake, MayDrain
    <2>0. GC \in Threads /\ task[GC] = NoTask
      BY <1>0 DEF TaskInv
    <2>1. CountersExact'
      BY <1>0, WakingKeepsCounts DEF TypeOK
    <2>2. TypeOK'
      BY <1>0, TakeFirst DEF TypeOK
    <2>3. TaskInv' /\ FlagInv' /\ StoppedIsQuiet' /\ FirstStop'
      <3>1. taskQueue # <<>> => Head(taskQueue) \in Tasks
        BY <1>0, HeadTailProperties DEF TypeOK
      <3>2. QED
        BY <1>0, <3>1, PoolAssumption
        DEF TypeOK, TaskInv, FlagInv, StoppedIsQuiet, FirstStop
    <2>4. Accounted'
      <3>1. CASE taskQueue # <<>>
        BY <1>0, <2>0, <3>1, TaskIsTaken
      <3>2. CASE taskQueue = <<>>
        BY <1>0, <3>2, NoTaskMoves
      <3>3. QED
        BY <3>1, <3>2
    <2>5. DueAdded'
      BY <1>0 DEF DueAdded
    <2>6. NoTaskLeftBehind'
      <3>1. CASE taskQueue # <<>>
        BY <3>1 DEF NoTaskLeftBehind
      <3>2. CASE taskQueue = <<>>
        <4>1. \A t : ~InQueue(t)
          BY <3>2, EmptySeq DEF InQueue
        <4>2. \A t \in Tasks : ~Executed(t)
          BY <1>0, <2>0, PoolAssumption DEF Executed, TaskInv, StoppedIsQuiet
        <4>3. Tasks \ fresh \subseteq done
          BY <1>0, <4>1, <4>2 DEF Accounted
        <4>4. QED
          BY <1>0, <4>3 DEF DueAdded, NoTaskLeftBehind
      <3>3. QED
        BY <3>1, <3>2
    <2>7. QED
      BY <2>1, <2>2, <2>3, <2>4, <2>5, <2>6 DEF IInv
  <1>14. CASE GCFinishTask
    <2> USE <1>14 DEF GCFinishTask
    <2>0. task[GC] \in Tasks /\ GC \in Threads
      BY <1>0 DEF TaskInv, TypeOK
    <2>1. CountersExact'
      BY <1>0, WakingKeepsCounts DEF TypeOK
    <2>2. TypeOK'
      BY <1>0, <2>0 DEF TypeOK
    <2>3. TaskInv' /\ FlagInv' /\ StoppedIsQuiet' /\ FirstStop'
      BY <1>0, PoolAssumption
      DEF TypeOK, TaskInv, FlagInv, StoppedIsQuiet, FirstStop
    <2>4. Accounted'
      BY <1>0, <2>0, TaskIsDone
    <2>5. DueAdded' /\ NoTaskLeftBehind'
      BY <1>0 DEF DueAdded, NoTaskLeftBehind
    <2>6. QED
      BY <2>1, <2>2, <2>3, <2>4, <2>5 DEF IInv
  <1>15. QED
    BY <1>1, <1>2, <1>3, <1>4, <1>5, <1>6, <1>7, <1>8, <1>9, <1>10, <1>11, <1>12, <1>13,
       <1>14 DEF GCSteps

\* AddTask() preserves the invariant, whoever calls it.
LEMMA AddIInv ==
    ASSUME IInv, NEW t \in Tasks,
           AddByThread(t) \/ \E e \in Workers \cup {GC} : AddByTask(e, t)
    PROVE  IInv'
  <1> USE DEF flags, counters, history, StopPcs, StoppedPcs, Threads, WorkerPcs, GCPcs
  <1>0. /\ TypeOK /\ CountersExact /\ TaskInv /\ FlagInv /\ StoppedIsQuiet /\ FirstStop
        /\ Accounted /\ DueAdded /\ NoTaskLeftBehind
    BY DEF IInv
  <1>1. AddTask(t) /\ due \subseteq due' /\ due' \subseteq due \cup {t}
    BY DEF AddByThread, AddByTask
  <1>2. due' = due \/ (gpc # "ready" /\ due # {})
    <2>1. ASSUME NEW e \in Workers \cup {GC}, AddByTask(e, t)
          PROVE  due' = due \/ (gpc # "ready" /\ due # {})
      <3>1. task[e] # NoTask /\ due' = IF task[e] \in due THEN due \cup {t} ELSE due
        BY <2>1 DEF AddByTask
      <3>2. gpc # "ready"
        BY <1>0, <3>1 DEF TaskInv, StoppedIsQuiet
      <3>3. QED
        BY <3>1, <3>2
    <2>2. CASE AddByThread(t)
      BY <2>2 DEF AddByThread
    <2>3. QED
      BY <2>1, <2>2
  <1> USE <1>1 DEF AddTask, NotifyOne
  <1>3. /\ wpc' \in [Workers -> WorkerPcs]
        /\ \A w \in Workers : \/ wpc'[w] = wpc[w]
                              \/ wpc[w] = "waiting" /\ wpc'[w] = "task_wake"
    BY <1>0 DEF TypeOK
  <1>4. CountersExact'
    BY <1>0, <1>3, WakingKeepsCounts
  <1>5. TypeOK'
    BY <1>0, <1>3, AddLast DEF TypeOK
  <1>6. TaskInv' /\ FlagInv' /\ StoppedIsQuiet' /\ FirstStop'
    BY <1>0, <1>2, <1>3 DEF TypeOK, TaskInv, FlagInv, StoppedIsQuiet, FirstStop
  <1>7. Accounted'
    <2>1. InQueue(t)' /\ \A u : InQueue(u) => InQueue(u)'
      BY <1>0, AddLast
    <2>2. \A u : Executed(u) => Executed(u)'
      BY DEF Executed
    <2>3. QED
      BY <1>0, <2>1, <2>2 DEF Accounted
  <1>8. DueAdded' /\ NoTaskLeftBehind'
    BY <1>0, <1>2 DEF DueAdded, NoTaskLeftBehind
  <1>9. QED
    BY <1>4, <1>5, <1>6, <1>7, <1>8 DEF IInv

\* Exit() and spurious wake-ups preserve the invariant.
LEMMA ExitIInv ==
    ASSUME IInv, Exit \/ \E w \in Workers : SpuriousWorker(w)
    PROVE  IInv'
  <1> USE DEF flags, counters, history, StopPcs, StoppedPcs, Threads, WorkerPcs, GCPcs
  <1>0. /\ TypeOK /\ CountersExact /\ TaskInv /\ FlagInv /\ StoppedIsQuiet /\ FirstStop
        /\ Accounted /\ DueAdded /\ NoTaskLeftBehind
    BY DEF IInv
  <1>1. CASE Exit
    <2> USE <1>1 DEF Exit, ExitWakes, WakeSleepers, WakeWaiters, WakeFrom
    <2>1. CountersExact'
      BY <1>0, WakingKeepsCounts DEF TypeOK
    <2>2. TypeOK'
      BY <1>0 DEF TypeOK
    <2>3. TaskInv' /\ FlagInv' /\ StoppedIsQuiet' /\ FirstStop'
      BY <1>0 DEF TypeOK, TaskInv, FlagInv, StoppedIsQuiet, FirstStop
    <2>4. Accounted'
      BY <1>0, NoTaskMoves
    <2>5. DueAdded' /\ NoTaskLeftBehind'
      BY <1>0 DEF DueAdded, NoTaskLeftBehind
    <2>6. QED
      BY <2>1, <2>2, <2>3, <2>4, <2>5 DEF IInv
  <1>2. ASSUME NEW w \in Workers, SpuriousWorker(w) PROVE IInv'
    <2> USE <1>2 DEF SpuriousWorker
    <2>1. CountersExact'
      BY <1>0, WakingKeepsCounts DEF TypeOK
    <2>2. TypeOK'
      BY <1>0 DEF TypeOK
    <2>3. TaskInv' /\ FlagInv' /\ StoppedIsQuiet' /\ FirstStop'
      BY <1>0 DEF TypeOK, TaskInv, FlagInv, StoppedIsQuiet, FirstStop
    <2>4. Accounted'
      BY <1>0, NoTaskMoves
    <2>5. DueAdded' /\ NoTaskLeftBehind'
      BY <1>0 DEF DueAdded, NoTaskLeftBehind
    <2>6. QED
      BY <2>1, <2>2, <2>3, <2>4, <2>5 DEF IInv
  <1>3. QED
    BY <1>1, <1>2

\* Every step preserves the invariant.
LEMMA NextIInv == IInv /\ [Next]_vars => IInv'
<1> SUFFICES ASSUME IInv, [Next]_vars PROVE IInv'
  OBVIOUS
<1>1. CASE Next
  BY <1>1, WorkerIInv, GCIInv, AddIInv, ExitIInv DEF Next, Steady
<1>2. CASE UNCHANGED vars
  BY <1>2 DEF vars, flags, counters, history, IInv, TypeOK, CountersExact, Awakened,
     Waiting, TaskInv, FlagInv, StoppedIsQuiet, FirstStop, Accounted, InQueue, Executed,
     DueAdded, NoTaskLeftBehind
<1>3. QED
  BY <1>1, <1>2

-----------------------------------------------------------------------------
(* The properties.                                                         *)

\* The conjunction of everything above holds throughout.
THEOREM ThreadPoolInvariant == Spec => []IInv
<1>. QED
  BY InitIInv, NextIInv, PTL DEF Spec

\* Neither counter ever leaves 0..maxThreadNum, and all variables have their
\* types (MplThreadPool's members).
THEOREM ThreadPoolTypeOK == Spec => []TypeOK
<1>1. IInv => TypeOK
  BY DEF IInv
<1>2. QED
  BY <1>1, ThreadPoolInvariant, PTL

\* currActiveThreadNum and currWaittingThreadNum always count the workers that
\* are not asleep and those that wait for a task, through both wait loops of
\* WorkerFunc, spurious wake-ups and Exit().
THEOREM ThreadPoolCountersExact == Spec => []CountersExact
<1>1. IInv => CountersExact
  BY DEF IInv
<1>2. QED
  BY <1>1, ThreadPoolInvariant, PTL

\* From the return of Stop() to the next Start() no worker executes a task.
THEOREM ThreadPoolStoppedIsQuiet == Spec => []StoppedIsQuiet
<1>1. IInv => StoppedIsQuiet
  BY DEF IInv
<1>2. QED
  BY <1>1, ThreadPoolInvariant, PTL

\* When WaitFinish() or DrainTaskQueue() has returned, all tasks it owes have
\* been executed, also those that tasks added and also across Exit().
THEOREM ThreadPoolNoTaskLeftBehind == Spec => []NoTaskLeftBehind
<1>1. IInv => NoTaskLeftBehind
  BY DEF IInv
<1>2. QED
  BY <1>1, ThreadPoolInvariant, PTL
=============================================================================
