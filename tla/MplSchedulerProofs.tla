------------------------- MODULE MplSchedulerProofs -------------------------
(***************************************************************************)
(* Proofs about MplScheduler, for any number of workers and tasks.         *)
(*                                                                         *)
(* The properties are not inductive: that a task is finished once rests on *)
(* where each task is (with one worker, handed over, or finished), and     *)
(* that tasks are finished in order on the agreement of the finishing      *)
(* thread's two counters with what it has finished.  IInv says both.       *)
(***************************************************************************)
EXTENDS MplScheduler, TLAPS

USE WorkersAssumption, MaxTasksAssumption, NoTaskAssumption

\* The initial state satisfies the invariant: no thread, no task.
LEMMA InitIInv == Init => IInv
<1> SUFFICES ASSUME Init PROVE IInv
  OBVIOUS
<1> USE DEF Init, Active, IsFinished, Tasks
<1>1. TypeOK
  <2>1. finished \in Seq(Tasks)
    BY DEF Init
  <2>2. pc \in [Workers -> {"none", "get", "run", "finish", "ended"}]
    BY DEF Init
  <2>3. task \in [Workers -> Tasks \cup {NoTask}]
    BY DEF Init
  <2>4. numberTasks \in 0 .. MaxTasks /\ taskIdToRun \in 0 .. numberTasks
    BY DEF Init
  <2>. QED
    BY <2>1, <2>2, <2>3, <2>4 DEF TypeOK
<1>2. NothingBefore /\ WorkersInv /\ Accounted
  BY DEF NothingBefore, WorkersInv, Accounted
<1>3. FinisherInv /\ FinishInOrder /\ FinishedOnceAfterRun
  BY DEF FinisherInv, FinishInOrder, FinishedOnceAfterRun
<1>. QED
  BY <1>1, <1>2, <1>3 DEF IInv

\* The owner's operations: no thread runs before RunTask() or after the joins.
LEMMA OwnerIInv == IInv /\ Owner => IInv'
<1> SUFFICES ASSUME IInv, Owner PROVE IInv'
  OBVIOUS
<1> USE DEF IInv, TypeOK, NothingBefore, WorkersInv, Accounted, FinisherInv,
            FinishInOrder, FinishedOnceAfterRun, Active, IsFinished, Tasks,
            workerVars, finishVars, ownerVars
<1>1. CASE AddTask
  BY <1>1 DEF AddTask
<1>2. ASSUME NEW seq \in BOOLEAN, RunTask(seq) PROVE IInv'
  BY <1>2 DEF RunTask
<1>3. CASE Join
  BY <1>3 DEF Join, AllEnded
<1>4. CASE Reset
  <2>1. TypeOK'
    <3>1. finished' \in Seq(Tasks)
      BY <1>4 DEF Reset
    <3>2. pc' \in [Workers -> {"none", "get", "run", "finish", "ended"}]
      BY <1>4 DEF Reset
    <3>3. task' \in [Workers -> Tasks \cup {NoTask}]
      BY <1>4 DEF Reset
    <3>4. numberTasks' \in 0 .. MaxTasks /\ taskIdToRun' \in 0 .. numberTasks'
      BY <1>4 DEF Reset
    <3>. QED
      BY <1>4, <3>1, <3>2, <3>3, <3>4 DEF Reset
  <2>2. NothingBefore'
    BY <1>4 DEF Reset
  <2>3. WorkersInv'
    BY <1>4 DEF Reset
  <2>4. Accounted'
    BY <1>4 DEF Reset
  <2>5. FinisherInv'
    BY <1>4 DEF Reset
  <2>6. FinishInOrder'
    BY <1>4 DEF Reset
  <2>7. FinishedOnceAfterRun'
    BY <1>4 DEF Reset
  <2>. QED
    BY <2>1, <2>2, <2>3, <2>4, <2>5, <2>6, <2>7
<1>. QED
  BY <1>1, <1>2, <1>3, <1>4 DEF Owner

\* A step of a worker.
LEMMA WorkerIInv == ASSUME NEW w \in Workers, IInv, ThreadMain(w) PROVE IInv'
<1> USE DEF workerVars, finishVars, ownerVars
<1>0. /\ TypeOK /\ NothingBefore /\ WorkersInv /\ Accounted /\ FinisherInv
      /\ FinishInOrder /\ FinishedOnceAfterRun
  BY DEF IInv
<1>a. phase # "add" /\ pc[w] # "none"
  BY <1>0 DEF ThreadMain, GetTaskToRun, Run, FinishTask, NothingBefore
<1>1. CASE GetTaskToRun(w)
  <2> USE <1>1 DEF GetTaskToRun, HasTaskToRun, NextId
  <2>1. TypeOK'
    <3>1. CASE taskIdToRun < numberTasks
      <4>1. taskIdToRun \in Tasks /\ taskIdToRun' \in 0 .. numberTasks
        BY <1>0, <3>1 DEF TypeOK, Tasks
      <4>. QED
        BY <1>0, <3>1, <4>1 DEF TypeOK
    <3>2. CASE ~(taskIdToRun < numberTasks)
      BY <1>0, <3>2 DEF TypeOK
    <3>. QED
      BY <3>1, <3>2
  <2>2. NothingBefore'
    BY <1>0, <1>a DEF NothingBefore
  <2>3. WorkersInv'
    <3>1. CASE taskIdToRun < numberTasks
      BY SMTT(40), <1>0, <1>a, <3>1 DEF WorkersInv, TypeOK, Active, IsFinished, Tasks
    <3>2. CASE ~(taskIdToRun < numberTasks)
      BY SMTT(40), <1>0, <1>a, <3>2 DEF WorkersInv, TypeOK, Active, IsFinished, Tasks
    <3>. QED
      BY <3>1, <3>2
  <2>4. Accounted'
    <3> SUFFICES ASSUME NEW id \in 0 .. taskIdToRun' - 1
                 PROVE  \/ \E v \in Workers : Active(v)' /\ task'[v] = id
                        \/ id \in tbTaskIdsToFinish
                        \/ IsFinished(id)
      BY DEF Accounted, IsFinished
    <3>1. CASE id = taskIdToRun
      <4>1. Active(w)' /\ task'[w] = id
        BY <1>0, <3>1 DEF TypeOK, Active
      <4>. QED
        BY <4>1
    <3>2. CASE id # taskIdToRun
      <4>1. id \in 0 .. taskIdToRun - 1
        BY <1>0, <3>2 DEF TypeOK
      <4>2. ASSUME NEW v \in Workers, Active(v), task[v] = id
            PROVE  Active(v)' /\ task'[v] = id
        BY <1>0, <4>2 DEF TypeOK, Active
      <4>. QED
        BY <1>0, <4>1, <4>2 DEF Accounted
    <3>. QED
      BY <3>1, <3>2
  <2>5. FinisherInv'
    BY <1>0 DEF FinisherInv
  <2>6. FinishInOrder' /\ FinishedOnceAfterRun'
    BY <1>0 DEF FinishInOrder, FinishedOnceAfterRun
  <2>. QED
    BY <2>1, <2>2, <2>3, <2>4, <2>5, <2>6 DEF IInv
<1>2. CASE Run(w)
  <2> USE <1>2 DEF Run
  <2>0. task[w] \in Tasks
    BY <1>0 DEF WorkersInv, Active, TypeOK, Tasks
  <2>1. TypeOK'
    BY <1>0, <2>0 DEF TypeOK
  <2>2. NothingBefore'
    BY <1>0, <1>a DEF NothingBefore
  <2>b. task[w] \notin tbTaskIdsToFinish /\ ~IsFinished(task[w])
    BY <1>0 DEF WorkersInv, FinishedOnceAfterRun, IsFinished
  <2>c. \A v \in Workers : (Active(v)' <=> Active(v)) /\ (v # w => pc'[v] = pc[v])
    BY <1>0 DEF TypeOK, Active
  <2>3. WorkersInv'
    <3>1. ASSUME NEW v \in Workers
          PROVE  /\ phase' # "add" => pc'[v] # "none"
                 /\ phase' = "joined" => pc'[v] = "ended"
                 /\ pc'[v] = "ended" => taskIdToRun' = numberTasks'
                 /\ Active(v)' => task'[v] \in 0 .. taskIdToRun' - 1
                 /\ pc'[v] = "run" => task'[v] \notin ran'
                 /\ pc'[v] = "finish" => /\ task'[v] \in ran'
                                         /\ task'[v] \notin tbTaskIdsToFinish'
                                         /\ ~IsFinished(task[v])
      BY <1>0, <2>b, <2>c DEF WorkersInv, TypeOK, Active
    <3>2. \A u, v \in Workers :
             Active(u)' /\ Active(v)' /\ task'[u] = task'[v] => u = v
      BY <1>0, <2>c DEF WorkersInv
    <3>3. ran' \subseteq 0 .. taskIdToRun' - 1 /\ tbTaskIdsToFinish' \subseteq ran'
      BY <1>0 DEF WorkersInv, Active
    <3>. QED
      BY <3>1, <3>2, <3>3 DEF WorkersInv, IsFinished
  <2>4. Accounted'
    BY <1>0, <2>c DEF Accounted, IsFinished
  <2>5. FinisherInv'
    BY <1>0 DEF FinisherInv
  <2>6. FinishInOrder' /\ FinishedOnceAfterRun'
    BY <1>0 DEF FinishInOrder, FinishedOnceAfterRun
  <2>. QED
    BY <2>1, <2>2, <2>3, <2>4, <2>5, <2>6 DEF IInv
<1>3. CASE FinishTask(w)
  <2> USE <1>3 DEF FinishTask
  <2>0. task[w] \in Tasks /\ task[w] \in 0 .. taskIdToRun - 1 /\ task[w] \in ran
    BY <1>0 DEF WorkersInv, Active, TypeOK, Tasks
  <2>b. /\ task[w] \notin tbTaskIdsToFinish /\ ~IsFinished(task[w])
        /\ \A v \in Workers : v # w /\ Active(v) => task[v] # task[w]
    BY <1>0 DEF WorkersInv, Active
  <2>c. \A v \in Workers : /\ v # w => pc'[v] = pc[v]
                           /\ Active(v)' <=> Active(v) /\ v # w
    BY <1>0 DEF TypeOK, Active
  <2>d. pc'[w] = "get"
    BY <1>0 DEF TypeOK
  <2>1. TypeOK'
    <3>1. tbTaskIdsToFinish' \subseteq Tasks
      BY <1>0, <2>0 DEF TypeOK
    <3>2. finished' \in Seq(Tasks)
      BY SMTT(40), <1>0, <2>0 DEF TypeOK
    <3>. QED
      BY <1>0, <3>1, <3>2 DEF TypeOK
  <2>2. NothingBefore'
    BY <1>0, <1>a DEF NothingBefore
  <2>3. CASE isSchedulerSeq
    <3> USE <2>3
    <3>1. WorkersInv'
      <4>1. ASSUME NEW v \in Workers
            PROVE  /\ phase' # "add" => pc'[v] # "none"
                   /\ phase' = "joined" => pc'[v] = "ended"
                   /\ pc'[v] = "ended" => taskIdToRun' = numberTasks'
                   /\ Active(v)' => task'[v] \in 0 .. taskIdToRun' - 1
                   /\ pc'[v] = "run" => task'[v] \notin ran'
                   /\ pc'[v] = "finish" => /\ task'[v] \in ran'
                                           /\ task'[v] \notin tbTaskIdsToFinish'
                                           /\ ~IsFinished(task[v])
        BY <1>0, <1>a, <2>b, <2>c, <2>d DEF WorkersInv, Active
      <4>2. \A u, v \in Workers :
               Active(u)' /\ Active(v)' /\ task'[u] = task'[v] => u = v
        BY <1>0, <2>c DEF WorkersInv
      <4>3. ran' \subseteq 0 .. taskIdToRun' - 1 /\ tbTaskIdsToFinish' \subseteq ran'
        BY <1>0, <2>0 DEF WorkersInv
      <4>. QED
        BY <4>1, <4>2, <4>3 DEF WorkersInv, IsFinished
    <3>2. Accounted'
      BY <1>0, <2>c DEF Accounted, IsFinished
    <3>3. task[w] >= Len(finished)
      <4>1. SUFFICES ASSUME task[w] < Len(finished) PROVE FALSE
        BY <1>0, <2>0 DEF TypeOK, Tasks
      <4>2. task[w] + 1 \in 1 .. Len(finished)
        BY <1>0, <2>0, <4>1 DEF TypeOK, Tasks
      <4>3. finished[task[w] + 1] = (task[w] + 1) - 1
        BY <1>0, <4>2 DEF FinishInOrder
      <4>4. finished[task[w] + 1] = task[w]
        BY <2>0, <4>3 DEF Tasks
      <4>. QED
        BY <2>b, <4>2, <4>4 DEF IsFinished
    <3>4. FinisherInv'
      BY <1>0, <1>a, <2>0, <3>3 DEF FinisherInv
    <3>5. FinishInOrder' /\ FinishedOnceAfterRun'
      BY <1>0 DEF FinishInOrder, FinishedOnceAfterRun
    <3>. QED
      BY <2>1, <2>2, <3>1, <3>2, <3>4, <3>5 DEF IInv
  <2>4. CASE ~isSchedulerSeq
    <3> USE <2>4
    <3>0. /\ Len(finished') = Len(finished) + 1 /\ Len(finished) \in Nat
          /\ \A i \in 1 .. Len(finished) : finished'[i] = finished[i]
          /\ finished'[Len(finished) + 1] = task[w]
      BY <1>0, <2>0 DEF TypeOK
    <3>a. \A id : IsFinished(id)' <=> IsFinished(id) \/ id = task[w]
      <4> TAKE id
      <4>1. ASSUME IsFinished(id)' PROVE IsFinished(id) \/ id = task[w]
        <5>1. PICK i \in 1 .. Len(finished') : finished'[i] = id
          BY <4>1 DEF IsFinished
        <5>2. i \in 1 .. Len(finished) \/ i = Len(finished) + 1
          BY <3>0
        <5>. QED
          BY <3>0, <5>1, <5>2 DEF IsFinished
      <4>2. ASSUME IsFinished(id) PROVE IsFinished(id)'
        <5>1. PICK i \in 1 .. Len(finished) : finished[i] = id
          BY <4>2 DEF IsFinished
        <5>2. i \in 1 .. Len(finished') /\ finished'[i] = id
          BY <3>0, <5>1
        <5>. QED
          BY <5>2 DEF IsFinished
      <4>3. ASSUME id = task[w] PROVE IsFinished(id)'
        <5>1. Len(finished) + 1 \in 1 .. Len(finished')
          BY <3>0
        <5>. QED
          BY <3>0, <4>3, <5>1 DEF IsFinished
      <4>. QED
        BY <4>1, <4>2, <4>3
    <3>1. WorkersInv'
      <4>1. ASSUME NEW v \in Workers
            PROVE  /\ phase' # "add" => pc'[v] # "none"
                   /\ phase' = "joined" => pc'[v] = "ended"
                   /\ pc'[v] = "ended" => taskIdToRun' = numberTasks'
                   /\ Active(v)' => task'[v] \in 0 .. taskIdToRun' - 1
                   /\ pc'[v] = "run" => task'[v] \notin ran'
                   /\ pc'[v] = "finish" => /\ task'[v] \in ran'
                                           /\ task'[v] \notin tbTaskIdsToFinish'
                                           /\ ~IsFinished(task[v])'
        BY <1>0, <1>a, <2>b, <2>c, <2>d, <3>a DEF WorkersInv, Active
      <4>2. \A u, v \in Workers :
               Active(u)' /\ Active(v)' /\ task'[u] = task'[v] => u = v
        BY <1>0, <2>c DEF WorkersInv
      <4>3. ran' \subseteq 0 .. taskIdToRun' - 1 /\ tbTaskIdsToFinish' \subseteq ran'
        BY <1>0 DEF WorkersInv
      <4>. QED
        BY <4>1, <4>2, <4>3 DEF WorkersInv
    <3>2. Accounted'
      BY <1>0, <2>c, <3>a DEF Accounted
    <3>3. FinisherInv' /\ FinishInOrder'
      BY <1>0 DEF FinisherInv, FinishInOrder
    <3>4. FinishedOnceAfterRun'
      <4>1. \A i \in 1 .. Len(finished') : i \in 1 .. Len(finished) \/ i = Len(finished) + 1
        BY <3>0
      <4>2. \A i \in 1 .. Len(finished) : finished[i] # task[w]
        BY <2>b DEF IsFinished
      <4>. QED
        BY SMTT(40), <1>0, <2>0, <3>0, <4>1, <4>2 DEF FinishedOnceAfterRun
    <3>. QED
      BY <2>1, <2>2, <3>1, <3>2, <3>3, <3>4 DEF IInv
  <2>. QED
    BY <2>3, <2>4
<1>. QED
  BY <1>1, <1>2, <1>3 DEF ThreadMain

\* A step of the finishing thread.
LEMMA FinisherIInv == IInv /\ ThreadFinish => IInv'
<1> SUFFICES ASSUME IInv, ThreadFinish PROVE IInv'
  OBVIOUS
<1> USE DEF IInv, TypeOK, NothingBefore, WorkersInv, Accounted, FinisherInv,
            FinishInOrder, FinishedOnceAfterRun, Active, IsFinished, Tasks,
            workerVars, finishVars, ownerVars
<1>1. CASE FinishLoop
  BY <1>1 DEF FinishLoop
<1>2. CASE GetTaskIdsFinishSize
  BY <1>2 DEF GetTaskIdsFinishSize
<1>3. CASE GetTaskFinishFirst
  BY <1>3 DEF GetTaskFinishFirst
<1>4. CASE CheckExpected
  BY <1>4 DEF CheckExpected, TooEarly
<1>5. CASE Finish
  <2>1. TypeOK'
    BY <1>5 DEF Finish, ExpectedAfter
  <2>2. NothingBefore'
    BY <1>5 DEF Finish, ExpectedAfter
  <2>3. WorkersInv'
    BY SMTT(40), <1>5 DEF Finish, ExpectedAfter
  <2>4. Accounted'
    <3>1. ASSUME NEW id, IsFinished(id) PROVE IsFinished(id)'
      <4>1. PICK i \in 1 .. Len(finished) : finished[i] = id
        BY <3>1
      <4>2. i \in 1 .. Len(finished') /\ finished'[i] = id
        BY <1>5, <4>1 DEF Finish
      <4>. QED
        BY <4>2
    <3>. QED
      BY ONLY Accounted, <3>1, <1>5 DEF Accounted, Active, Finish, workerVars
  <2>5. FinisherInv'
    BY <1>5 DEF Finish, ExpectedAfter
  <2>6. FinishInOrder'
    BY <1>5 DEF Finish, ExpectedAfter
  <2>7. FinishedOnceAfterRun'
    BY <1>5 DEF Finish, ExpectedAfter
  <2>. QED
    BY <2>1, <2>2, <2>3, <2>4, <2>5, <2>6, <2>7
<1>6. CASE RemoveTaskFinish
  BY SMTT(40), <1>6 DEF RemoveTaskFinish
<1>. QED
  BY <1>1, <1>2, <1>3, <1>4, <1>5, <1>6 DEF ThreadFinish

\* The invariant is inductive.
LEMMA NextIInv == IInv /\ [Next]_vars => IInv'
<1> SUFFICES ASSUME IInv, [Next]_vars PROVE IInv'
  OBVIOUS
<1>1. CASE Owner
  BY <1>1, OwnerIInv
<1>2. CASE ThreadFinish
  BY <1>2, FinisherIInv
<1>3. ASSUME NEW w \in Workers, ThreadMain(w) PROVE IInv'
  BY <1>3, WorkerIInv
<1>4. CASE UNCHANGED vars
  BY <1>4 DEF vars, ownerVars, workerVars, finishVars, IInv, TypeOK, NothingBefore,
              WorkersInv, Accounted, FinisherInv, FinishInOrder, FinishedOnceAfterRun,
              Active, IsFinished
<1>. QED
  BY <1>1, <1>2, <1>3, <1>4 DEF Next

\* Every reachable state satisfies the inductive invariant.
THEOREM SchedulerInvariant == Spec => []IInv
<1>. QED
  BY InitIInv, NextIInv, PTL DEF Spec

\* The scheduler's variables keep their types; taskIdToRun never passes the
\* number of tasks, so that tbTasks is never indexed out of range.
THEOREM SchedulerTypes == Spec => []TypeOK
<1>1. IInv => TypeOK
  BY DEF IInv
<1>. QED
  BY <1>1, SchedulerInvariant, PTL

\* In sequential mode Finish() is called on tasks 0, 1, 2, ... in this order,
\* whatever the workers' schedule (the loop of ThreadFinish()).
THEOREM SchedulerFinishesInOrder == Spec => []FinishInOrder
<1>1. IInv => FinishInOrder
  BY DEF IInv
<1>. QED
  BY <1>1, SchedulerInvariant, PTL

\* In both modes no task is finished twice, nor before its Run() returned.
THEOREM SchedulerFinishesOnce == Spec => []FinishedOnceAfterRun
<1>1. IInv => FinishedOnceAfterRun
  BY DEF IInv
<1>. QED
  BY <1>1, SchedulerInvariant, PTL

\* When RunTask() has joined its threads every task was run and finished and
\* no handed-over task is left for the next round.
THEOREM SchedulerLeavesNothingOut == Spec => []NothingLeftOut
<1>1. ASSUME IInv PROVE NothingLeftOut
  <2> SUFFICES ASSUME phase = "joined"
               PROVE  /\ ran = 0 .. numberTasks - 1
                      /\ \A id \in 0 .. numberTasks - 1 : IsFinished(id)
                      /\ tbTaskIdsToFinish = {}
    BY DEF NothingLeftOut, IsFinished
  <2>0. TypeOK /\ WorkersInv /\ Accounted /\ FinisherInv /\ FinishedOnceAfterRun
    BY <1>1 DEF IInv
  <2>1. taskIdToRun = numberTasks /\ \A w \in Workers : ~Active(w)
    BY <2>0 DEF WorkersInv, Active
  <2>2. tbTaskIdsToFinish = {}
    <3>1. CASE isSchedulerSeq
      <4>1. \A id \in tbTaskIdsToFinish : id >= numberTasks
        BY <2>0, <3>1 DEF FinisherInv, TypeOK, Tasks
      <4>2. \A id \in tbTaskIdsToFinish : id \in 0 .. numberTasks - 1
        BY <2>0, <2>1 DEF WorkersInv
      <4>. QED
        BY <2>0, <4>1, <4>2 DEF TypeOK
    <3>2. CASE ~isSchedulerSeq
      BY <2>0, <3>2 DEF FinisherInv
    <3>. QED
      BY <2>0, <3>1, <3>2 DEF TypeOK
  <2>3. \A id \in 0 .. numberTasks - 1 : IsFinished(id)
    BY <2>0, <2>1, <2>2 DEF Accounted
  <2>4. ran = 0 .. numberTasks - 1
    <3>1. ran \subseteq 0 .. numberTasks - 1
      BY <2>0, <2>1 DEF WorkersInv
    <3>2. ASSUME NEW id \in 0 .. numberTasks - 1 PROVE id \in ran
      <4>1. PICK i \in 1 .. Len(finished) : finished[i] = id
        BY <2>3 DEF IsFinished
      <4>. QED
        BY <2>0, <4>1 DEF FinishedOnceAfterRun
    <3>. QED
      BY <3>1, <3>2
  <2>. QED
    BY <2>2, <2>3, <2>4
<1>. QED
  BY <1>1, SchedulerInvariant, PTL
=============================================================================
