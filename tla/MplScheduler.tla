---------------------------- MODULE MplScheduler ----------------------------
(***************************************************************************)
(* The scheduler that the compiler's drivers derive from to work on many   *)
(* functions in parallel (maple_util/src/mpl_scheduler.cpp).  Worker       *)
(* threads take the tasks in order and run them.  In sequential mode they  *)
(* hand the tasks they have run to a finishing thread, which calls         *)
(* Finish() in the order in which the tasks were added, so that the output *)
(* does not depend on the schedule; otherwise each worker finishes its own *)
(* tasks.                                                                  *)
(***************************************************************************)
EXTENDS Naturals, Sequences

CONSTANTS
    Workers,    \* the threads RunTask() creates (threadsNum of them)
    NoTask,     \* a null MplTask*
    MaxTasks    \* bound: tasks added between two calls of Reset()

ASSUME WorkersAssumption == Workers # {}
ASSUME MaxTasksAssumption == MaxTasks \in Nat
ASSUME NoTaskAssumption == NoTask \notin Nat

VARIABLES
    phase,              \* of the thread that owns the scheduler
    isSchedulerSeq,
    numberTasks,        \* also taskIdForAdd and the size of tbTasks
    taskIdToRun,
    tbTaskIdsToFinish,
    taskIdExpected,
    numberTasksFinish,
    pc, task,           \* of each worker
    fpc, ftask,         \* of the finishing thread
    ran,                \* history: the tasks whose Run() has returned
    finished            \* history: the tasks Finish() was called on, in order

ownerVars == <<phase, isSchedulerSeq, numberTasks>>
workerVars == <<pc, task, taskIdToRun, ran>>
finishVars == <<fpc, ftask, taskIdExpected, numberTasksFinish>>
vars == <<ownerVars, workerVars, finishVars, tbTaskIdsToFinish, finished>>

Tasks == 0 .. MaxTasks - 1

TypeOK ==
    /\ phase \in {"add", "run", "joined"}
    /\ isSchedulerSeq \in BOOLEAN
    /\ numberTasks \in 0 .. MaxTasks
    /\ taskIdToRun \in 0 .. numberTasks
    /\ tbTaskIdsToFinish \subseteq Tasks
    /\ taskIdExpected \in Nat
    /\ numberTasksFinish \in Nat
    /\ pc \in [Workers -> {"none", "get", "run", "finish", "ended"}]
    /\ task \in [Workers -> Tasks \cup {NoTask}]
    /\ fpc \in {"none", "loop", "size", "first", "check", "finish", "remove", "ended"}
    /\ ftask \in Tasks \cup {NoTask}
    /\ ran \subseteq Tasks
    /\ finished \in Seq(Tasks)

\* The values the constructor and Reset() give, with no thread running.
Init ==
    /\ phase = "add"
    /\ isSchedulerSeq = FALSE
    /\ numberTasks = 0
    /\ taskIdToRun = 0
    /\ tbTaskIdsToFinish = {}
    /\ taskIdExpected = 0
    /\ numberTasksFinish = 0
    /\ pc = [w \in Workers |-> "none"]
    /\ task = [w \in Workers |-> NoTask]
    /\ fpc = "none"
    /\ ftask = NoTask
    /\ ran = {}
    /\ finished = <<>>

-----------------------------------------------------------------------------
(* The owner: AddTask()*, RunTask(), Reset(), and again.                   *)

AddTask ==
    /\ phase = "add"
    /\ numberTasks < MaxTasks
    /\ numberTasks' = numberTasks + 1
    /\ UNCHANGED <<phase, isSchedulerSeq, workerVars, finishVars, tbTaskIdsToFinish, finished>>

\* RunTask() up to the first join.  A thread that has been created but not
\* scheduled yet is at the first step of its main function.
RunTask(seq) ==
    /\ phase = "add"
    /\ phase' = "run"
    /\ isSchedulerSeq' = seq
    /\ taskIdExpected' = 0
    /\ pc' = [w \in Workers |-> "get"]
    /\ fpc' = IF seq THEN "loop" ELSE "none"
    /\ UNCHANGED <<numberTasks, task, taskIdToRun, ran, ftask, numberTasksFinish,
                   tbTaskIdsToFinish, finished>>

\* Mutant: threadFinish is not joined.
AllEndedNoFinish == \A w \in Workers : pc[w] = "ended"

AllEnded ==
    /\ \A w \in Workers : pc[w] = "ended"
    /\ isSchedulerSeq => fpc = "ended"

\* The joins at the end of RunTask().
Join ==
    /\ phase = "run"
    /\ AllEnded
    /\ phase' = "joined"
    /\ UNCHANGED <<isSchedulerSeq, numberTasks, workerVars, finishVars, tbTaskIdsToFinish,
                   finished>>

\* Reset(), with the local state and the histories of the next round.
Reset ==
    /\ phase = "joined"
    /\ phase' = "add"
    /\ isSchedulerSeq' = FALSE
    /\ numberTasks' = 0
    /\ taskIdToRun' = 0
    /\ tbTaskIdsToFinish' = {}
    /\ taskIdExpected' = 0
    /\ numberTasksFinish' = 0
    /\ pc' = [w \in Workers |-> "none"]
    /\ task' = [w \in Workers |-> NoTask]
    /\ fpc' = "none"
    /\ ftask' = NoTask
    /\ ran' = {}
    /\ finished' = <<>>

-----------------------------------------------------------------------------
(* ThreadMain()                                                            *)

HasTaskToRun == taskIdToRun < numberTasks

\* Mutant: the read of taskIdToRun and its increment are not one step, so
\* that the increment may be lost.
NextIdLost == {taskIdToRun, taskIdToRun + 1}

NextId == {taskIdToRun + 1}

GetTaskToRun(w) ==
    /\ pc[w] = "get"
    /\ IF HasTaskToRun
       THEN /\ task' = [task EXCEPT ![w] = taskIdToRun]
            /\ taskIdToRun' \in NextId
            /\ pc' = [pc EXCEPT ![w] = "run"]
       ELSE /\ task' = [task EXCEPT ![w] = NoTask]
            /\ pc' = [pc EXCEPT ![w] = "ended"]
            /\ UNCHANGED taskIdToRun
    /\ UNCHANGED <<ownerVars, finishVars, tbTaskIdsToFinish, ran, finished>>

Run(w) ==
    /\ pc[w] = "run"
    /\ ran' = ran \cup {task[w]}
    /\ pc' = [pc EXCEPT ![w] = "finish"]
    /\ UNCHANGED <<ownerVars, finishVars, tbTaskIdsToFinish, task, taskIdToRun, finished>>

\* FinishTask() hands the task over; without sequencing Finish() is called here.
FinishTask(w) ==
    /\ pc[w] = "finish"
    /\ IF isSchedulerSeq
       THEN /\ tbTaskIdsToFinish' = tbTaskIdsToFinish \cup {task[w]}
            /\ UNCHANGED finished
       ELSE /\ finished' = Append(finished, task[w])
            /\ UNCHANGED tbTaskIdsToFinish
    /\ pc' = [pc EXCEPT ![w] = "get"]
    /\ UNCHANGED <<ownerVars, finishVars, task, taskIdToRun, ran>>

-----------------------------------------------------------------------------
(* ThreadFinish(), which exists in sequential mode only.  It does not wait *)
(* on a condition: when the next task has not been run it polls.           *)

\* The test of the outer loop.
FinishLoop ==
    /\ fpc = "loop"
    /\ fpc' = IF numberTasksFinish < numberTasks THEN "size" ELSE "ended"
    /\ UNCHANGED <<ownerVars, workerVars, ftask, taskIdExpected, numberTasksFinish,
                   tbTaskIdsToFinish, finished>>

GetTaskIdsFinishSize ==
    /\ fpc = "size"
    /\ fpc' = IF tbTaskIdsToFinish = {} THEN "loop" ELSE "first"
    /\ UNCHANGED <<ownerVars, workerVars, ftask, taskIdExpected, numberTasksFinish,
                   tbTaskIdsToFinish, finished>>

\* The first element of the ordered set.
GetTaskFinishFirst ==
    /\ fpc = "first"
    /\ \E id \in tbTaskIdsToFinish :
          /\ \A other \in tbTaskIdsToFinish : id <= other
          /\ ftask' = id
    /\ fpc' = "check"
    /\ UNCHANGED <<ownerVars, workerVars, taskIdExpected, numberTasksFinish,
                   tbTaskIdsToFinish, finished>>

\* Mutant: the finishing thread takes the smallest task that was run.
TooEarlyIgnored == FALSE

TooEarly == isSchedulerSeq /\ ftask # taskIdExpected

CheckExpected ==
    /\ fpc = "check"
    /\ fpc' = IF TooEarly THEN "loop" ELSE "finish"
    /\ UNCHANGED <<ownerVars, workerVars, ftask, taskIdExpected, numberTasksFinish,
                   tbTaskIdsToFinish, finished>>

\* Mutant: the finishing thread keeps waiting for the task it has finished.
ExpectedAfterSame == taskIdExpected

ExpectedAfter == IF isSchedulerSeq THEN taskIdExpected + 1 ELSE taskIdExpected

Finish ==
    /\ fpc = "finish"
    /\ finished' = Append(finished, ftask)
    /\ numberTasksFinish' = numberTasksFinish + 1
    /\ taskIdExpected' = ExpectedAfter
    /\ fpc' = "remove"
    /\ UNCHANGED <<ownerVars, workerVars, ftask, tbTaskIdsToFinish>>

RemoveTaskFinish ==
    /\ fpc = "remove"
    /\ tbTaskIdsToFinish' = tbTaskIdsToFinish \ {ftask}
    /\ fpc' = "size"
    /\ UNCHANGED <<ownerVars, workerVars, ftask, taskIdExpected, numberTasksFinish, finished>>

ThreadMain(w) == GetTaskToRun(w) \/ Run(w) \/ FinishTask(w)

ThreadFinish ==
    \/ FinishLoop \/ GetTaskIdsFinishSize \/ GetTaskFinishFirst
    \/ CheckExpected \/ Finish \/ RemoveTaskFinish

Owner == AddTask \/ (\E seq \in BOOLEAN : RunTask(seq)) \/ Join \/ Reset

Next == Owner \/ ThreadFinish \/ \E w \in Workers : ThreadMain(w)

Spec == Init /\ [][Next]_vars

\* Threads are scheduled fairly and tasks end, so every thread that has a
\* step to take takes it; so does the owner's join.
Fairness ==
    /\ WF_vars(Join)
    /\ WF_vars(ThreadFinish)
    /\ \A w \in Workers : WF_vars(ThreadMain(w))

LiveSpec == Spec /\ Fairness

-----------------------------------------------------------------------------
(* Properties                                                              *)

\* In sequential mode the calls of Finish() made so far are those of tasks
\* 0, 1, 2, ..., whatever the order in which the workers ran the tasks.
FinishInOrder ==
    isSchedulerSeq => \A i \in 1 .. Len(finished) : finished[i] = i - 1

\* No task is finished twice, or before its Run() has returned, in either mode.
FinishedOnceAfterRun ==
    \A i \in 1 .. Len(finished) :
       /\ finished[i] \in ran
       /\ \A j \in 1 .. Len(finished) : finished[i] = finished[j] => i = j

\* When RunTask() returns no task was left out: all were run and finished.
NothingLeftOut ==
    phase = "joined" =>
        /\ ran = 0 .. numberTasks - 1
        /\ \A id \in 0 .. numberTasks - 1 : \E i \in 1 .. Len(finished) : finished[i] = id
        /\ tbTaskIdsToFinish = {}

\* RunTask() returns, although the finishing thread only polls and skips a
\* task that comes too early.
RunTaskReturns == phase = "run" ~> phase = "joined"
-----------------------------------------------------------------------------
(* The inductive invariant of MplSchedulerProofs                           *)

Active(w) == pc[w] \in {"run", "finish"}

IsFinished(id) == \E i \in 1 .. Len(finished) : finished[i] = id

\* Before RunTask() there is no thread and nothing has been done.
NothingBefore ==
    phase = "add" =>
        /\ \A w \in Workers : pc[w] = "none"
        /\ fpc = "none" /\ ~isSchedulerSeq
        /\ taskIdToRun = 0 /\ ran = {} /\ tbTaskIdsToFinish = {} /\ finished = <<>>
        /\ numberTasksFinish = 0

\* What the workers hold, and how far each has got with it.
WorkersInv ==
    /\ \A w \in Workers :
          /\ phase # "add" => pc[w] # "none"
          /\ phase = "joined" => pc[w] = "ended"
          /\ pc[w] = "ended" => taskIdToRun = numberTasks
          /\ Active(w) => task[w] \in 0 .. taskIdToRun - 1
          /\ pc[w] = "run" => task[w] \notin ran
          /\ pc[w] = "finish" => /\ task[w] \in ran
                                 /\ task[w] \notin tbTaskIdsToFinish
                                 /\ ~IsFinished(task[w])
    /\ \A w, v \in Workers : Active(w) /\ Active(v) /\ task[w] = task[v] => w = v
    /\ ran \subseteq 0 .. taskIdToRun - 1
    /\ tbTaskIdsToFinish \subseteq ran

\* A task that was taken is with a worker, handed over, or finished.
Accounted ==
    \A id \in 0 .. taskIdToRun - 1 :
       \/ \E w \in Workers : Active(w) /\ task[w] = id
       \/ id \in tbTaskIdsToFinish
       \/ IsFinished(id)

\* The finishing thread's counters agree, and what is handed over is yet to
\* be finished, but for the task it is just about to remove.
FinisherInv ==
    /\ isSchedulerSeq /\ phase # "add" =>
          /\ taskIdExpected = Len(finished)
          /\ numberTasksFinish = Len(finished)
          /\ fpc # "none"
          /\ fpc \in {"check", "finish", "remove"} => ftask \in tbTaskIdsToFinish
          /\ fpc = "finish" => ftask = taskIdExpected
          /\ fpc = "remove" => ftask = taskIdExpected - 1
          /\ \A id \in tbTaskIdsToFinish :
                id >= taskIdExpected \/ (fpc = "remove" /\ id = ftask)
          /\ fpc = "ended" => numberTasksFinish >= numberTasks
          /\ phase = "joined" => fpc = "ended"
    /\ ~isSchedulerSeq => fpc = "none" /\ tbTaskIdsToFinish = {}

IInv ==
    /\ TypeOK
    /\ NothingBefore
    /\ WorkersInv
    /\ Accounted
    /\ FinisherInv
    /\ FinishInOrder
    /\ FinishedOnceAfterRun
=============================================================================
