----------------------------- MODULE ThreadPool -----------------------------
(***************************************************************************)
(* MplThreadPool, the worker pool of the garbage collector (compiler-rt:   *)
(* mpl_thread_pool.cpp).                                                   *)
(*                                                                         *)
(* The GC thread drives the pool: it adds tasks, Start()s the workers,     *)
(* helps in WaitFinish() until no work is left, and Stop()s them.  Tasks   *)
(* add tasks, mutators add tasks when they scan their own stack, and the   *)
(* thread that shuts the collector down calls Exit() at any moment.        *)
(*                                                                         *)
(* All shared state is guarded by taskMutex: an action is one critical     *)
(* section, from lock (or the return of a condition variable's wait) to    *)
(* unlock (or the next wait).  A thread in a wait is at a "..._wait" label,*)
(* or sleeping or waiting for a worker; a notification moves it on.        *)
(***************************************************************************)
EXTENDS Integers, Sequences, FiniteSets

CONSTANTS Workers,  \* the pool's threads; maxThreadNum is their number
          GC,       \* the GC thread
          Tasks,    \* bound: all tasks that are ever added
          NoTask

ASSUME PoolAssumption ==
    /\ IsFiniteSet(Workers) /\ Workers # {}
    /\ GC \notin Workers
    /\ NoTask \notin Tasks

VARIABLES
    running, exit,   \* the flags behind IsRunning() and IsExited()
    taskQueue,       \* MplThreadPool::taskQueue
    maxActive,       \* maxActiveThreadNum
    currActive,      \* currActiveThreadNum
    currWaiting,     \* currWaittingThreadNum
    wpc,             \* where each worker is in WorkerFunc
    gpc,             \* where the GC thread is
    afterStop,       \* where the GC thread's Stop() returns to
    task,            \* the task a thread executes
    fresh,           \* tasks not yet added
    done,            \* tasks executed
    due              \* work the latest WaitFinish() or DrainTaskQueue() owes

flags    == <<running, exit>>
counters == <<maxActive, currActive, currWaiting>>
history  == <<fresh, done, due>>
vars     == <<flags, taskQueue, counters, wpc, gpc, afterStop, task, history>>

WorkerPcs == {"top", "sleeping", "sleep_wake", "waiting", "task_wake", "execute", "dead"}
GCPcs     == {"ready", "started", "help", "help_execute", "finish", "finish_wait", "stop",
              "stop_check", "stop_wait", "drain", "drain_execute", "quit", "deleted"}
MaxThreadNum == Cardinality(Workers)

\* The constructor has created the threads and is in its Stop().
Init ==
    /\ running = FALSE /\ exit = FALSE
    /\ taskQueue = <<>>
    /\ maxActive = MaxThreadNum /\ currActive = MaxThreadNum /\ currWaiting = 0
    /\ wpc = [w \in Workers |-> "top"]
    /\ gpc = "stop" /\ afterStop = "ready"
    /\ task = [e \in Workers \cup {GC} |-> NoTask]
    /\ fresh = Tasks /\ done = {} /\ due = {}

-----------------------------------------------------------------------------
(* Condition variables.                                                    *)

WakeFrom(pcs, from, to) == [w \in Workers |-> IF pcs[w] = from THEN to ELSE pcs[w]]

\* threadSleepingCondVar.notify_all() and taskEmptyCondVar.notify_all()
WakeSleepers(pcs) == WakeFrom(pcs, "sleeping", "sleep_wake")
WakeWaiters(pcs)  == WakeFrom(pcs, "waiting", "task_wake")

\* allThreadStopped.notify_all() and allWorkDoneCondVar.notify_all(), on a condition
NotifyStopped(cond)  == gpc' = IF cond /\ gpc = "stop_wait" THEN "stop_check" ELSE gpc
NotifyWorkDone(cond) == gpc' = IF cond /\ gpc = "finish_wait" THEN "finish" ELSE gpc

-----------------------------------------------------------------------------
(* MplPoolThread::WorkerFunc                                               *)

\* currActive after the increment that follows a wait for threadSleepingCondVar
Awake(w) == currActive + (IF wpc[w] = "sleep_wake" THEN 1 ELSE 0)

\* Mutant: the decrement after the wait is missing.
IdleForgotten(w) == currWaiting

\* currWaiting after the decrement that follows a wait for taskEmptyCondVar
Idle(w) == currWaiting - (IF wpc[w] = "task_wake" THEN 1 ELSE 0)

\* The conditions of the two inner loops.
MustSleep(n) == (n > maxActive \/ ~running) /\ ~exit
MustWait     == taskQueue = <<>> /\ running /\ ~exit

\* w holds taskMutex and is past the first loop.
PastSleep(w) == \/ wpc[w] = "task_wake"
                \/ wpc[w] \in {"top", "sleep_wake"} /\ ~MustSleep(Awake(w))

Sleep(w) ==
    /\ wpc[w] \in {"top", "sleep_wake"}
    /\ MustSleep(Awake(w))
    /\ currActive' = Awake(w) - 1
    /\ NotifyStopped(currActive' = 0)
    /\ wpc' = [wpc EXCEPT ![w] = "sleeping"]
    /\ UNCHANGED <<flags, taskQueue, maxActive, currWaiting, afterStop, task, history>>

\* Mutant: sleeping workers are expected to wait for tasks as well.
AllWorkDoneByAll(n) == n = MaxThreadNum

\* The number of waiting workers that means "all task is done"
AllWorkDone(n) == n = maxActive

WaitForTask(w) ==
    /\ PastSleep(w)
    /\ MustWait
    /\ currActive' = Awake(w)
    /\ currWaiting' = Idle(w) + 1
    /\ NotifyWorkDone(AllWorkDone(currWaiting'))
    /\ wpc' = [wpc EXCEPT ![w] = "waiting"]
    /\ UNCHANGED <<flags, taskQueue, maxActive, afterStop, task, history>>

TakeTask(w) ==
    /\ PastSleep(w)
    /\ taskQueue # <<>> /\ running /\ ~exit
    /\ currActive' = Awake(w)
    /\ currWaiting' = Idle(w)
    /\ task' = [task EXCEPT ![w] = Head(taskQueue)]
    /\ taskQueue' = Tail(taskQueue)
    /\ wpc' = [wpc EXCEPT ![w] = "execute"]
    /\ UNCHANGED <<flags, maxActive, gpc, afterStop, history>>

\* The pool was stopped or exited while the worker slept or waited.
GoRound(w) ==
    /\ PastSleep(w) /\ wpc[w] # "top"
    /\ ~running \/ exit
    /\ currActive' = Awake(w)
    /\ currWaiting' = Idle(w)
    /\ wpc' = [wpc EXCEPT ![w] = "top"]
    /\ UNCHANGED <<flags, taskQueue, maxActive, gpc, afterStop, task, history>>

FinishTask(w) ==
    /\ wpc[w] = "execute"
    /\ done' = done \cup {task[w]}
    /\ task' = [task EXCEPT ![w] = NoTask]
    /\ wpc' = [wpc EXCEPT ![w] = "top"]
    /\ UNCHANGED <<flags, taskQueue, counters, gpc, afterStop, fresh, due>>

\* The outer loop ends, and with it the thread.
WorkerExit(w) ==
    /\ wpc[w] = "top" /\ exit
    /\ currActive' = currActive - 1
    /\ NotifyStopped(currActive' = 0)
    /\ wpc' = [wpc EXCEPT ![w] = "dead"]
    /\ UNCHANGED <<flags, taskQueue, maxActive, currWaiting, afterStop, task, history>>

-----------------------------------------------------------------------------
(* Adding tasks.                                                           *)

\* taskEmptyCondVar.notify_one(): any one waiting worker, if there is one.
NotifyOne ==
    LET waiting == {w \in Workers : wpc[w] = "waiting"}
    IN  IF running /\ currWaiting > 0 /\ waiting # {}
        THEN \E w \in waiting : wpc' = [wpc EXCEPT ![w] = "task_wake"]
        ELSE UNCHANGED wpc

AddTask(t) ==
    /\ t \in fresh
    /\ fresh' = fresh \ {t}
    /\ taskQueue' = Append(taskQueue, t)
    /\ NotifyOne
    /\ UNCHANGED <<flags, counters, gpc, afterStop, task, done>>

Constructed == gpc \in {"stop", "stop_check", "stop_wait"} => afterStop = "drain"

\* The GC thread adds a task before or after Start(), a mutator whenever it
\* finds its stack not scanned yet.
AddByThread(t) ==
    /\ Constructed /\ gpc \notin {"quit", "deleted"}
    /\ AddTask(t)
    /\ UNCHANGED due

\* A task in execution forks a task (TryForkTask).
AddByTask(e, t) ==
    /\ task[e] # NoTask
    /\ AddTask(t)
    /\ due' = IF task[e] \in due THEN due \cup {t} ELSE due

-----------------------------------------------------------------------------
(* The GC thread.                                                          *)

\* n > 0; both the clipped and the plain assignment
SetMaxActiveThreadNum(n) ==
    /\ gpc = "ready"
    /\ maxActive' = IF n >= MaxThreadNum THEN MaxThreadNum ELSE n
    /\ wpc' = IF maxActive' > maxActive /\ currWaiting > 0 /\ running
              THEN WakeSleepers(wpc) ELSE wpc
    /\ UNCHANGED <<flags, taskQueue, currActive, currWaiting, gpc, afterStop, task, history>>

Start ==
    /\ gpc = "ready"
    /\ running' = TRUE
    /\ wpc' = WakeSleepers(wpc)
    /\ gpc' = "started"
    /\ UNCHANGED <<exit, taskQueue, counters, afterStop, task, history>>

\* What the call that starts now owes: everything added so far.
Owe == due' = Tasks \ fresh

WaitFinish(addToExecute) ==
    /\ gpc = "started"
    /\ Owe
    /\ gpc' = IF addToExecute THEN "help" ELSE "finish"
    /\ UNCHANGED <<flags, taskQueue, counters, wpc, afterStop, task, fresh, done>>

\* The GC thread takes the first task of the queue, if it may, and else goes on.
GCTake(may, label, next) ==
    IF taskQueue # <<>> /\ may
    THEN /\ task' = [task EXCEPT ![GC] = Head(taskQueue)]
         /\ taskQueue' = Tail(taskQueue)
         /\ gpc' = label
    ELSE gpc' = next /\ UNCHANGED <<task, taskQueue>>

\* One turn of the loop in which WaitFinish(true) executes tasks itself.
Help ==
    /\ gpc = "help"
    /\ GCTake(running /\ ~exit, "help_execute", "finish")
    /\ UNCHANGED <<flags, counters, wpc, afterStop, history>>

\* Waits until all workers wait for tasks, then calls Stop().
Finish ==
    /\ gpc = "finish"
    /\ gpc' = IF ~AllWorkDone(currWaiting) /\ running /\ ~exit THEN "finish_wait" ELSE "stop"
    /\ afterStop' = "drain"
    /\ UNCHANGED <<flags, taskQueue, counters, wpc, task, history>>

\* Mutant: Stop() does not wait for the workers.
AfterStopCheckAtOnce == afterStop

AfterStopCheck == IF currActive # 0 THEN "stop_wait" ELSE afterStop

Stop ==
    /\ gpc = "stop"
    /\ running' = FALSE
    /\ wpc' = WakeWaiters(wpc)
    /\ gpc' = AfterStopCheck
    /\ UNCHANGED <<exit, taskQueue, counters, afterStop, task, history>>

StopCheck ==
    /\ gpc = "stop_check"
    /\ gpc' = AfterStopCheck
    /\ UNCHANGED <<flags, taskQueue, counters, wpc, afterStop, task, history>>

\* Mutant: the queue is not drained to the end.
MayDrainUnlessExited == ~exit

MayDrain == TRUE

\* One turn of the loop of DrainTaskQueue().
Drain ==
    /\ gpc = "drain"
    /\ GCTake(MayDrain, "drain_execute", "ready")
    /\ UNCHANGED <<flags, counters, wpc, afterStop, history>>

\* DrainTaskQueue() on its own, in a collection without parallel marking
DrainTaskQueue ==
    /\ gpc = "ready"
    /\ Owe
    /\ gpc' = "drain"
    /\ UNCHANGED <<flags, taskQueue, counters, wpc, afterStop, task, fresh, done>>

GCFinishTask ==
    /\ gpc \in {"help_execute", "drain_execute"}
    /\ done' = done \cup {task[GC]}
    /\ task' = [task EXCEPT ![GC] = NoTask]
    /\ gpc' = IF gpc = "help_execute" THEN "help" ELSE "drain"
    /\ UNCHANGED <<flags, taskQueue, counters, wpc, afterStop, fresh, due>>

-----------------------------------------------------------------------------
(* Shutdown, by the thread that calls TracingCollector::Fini().            *)

\* Mutant: Exit() forgets the workers that sleep.
ExitWakesWaiters == WakeWaiters(wpc)

ExitWakes == WakeSleepers(WakeWaiters(wpc))

Exit ==
    /\ Constructed /\ gpc # "deleted"
    /\ exit' = TRUE
    /\ wpc' = ExitWakes
    /\ gpc' = CASE gpc = "finish_wait" -> "finish"
                 [] gpc = "stop_wait" -> "stop_check"
                 [] OTHER -> gpc
    /\ UNCHANGED <<running, taskQueue, counters, afterStop, task, history>>

\* The GC thread serves the terminate task.
GCQuit ==
    /\ gpc = "ready"
    /\ gpc' = "quit"
    /\ UNCHANGED <<flags, taskQueue, counters, wpc, afterStop, task, history>>

\* The rest of the destructor, once the GC thread and the workers are joined.
Destroy ==
    /\ gpc = "quit" /\ exit
    /\ \A w \in Workers : wpc[w] = "dead"
    /\ taskQueue' = <<>>
    /\ gpc' = "deleted"
    /\ UNCHANGED <<flags, counters, wpc, afterStop, task, history>>

Deleted == gpc = "deleted" /\ UNCHANGED vars

-----------------------------------------------------------------------------
WorkerFunc(w) ==
    \/ Sleep(w) \/ WaitForTask(w) \/ TakeTask(w) \/ GoRound(w)
    \/ FinishTask(w) \/ WorkerExit(w)

GCSteps == Help \/ Finish \/ Stop \/ StopCheck \/ Drain \/ GCFinishTask

\* Everything but waits that return without a notification.
Steady ==
    \/ \E w \in Workers : WorkerFunc(w)
    \/ GCSteps
    \/ \E n \in 1..MaxThreadNum + 1 : SetMaxActiveThreadNum(n)
    \/ Start \/ DrainTaskQueue
    \/ \E addToExecute \in BOOLEAN : WaitFinish(addToExecute)
    \/ \E t \in Tasks : AddByThread(t) \/ \E e \in Workers \cup {GC} : AddByTask(e, t)
    \/ Exit \/ GCQuit \/ Destroy \/ Deleted

\* std::condition_variable::wait may return spuriously.
SpuriousWorker(w) ==
    /\ wpc[w] \in {"sleeping", "waiting"}
    /\ wpc' = [wpc EXCEPT ![w] = IF @ = "sleeping" THEN "sleep_wake" ELSE "task_wake"]
    /\ UNCHANGED <<flags, taskQueue, counters, gpc, afterStop, task, history>>

SpuriousGC ==
    /\ gpc \in {"finish_wait", "stop_wait"}
    /\ gpc' = IF gpc = "finish_wait" THEN "finish" ELSE "stop_check"
    /\ UNCHANGED <<flags, taskQueue, counters, wpc, afterStop, task, history>>

Next == Steady \/ (\E w \in Workers : SpuriousWorker(w)) \/ SpuriousGC

Spec == Init /\ [][Next]_vars

\* Fairness: threads that are not in a wait are scheduled and get taskMutex,
\* tasks end, and a GC thread that has started the pool waits for it.
Fairness ==
    /\ \A w \in Workers : WF_vars(WorkerFunc(w))
    /\ WF_vars(GCSteps) /\ WF_vars(\E addToExecute \in BOOLEAN : WaitFinish(addToExecute))

\* Nothing is assumed of spurious wake-ups: liveness does not lean on them.
LiveSpec == Spec /\ Fairness

-----------------------------------------------------------------------------
(* Properties.                                                             *)

\* Variables have their types; neither counter leaves 0..maxThreadNum
\* (currActiveThreadNum, currWaittingThreadNum).
TypeOK ==
    /\ running \in BOOLEAN /\ exit \in BOOLEAN
    /\ taskQueue \in Seq(Tasks)
    /\ maxActive \in 1..MaxThreadNum
    /\ currActive \in 0..MaxThreadNum /\ currWaiting \in 0..MaxThreadNum
    /\ wpc \in [Workers -> WorkerPcs]
    /\ gpc \in GCPcs /\ afterStop \in {"ready", "drain"}
    /\ task \in [Workers \cup {GC} -> Tasks \cup {NoTask}]
    /\ fresh \subseteq Tasks /\ done \subseteq Tasks /\ due \subseteq Tasks

Awakened == {w \in Workers : wpc[w] \in {"top", "waiting", "task_wake", "execute"}}
Waiting  == {w \in Workers : wpc[w] \in {"waiting", "task_wake"}}

\* The two counters, stepped in both branches of two nested wait loops and at
\* the end of a thread, always count what Stop() and WaitFinish() take them to
\* count (currActiveThreadNum, currWaittingThreadNum).
CountersExact == currActive = Cardinality(Awakened) /\ currWaiting = Cardinality(Waiting)

\* Once the GC thread has returned from Stop() and until it calls Start()
\* again, no worker executes a task: the GC thread then uses the workers'
\* results without a lock.
StoppedIsQuiet ==
    gpc \in {"ready", "drain", "drain_execute", "quit", "deleted"}
        => \A w \in Workers : wpc[w] # "execute"

\* When WaitFinish() or DrainTaskQueue() returns, every task added before the
\* call and every task such a task has added has been executed, also when
\* Exit() came in between.
NoTaskLeftBehind == gpc = "ready" => due \subseteq done

\* WaitFinish() returns, with every mix of late tasks, sleeping workers and
\* Exit(), and without spurious wake-ups.
WaitFinishReturns == gpc \in {"help", "finish"} ~> gpc = "ready"

\* After Exit() all workers end, wherever they wait.
ExitEndsWorkers == exit ~> \A w \in Workers : wpc[w] = "dead"
=============================================================================
