----------------------------- MODULE ClassInit -----------------------------
(***************************************************************************)
(* Class initialisation (maplert/src/mrt_class_init.cpp): threads that use *)
(* a class for the first time run its static initialiser <clinit>, after   *)
(* those of its superclasses, while other threads that use it wait.        *)
(*                                                                         *)
(* A thread's calls are a stack of frames, the innermost first.  Initial-  *)
(* isation of a class is entered through MRT_TryInitClass() by the         *)
(* program, or by an initialiser that uses another class; super classes    *)
(* are initialised by the inner TryInitClass().  The class's own monitor   *)
(* is held from before the state is read again until it is final.          *)
(***************************************************************************)
EXTENDS Naturals, Sequences, FiniteSets

CONSTANTS
    Threads,
    Classes,        \* classes and interfaces
    Missing,        \* a super class that was not found (nullptr)
    NoThread,
    SuperClassArray,\* the super class and the interfaces of each class, in order
    Interfaces,
    HasDefault,     \* interfaces that declare a default method
    HasClinit,      \* those with a <clinit>
    Uses,           \* the classes that the <clinit> of a class uses
    MayThrow,       \* the classes whose <clinit> may throw
    Program         \* the classes that the program itself uses

ASSUME ClassesAssumption ==
    /\ Missing \notin Classes /\ NoThread \notin Threads
    /\ SuperClassArray \in [Classes -> Seq(Classes \cup {Missing})]
    /\ HasDefault \subseteq Interfaces /\ Interfaces \subseteq Classes
    /\ HasClinit \subseteq Classes /\ MayThrow \subseteq HasClinit
    /\ Uses \in [Classes -> SUBSET Classes] /\ Program \subseteq Classes

VARIABLES
    initState,  \* of each class
    owner,      \* the thread that holds the monitor of each class
    depth,      \* how often it has entered it
    stack,      \* of each thread
    pending,    \* its pending exception: an Error or another one
    runs,       \* history: how often each <clinit> was called
    passed      \* history: classes each thread was let past the check of by another's work

vars == <<initState, owner, depth, stack, pending, runs, passed>>

\* A call of TryInitClass() from MRT_TryInitClass() ("entry") or from
\* InitSuperClasses() ("super"), or of InitSuperClasses() for an interface that
\* is not itself initialised ("walk").
Frame(k, c, rec, at) ==
    [kind |-> k, class |-> c, recursive |-> rec, pc |-> at, i |-> 1, uses |-> {}]

Top(t) == stack[t][1]
Below(t) == Tail(stack[t])
At(t, pc) == stack[t] # <<>> /\ Top(t).pc = pc
Replace(t, f) == stack' = [stack EXCEPT ![t] = <<f>> \o Below(t)]
Goto(t, pc) == Replace(t, [Top(t) EXCEPT !.pc = pc])
Call(t, f, g) == stack' = [stack EXCEPT ![t] = <<g, f>> \o Below(t)]

\* The call returns with exception e pending; MRT_TryInitClass() turns what is
\* not an Error into an ExceptionInInitializerError, which is one.
Return(t, e) ==
    /\ stack' = [stack EXCEPT ![t] = Below(t)]
    /\ pending' = [pending EXCEPT ![t] =
                     IF Top(t).kind = "entry" /\ e # "none" THEN "error" ELSE e]

Init ==
    /\ initState = [c \in Classes |-> "uninitialized"]
    /\ owner = [c \in Classes |-> NoThread]
    /\ depth = [c \in Classes |-> 0]
    /\ stack = [t \in Threads |-> <<>>]
    /\ pending = [t \in Threads |-> "none"]
    /\ runs = [c \in Classes |-> 0]
    /\ passed = [t \in Threads |-> {}]

-----------------------------------------------------------------------------
(* ObjectBase::MonitorEnter() and MonitorExit()                            *)

MonitorEnter(t, c) ==
    /\ owner[c] \in {NoThread, t}
    /\ owner' = [owner EXCEPT ![c] = t]
    /\ depth' = [depth EXCEPT ![c] = @ + 1]

MonitorExit(t, c) ==
    /\ depth' = [depth EXCEPT ![c] = @ - 1]
    /\ owner' = [owner EXCEPT ![c] = IF depth[c] = 1 THEN NoThread ELSE t]

-----------------------------------------------------------------------------

\* The program uses class c: MRT_TryInitClass(), or MRT_TryInitClassOnDemand()
\* from the signal handler of a load through initState.
MRT_TryInitClass(t, c) ==
    /\ stack[t] = <<>>
    /\ stack' = [stack EXCEPT ![t] = <<Frame("entry", c, c \notin Interfaces, "check")>>]
    /\ pending' = [pending EXCEPT ![t] = "none"]
    /\ UNCHANGED <<initState, owner, depth, runs, passed>>

\* Let past by an initialisation that is not the thread's own.
LetPast(t, c) ==
    IF owner[c] = t THEN passed ELSE [passed EXCEPT ![t] = @ \cup {c}]

\* Mutant: a class that is being initialised is taken for an initialised one.
DecidedEarly == {"initialized", "initializing"}

Decided == {"initialized"}

\* TryInitClass(): the first look at the state takes no lock.
TryInitClass(t) ==
    LET c == Top(t).class IN
    /\ At(t, "check")
    /\ \/ /\ initState[c] \in Decided
          /\ Return(t, pending[t])
          /\ passed' = LetPast(t, c)
       \/ /\ initState[c] = "failed"
          /\ Return(t, "error")
          /\ UNCHANGED passed
       \/ /\ initState[c] \notin Decided \cup {"failed"}
          /\ Goto(t, "enter")
          /\ UNCHANGED <<pending, passed>>
    /\ UNCHANGED <<initState, owner, depth, runs>>

\* Mutant: a thread that waited while the initialisation failed tries again.
StateAgainRetry(c) ==
    IF initState[c] = "failed" THEN "uninitialized" ELSE initState[c]

StateAgain(c) == initState[c]

\* The monitor is entered, the state is read again, and the monitor is left at
\* once unless the class has to be initialised here (RecordKlass...()).
InitClassImpl(t) ==
    LET c == Top(t).class IN
    /\ At(t, "enter")
    /\ owner[c] \in {NoThread, t}
    /\ IF StateAgain(c) = "uninitialized"
       THEN /\ MonitorEnter(t, c)
            /\ initState' = [initState EXCEPT ![c] = "initializing"]
            /\ Goto(t, IF Top(t).recursive THEN "supers" ELSE "clinit")
            /\ UNCHANGED <<pending, passed>>
       ELSE /\ Return(t, IF initState[c] = "failed" THEN "error" ELSE pending[t])
            /\ passed' = IF initState[c] = "failed" THEN passed ELSE LetPast(t, c)
            /\ UNCHANGED <<initState, owner, depth>>
    /\ UNCHANGED runs

\* Mutant: only classes are initialised before their subclasses.
NeedsClinitNoInterface(s) == s \notin Interfaces

NeedsClinit(s) == s \notin Interfaces \/ s \in HasDefault

\* Mutant: the loop stays at an interface that is only walked through.
NextSuperSame(f) ==
    IF NeedsClinit(SuperClassArray[f.class][f.i]) THEN [f EXCEPT !.i = @ + 1] ELSE f

NextSuper(f) == [f EXCEPT !.i = @ + 1]

\* One turn of the loop in InitSuperClasses(), or its end.  An exception that is
\* pending after one super class does not end it.
InitSuperClasses(t) ==
    LET f == Top(t)
        array == SuperClassArray[f.class]
    IN
    /\ At(t, "supers")
    /\ \/ /\ f.i > Len(array)
          /\ IF f.kind = "walk" THEN Return(t, pending[t])
             ELSE Goto(t, "clinit") /\ UNCHANGED pending
       \/ /\ f.i <= Len(array) /\ array[f.i] = Missing
          /\ pending' = [pending EXCEPT ![t] = "error"]
          /\ Replace(t, [f EXCEPT !.i = Len(array) + 1])
       \/ /\ f.i <= Len(array) /\ array[f.i] # Missing
          /\ Call(t, NextSuper(f), IF NeedsClinit(array[f.i])
                                    THEN Frame("super", array[f.i], TRUE, "check")
                                    ELSE Frame("walk", array[f.i], TRUE, "supers"))
          /\ UNCHANGED pending
    /\ UNCHANGED <<initState, owner, depth, runs, passed>>

\* After the super classes: fail, call <clinit>, or be done without one.
BeginClinit(t) ==
    LET c == Top(t).class IN
    /\ At(t, "clinit")
    /\ \/ /\ pending[t] # "none"
          /\ initState' = [initState EXCEPT ![c] = "failed"]
          /\ Goto(t, "exit")
          /\ UNCHANGED runs
       \/ /\ pending[t] = "none" /\ c \in HasClinit
          /\ runs' = [runs EXCEPT ![c] = @ + 1]
          /\ Replace(t, [Top(t) EXCEPT !.pc = "body", !.uses = Uses[c]])
          /\ UNCHANGED initState
       \/ /\ pending[t] = "none" /\ c \notin HasClinit
          /\ initState' = [initState EXCEPT ![c] = "initialized"]
          /\ Goto(t, "exit")
          /\ UNCHANGED runs
    /\ UNCHANGED <<owner, depth, pending, passed>>

\* The Java code of <clinit>: it uses classes, whose initialisation may throw,
\* catches that or not, and may throw itself.
RunClinit(t) ==
    LET f == Top(t) IN
    /\ At(t, "body")
    /\ \/ /\ pending[t] = "none"
          /\ \E u \in f.uses :
                Call(t, [f EXCEPT !.uses = @ \ {u}],
                     Frame("entry", u, u \notin Interfaces, "check"))
          /\ UNCHANGED pending
       \/ /\ pending[t] = "none" /\ f.class \in MayThrow
          /\ pending' = [pending EXCEPT ![t] = "exception"]
          /\ Goto(t, "set")
       \/ /\ pending[t] # "none" /\ f.class \in MayThrow
          /\ Goto(t, "set") /\ UNCHANGED pending
       \/ /\ pending[t] # "none"
          /\ pending' = [pending EXCEPT ![t] = "none"] /\ UNCHANGED stack
       \/ /\ pending[t] = "none" /\ f.uses = {}
          /\ Goto(t, "set") /\ UNCHANGED pending
    /\ UNCHANGED <<initState, owner, depth, runs, passed>>

\* CallClinit() after the call.
EndClinit(t) ==
    LET c == Top(t).class IN
    /\ At(t, "set")
    /\ initState' = [initState EXCEPT ![c] =
                       IF pending[t] # "none" THEN "failed" ELSE "initialized"]
    /\ Goto(t, "exit")
    /\ UNCHANGED <<owner, depth, pending, runs, passed>>

EndInitClass(t) ==
    /\ At(t, "exit")
    /\ MonitorExit(t, Top(t).class)
    /\ Return(t, pending[t])
    /\ UNCHANGED <<initState, runs, passed>>

Step(t) ==
    \/ TryInitClass(t) \/ InitClassImpl(t) \/ InitSuperClasses(t)
    \/ BeginClinit(t) \/ RunClinit(t) \/ EndClinit(t) \/ EndInitClass(t)

Next == \E t \in Threads : Step(t) \/ \E c \in Program : MRT_TryInitClass(t, c)

Spec == Init /\ [][Next]_vars

\* Threads are scheduled; one that waits for a monitor need only get it when
\* nobody else takes it any more.
Fairness == \A t \in Threads : WF_vars(Step(t))

LiveSpec == Spec /\ Fairness

-----------------------------------------------------------------------------
(* Properties                                                              *)

TypeOK ==
    /\ initState \in [Classes -> {"uninitialized", "initializing", "failed", "initialized"}]
    /\ owner \in [Classes -> Threads \cup {NoThread}]
    /\ depth \in [Classes -> Nat]
    /\ pending \in [Threads -> {"none", "exception", "error"}]
    /\ runs \in [Classes -> Nat]
    /\ passed \in [Threads -> SUBSET Classes]

\* t is in the initialiser of c.
Runs(t, c) ==
    \E k \in DOMAIN stack[t] : stack[t][k].class = c /\ stack[t][k].pc \in {"body", "set"}

\* No <clinit> is ever called a second time, by no thread, also after it
\* failed, and one that runs is run in state kClassInitializing, so that
\* CallClinit() does not meet its LOG(FATAL).
ClinitOnce ==
    /\ \A c \in Classes : runs[c] <= 1
    /\ \A t \in Threads, c \in Classes :
          Runs(t, c) => initState[c] = "initializing" /\ owner[c] = t

\* A thread gets past the check of a class that another thread initialises only
\* when the initialisation is complete.
NoHalfInitialised == \A t \in Threads : \A c \in passed[t] : initState[c] = "initialized"

Elements(s) == {s[k] : k \in DOMAIN s}

\* What is reached from class c by following the super class arrays of the
\* classes and interfaces in Through.
Ancestors(c, Through) ==
    LET reach[n \in 0 .. Cardinality(Classes)] ==
          IF n = 0 THEN Elements(SuperClassArray[c])
          ELSE reach[n - 1] \cup
               UNION {Elements(SuperClassArray[s]) : s \in reach[n - 1] \cap Through}
    IN reach[Cardinality(Classes)]

\* The <clinit> of a class does not run before those of the ancestors found
\* so, but for one that the same thread is already in.
InitialisedBefore(Through) ==
    \A t \in Threads, c \in Classes \ Interfaces :
       Runs(t, c) =>
          \A s \in Ancestors(c, Through) :
             s \notin Interfaces \ HasDefault => initState[s] = "initialized" \/ owner[s] = t

\* While the <clinit> of a class runs, its super classes and their interfaces
\* with default methods are initialised, also those that are found through
\* interfaces without default methods.
SupersFirst == InitialisedBefore(Classes \ HasDefault)

\* The same for every interface among the supers "that declares a non-abstract,
\* non-static method" (mrt_class_init.cpp:134).
AllSupersFirst == InitialisedBefore(Classes)

\* Every use of a class returns, whoever initialises it and however that ends.
TryReturns == \A t \in Threads : stack[t] # <<>> ~> stack[t] = <<>>
=============================================================================
