------------------------ MODULE ConcurrentMarkProofs ------------------------
(***************************************************************************)
(* Proofs about ConcurrentMark, for every set of mutators, objects and     *)
(* fields, every size of a SATB node and every number of heap operations,  *)
(* when no pause falls into a mutator's exit (with ExitGap it is false).   *)
(*                                                                         *)
(* That nothing is hidden from the marking is not inductive: what can      *)
(* still be found in the heap changes when two mutators write to a field   *)
(* at once and one of them overwrites what was not logged.  The argument   *)
(* is about the heap h of the first pause.  Kept(h) is what marking will   *)
(* have marked in the end if it goes on in h; it does not depend on the    *)
(* present heap, and whatever a scanned mutator holds, reads or stores is  *)
(* in it.  A field that marking has not read either has its value of h, or *)
(* the barrier has secured that value.                                     *)
(***************************************************************************)
EXTENDS ConcurrentMark, FiniteSetTheorems, TLAPS

\* The object a field belongs to, Null for a static field
Holder(s) == IF s \in Statics THEN Null ELSE s[1]

\* C has the objects of S, and what the fields of P and of its objects that
\* are not in M refer to in heap h.
Covers(h, M, S, P, C) ==
    /\ S \subseteq C
    /\ \A s \in Slots : s \in P \/ Holder(s) \in C \ M => h[s] \in C \cup {Null}

Found(h, M, S, P) ==
    {o \in Objects : \A C \in SUBSET Objects : Covers(h, M, S, P, C) => o \in C}

\* Objects that marking has or was given, and what it will mark in heap h
Secured == marked \cup GreyObjects
Kept(h) == Found(h, marked, Secured, pending)

Unread(s) == s \in pending \/ Holder(s) \in Objects \ marked

Writing == {"should", "push", "store"}
Paused  == {"outside", "native", "cleared"}
Logging == gpc \in {"mark", "wait", "remark", "stw2"}

\* What the GC thread has set up, label by label.
PhaseInv ==
    /\ running <=> Logging \/ gpc = "cleanup"
    /\ ~running => work = {} /\ pending = {} /\ toScan = {} /\ retired = {}
    /\ gpc \in {"idle", "init"} => marked = {}
    /\ gpc = "init" => enqueued = {}
    /\ gpc \notin {"reset", "sweep"} => garbage = {}
    /\ garbage \subseteq allocated
    /\ gpc \in {"remark", "stw2", "cleanup"} => toScan = {}
    /\ gpc = "cleanup" => retired = {}

\* What mutators do meanwhile: they are armed while the barrier has to log,
\* and one whose stack is not scanned does not run.
MutatorInv ==
    \A m \in Mutators :
        /\ gpc = "cleanup" => pc[m] \in Paused
        /\ ~Logging => ~armed[m] /\ node[m] = {} /\ pc[m] \notin {"should", "push"}
        /\ Logging /\ pc[m] \in Managed \cup {"native", "scan"} => armed[m]
        /\ m \in toScan => pc[m] \in {"native", "cleared", "scan"}
        /\ pc[m] = "scan" => m \in toScan
        /\ pc[m] \in {"outside", "cleared", "removed"} => local[m] = {}
        /\ pc[m] = "outside" => ~armed[m] /\ node[m] = {}

Used == allocated \ garbage

\* No reference dangles, and none leads to an object that is swept.
UsedInv ==
    /\ \A m \in Mutators : local[m] \subseteq Used
    /\ \A s \in Slots : Holder(s) \in Used \cup {Null} => heap[s] \in Used \cup {Null}
    /\ \A s \in Slots : Holder(s) \in Objects \ allocated => heap[s] = Null

\* A write is to a field of an object that the mutator holds, of a reference
\* that it holds.
WriteInv ==
    \A m \in Mutators :
        /\ pc[m] \in Writing => /\ slot[m] \in Slots /\ Holder(slot[m]) \in local[m] \cup {Null}
                                /\ val[m] \in local[m] \cup {Null}
        /\ pc[m] \in {"should", "push"} => old[m] \in allocated

SecuredInv == running => enqueued \subseteq Secured /\ Secured \subseteq allocated

\* h is a heap without dangling references.
HeapInv(h) ==
    /\ h \in [Slots -> allocated \cup {Null}]
    /\ \A s \in Slots : Holder(s) \in Objects \ allocated => h[s] = Null

\* Scanned mutators hold, and the fields they can reach contain, what is kept.
HeldInv(h) ==
    /\ \A m \in Mutators \ toScan : local[m] \subseteq Kept(h)
    /\ \A s \in Slots : Holder(s) \in Kept(h) \cup {Null} => heap[s] \in Kept(h) \cup {Null}

\* Nobody has changed what is not kept.
UntouchedInv(h) == \A s \in Slots : Holder(s) \in Objects \ Kept(h) => heap[s] = h[s]

\* The barrier has secured the value in h of an unread field that was changed,
\* or is about to be.
UnreadInv(h) ==
    \A s \in Slots :
        Unread(s) => heap[s] = h[s] \/ h[s] \in Secured \cup {Null}

BarrierInv(h) ==
    \A m \in Mutators, s \in Slots :
        pc[m] \in Writing /\ slot[m] = s /\ Unread(s)
            => h[s] \in Secured \cup {Null} \/ (pc[m] = "should" /\ h[s] = old[m])

SnapshotInv(h) ==
    HeapInv(h) /\ HeldInv(h) /\ UntouchedInv(h) /\ UnreadInv(h) /\ BarrierInv(h)

MarkInv == running => \E h \in [Slots -> Objects \cup {Null}] : SnapshotInv(h)

NodeInv == \A m \in Mutators : IsFiniteSet(node[m])

IInv ==
    /\ TypeOK /\ NodeInv /\ PhaseInv /\ MutatorInv /\ UsedInv /\ WriteInv
    /\ SecuredInv /\ MarkInv

\* The fields of the objects of X are those whose holder is in X.
LEMMA HolderIs ==
    ASSUME NEW s \in Slots
    PROVE  /\ Holder(s) \in Objects \cup {Null}
           /\ s \in Statics <=> Holder(s) = Null
           /\ \A X \in SUBSET Objects : s \in X \X Fields <=> Holder(s) \in X
  <1>1. CASE s \in Statics
    BY <1>1, MarkAssumption DEF Holder, Slots
  <1>2. CASE s \in Objects \X Fields
    BY <1>2, MarkAssumption DEF Holder, Slots
  <1> QED BY <1>1, <1>2 DEF Slots

\* What is found in h is covered, and nothing else needs to be.
LEMMA FoundCovers ==
    ASSUME NEW h \in [Slots -> Objects \cup {Null}], NEW M, NEW P, NEW S \in SUBSET Objects
    PROVE  Covers(h, M, S, P, Found(h, M, S, P))
  <1> DEFINE F == Found(h, M, S, P)
  <1>1. S \subseteq F
    BY DEF Found, Covers
  <1>2. ASSUME NEW s \in Slots, s \in P \/ Holder(s) \in F \ M, h[s] # Null
        PROVE  h[s] \in F
    <2>1. ASSUME NEW C \in SUBSET Objects, Covers(h, M, S, P, C)
          PROVE  h[s] \in C
      <3>1. s \in P \/ Holder(s) \in C \ M
        BY <1>2, <2>1 DEF Found
      <3>2. h[s] \in C \cup {Null}
        BY <2>1, <3>1 DEF Covers
      <3> QED BY <3>2, <1>2
    <2>2. h[s] \in Objects
      BY <1>2
    <2> QED BY <2>1, <2>2 DEF Found
  <1> QED BY <1>1, <1>2 DEF Covers

\* Every set that covers contains what is found.
LEMMA FoundLeast ==
    ASSUME NEW h, NEW M, NEW P, NEW S, NEW C \in SUBSET Objects, Covers(h, M, S, P, C)
    PROVE  Found(h, M, S, P) \subseteq C
  BY DEF Found

\* More is found when what covers the one covers the other.
LEMMA FoundGrows ==
    ASSUME NEW h, NEW M, NEW P, NEW S, NEW M2, NEW P2, NEW S2,
           \A C \in SUBSET Objects : Covers(h, M2, S2, P2, C) => Covers(h, M, S, P, C)
    PROVE  Found(h, M, S, P) \subseteq Found(h, M2, S2, P2)
  BY DEF Found

\* The fields of one object are those that it holds.
LEMMA HolderOne ==
    ASSUME NEW s \in Slots, NEW o \in Objects
    PROVE  s \in {o} \X Fields <=> Holder(s) = o
  <1>1. {o} \in SUBSET Objects
    OBVIOUS
  <1>2. s \in {o} \X Fields <=> Holder(s) \in {o}
    BY <1>1, HolderIs
  <1> QED BY <1>2

\* What is secured, element by element, before and after a step.
LEMMA SecuredIs ==
    \A x : x \in Secured <=> \/ x \in marked \/ x \in work \/ x \in retired
                             \/ \E m \in Mutators : x \in node[m]
                             \/ \E m \in Mutators : pc[m] = "push" /\ x = old[m]
  <1> TAKE x
  <1> DEFINE U == UNION {node[m] : m \in Mutators}
             O == {old[m] : m \in {y \in Mutators : pc[y] = "push"}}
  <1>1. x \in U <=> \E m \in Mutators : x \in node[m]
    OBVIOUS
  <1>2. x \in O <=> \E m \in Mutators : pc[m] = "push" /\ x = old[m]
    OBVIOUS
  <1>3. Secured = marked \cup (work \cup retired \cup U \cup O)
    BY DEF Secured, GreyObjects
  <1> HIDE DEF U, O
  <1>4. x \in Secured <=> x \in marked \/ x \in work \/ x \in retired \/ x \in U \/ x \in O
    BY <1>3
  <1> QED BY <1>1, <1>2, <1>4

LEMMA SecuredNext ==
    \A x : x \in Secured' <=> \/ x \in marked' \/ x \in work' \/ x \in retired'
                              \/ \E m \in Mutators : x \in node'[m]
                              \/ \E m \in Mutators : pc'[m] = "push" /\ x = old'[m]
  <1> TAKE x
  <1> DEFINE U == UNION {node'[m] : m \in Mutators}
             O == {old'[m] : m \in {y \in Mutators : pc'[y] = "push"}}
  <1>1. x \in U <=> \E m \in Mutators : x \in node'[m]
    OBVIOUS
  <1>2. x \in O <=> \E m \in Mutators : pc'[m] = "push" /\ x = old'[m]
    OBVIOUS
  <1>3. Secured' = marked' \cup (work' \cup retired' \cup U \cup O)
    BY DEF Secured, GreyObjects
  <1> HIDE DEF U, O
  <1>4. x \in Secured' <=> x \in marked' \/ x \in work' \/ x \in retired' \/ x \in U \/ x \in O
    BY <1>3
  <1> QED BY <1>1, <1>2, <1>4

\* A new mutator holds nothing and is armed exactly while marking runs.
LEMMA AttachStep ==
    ASSUME IInv, ~ExitGap, NEW m \in Mutators, Attach(m)
    PROVE  IInv'
  <1> USE MarkAssumption DEF IInv, TypeOK
  <1>1. HeapTypeOK'
    BY DEF Attach, InitArmed, writeVars, logVars, markVars, gcVars, Goto, HeapTypeOK, MutatorPcs,
       Managed
  <1>2. LogTypeOK'
    <2>1. armed' \in [Mutators -> BOOLEAN]
      <3>1. running \in BOOLEAN /\ armed \in [Mutators -> BOOLEAN] BY DEF MarkTypeOK, LogTypeOK
      <3>2. armed' = [armed EXCEPT ![m] = running] BY DEF Attach, InitArmed
      <3> QED BY <3>1, <3>2
    <2> QED BY <2>1 DEF Attach, writeVars, logVars, markVars, gcVars, Goto, LogTypeOK
  <1>3. MarkTypeOK'
    BY DEF Attach, InitArmed, writeVars, logVars, markVars, gcVars, Goto, MarkTypeOK, HeapTypeOK,
       LogTypeOK, GCPcs, kReMarkRounds
  <1>4. NodeInv'
    BY DEF Attach, InitArmed, writeVars, logVars, markVars, gcVars, Goto, NodeInv, LogTypeOK
  <1>5. PhaseInv'
    BY DEF Attach, InitArmed, writeVars, logVars, markVars, gcVars, Goto, PhaseInv, Logging,
       MutatorInv, Stopped
  <1>6. MutatorInv'
    BY DEF Attach, InitArmed, writeVars, logVars, markVars, gcVars, Goto, HeapTypeOK, LogTypeOK,
       MarkTypeOK, MutatorInv, PhaseInv, Logging, Managed, Paused, Stopped
  <1>7. UsedInv'
    BY HolderIs DEF Attach, InitArmed, writeVars, logVars, markVars, gcVars, Goto, HeapTypeOK,
       UsedInv, Used, PhaseInv
  <1>8. WriteInv'
    BY DEF Attach, InitArmed, writeVars, logVars, markVars, gcVars, Goto, HeapTypeOK, LogTypeOK,
       WriteInv, Writing
  <1>9. SecuredInv'
    BY SecuredIs, SecuredNext DEF Attach, InitArmed, writeVars, logVars, markVars, gcVars, Goto,
       SecuredInv, PhaseInv, HeapTypeOK, LogTypeOK
  <1>10. MarkInv'
    <2> SUFFICES ASSUME running' PROVE \E h \in [Slots -> Objects \cup {Null}] : SnapshotInv(h)'
      BY DEF MarkInv
    <2>1. running
      BY DEF Attach, InitArmed, writeVars, logVars, markVars, gcVars, Goto
    <2>2. PICK h \in [Slots -> Objects \cup {Null}] : SnapshotInv(h)
      BY <2>1 DEF MarkInv
    <2>3. Secured' = Secured
      <3>1. \A x : x \in Secured' <=> x \in Secured
        BY SecuredIs, SecuredNext DEF Attach, InitArmed, writeVars, logVars, markVars, gcVars,
           Goto, HeapTypeOK, LogTypeOK
      <3> QED BY <3>1
    <2>4. Kept(h)' = Kept(h)
      BY <2>3 DEF Kept, Attach, InitArmed, writeVars, logVars, markVars, gcVars, Goto
    <2>5. HeapInv(h)'
      BY <2>2 DEF SnapshotInv, HeapInv, Attach, InitArmed, writeVars, logVars, markVars, gcVars,
         Goto
    <2>6. HeldInv(h)'
      BY <2>2, <2>4 DEF SnapshotInv, HeldInv, Attach, InitArmed, writeVars, logVars, markVars,
         gcVars, Goto, HeapTypeOK
    <2>7. UntouchedInv(h)'
      BY <2>2, <2>4 DEF SnapshotInv, UntouchedInv, Attach, InitArmed, writeVars, logVars,
         markVars, gcVars, Goto
    <2>8. UnreadInv(h)'
      BY <2>2, <2>3 DEF SnapshotInv, UnreadInv, Unread, Attach, InitArmed, writeVars, logVars,
         markVars, gcVars, Goto
    <2>9. BarrierInv(h)'
      BY <2>2, <2>3 DEF SnapshotInv, BarrierInv, Unread, Writing, Attach, InitArmed, writeVars,
         logVars, markVars, gcVars, Goto, HeapTypeOK, LogTypeOK
    <2> QED BY <2>5, <2>6, <2>7, <2>8, <2>9 DEF SnapshotInv
  <1> QED BY <1>1, <1>2, <1>3, <1>4, <1>5, <1>6, <1>7, <1>8, <1>9, <1>10

\* The heap and what is held stay as they are.
LEMMA EnterSaferegionStep ==
    ASSUME IInv, ~ExitGap, NEW m \in Mutators, EnterSaferegion(m)
    PROVE  IInv'
  <1> USE MarkAssumption DEF IInv, TypeOK
  <1>1. HeapTypeOK'
    BY DEF EnterSaferegion, writeVars, logVars, markVars, gcVars, Goto, HeapTypeOK, MutatorPcs,
       Managed
  <1>2. LogTypeOK'
    BY DEF EnterSaferegion, writeVars, logVars, markVars, gcVars, Goto, LogTypeOK, HeapTypeOK
  <1>3. MarkTypeOK'
    BY DEF EnterSaferegion, writeVars, logVars, markVars, gcVars, Goto, MarkTypeOK, HeapTypeOK,
       LogTypeOK, GCPcs, kReMarkRounds
  <1>4. NodeInv'
    BY DEF EnterSaferegion, writeVars, logVars, markVars, gcVars, Goto, NodeInv, LogTypeOK
  <1>5. PhaseInv'
    BY DEF EnterSaferegion, writeVars, logVars, markVars, gcVars, Goto, PhaseInv, Logging,
       MutatorInv, Stopped
  <1>6. MutatorInv'
    BY DEF EnterSaferegion, writeVars, logVars, markVars, gcVars, Goto, HeapTypeOK, LogTypeOK,
       MarkTypeOK, MutatorInv, PhaseInv, Logging, Managed, Paused, Stopped
  <1>7. UsedInv'
    BY HolderIs DEF EnterSaferegion, writeVars, logVars, markVars, gcVars, Goto, HeapTypeOK,
       UsedInv, Used, PhaseInv
  <1>8. WriteInv'
    BY DEF EnterSaferegion, writeVars, logVars, markVars, gcVars, Goto, HeapTypeOK, LogTypeOK,
       WriteInv, Writing
  <1>9. SecuredInv'
    BY SecuredIs, SecuredNext DEF EnterSaferegion, writeVars, logVars, markVars, gcVars, Goto,
       SecuredInv, PhaseInv, HeapTypeOK, LogTypeOK
  <1>10. MarkInv'
    <2> SUFFICES ASSUME running' PROVE \E h \in [Slots -> Objects \cup {Null}] : SnapshotInv(h)'
      BY DEF MarkInv
    <2>1. running
      BY DEF EnterSaferegion, writeVars, logVars, markVars, gcVars, Goto
    <2>2. PICK h \in [Slots -> Objects \cup {Null}] : SnapshotInv(h)
      BY <2>1 DEF MarkInv
    <2>3. Secured' = Secured
      <3>1. \A x : x \in Secured' <=> x \in Secured
        BY SecuredIs, SecuredNext DEF EnterSaferegion, writeVars, logVars, markVars, gcVars, Goto,
           HeapTypeOK, LogTypeOK
      <3> QED BY <3>1
    <2>4. Kept(h)' = Kept(h)
      BY <2>3 DEF Kept, EnterSaferegion, writeVars, logVars, markVars, gcVars, Goto
    <2>5. HeapInv(h)'
      BY <2>2 DEF SnapshotInv, HeapInv, EnterSaferegion, writeVars, logVars, markVars, gcVars,
         Goto
    <2>6. HeldInv(h)'
      BY <2>2, <2>4 DEF SnapshotInv, HeldInv, EnterSaferegion, writeVars, logVars, markVars,
         gcVars, Goto, HeapTypeOK
    <2>7. UntouchedInv(h)'
      BY <2>2, <2>4 DEF SnapshotInv, UntouchedInv, EnterSaferegion, writeVars, logVars, markVars,
         gcVars, Goto
    <2>8. UnreadInv(h)'
      BY <2>2, <2>3 DEF SnapshotInv, UnreadInv, Unread, EnterSaferegion, writeVars, logVars,
         markVars, gcVars, Goto
    <2>9. BarrierInv(h)'
      BY <2>2, <2>3 DEF SnapshotInv, BarrierInv, Unread, Writing, EnterSaferegion, writeVars,
         logVars, markVars, gcVars, Goto, HeapTypeOK, LogTypeOK
    <2> QED BY <2>5, <2>6, <2>7, <2>8, <2>9 DEF SnapshotInv
  <1> QED BY <1>1, <1>2, <1>3, <1>4, <1>5, <1>6, <1>7, <1>8, <1>9, <1>10

\* A mutator that is not scanned scans its stack before it runs.
LEMMA LeaveSaferegionStep ==
    ASSUME IInv, ~ExitGap, NEW m \in Mutators, LeaveSaferegion(m)
    PROVE  IInv'
  <1> USE MarkAssumption DEF IInv, TypeOK
  <1>1. HeapTypeOK'
    BY DEF LeaveSaferegion, writeVars, logVars, markVars, gcVars, Goto, HeapTypeOK, MutatorPcs,
       Managed
  <1>2. LogTypeOK'
    BY DEF LeaveSaferegion, writeVars, logVars, markVars, gcVars, Goto, LogTypeOK, HeapTypeOK
  <1>3. MarkTypeOK'
    BY DEF LeaveSaferegion, writeVars, logVars, markVars, gcVars, Goto, MarkTypeOK, HeapTypeOK,
       LogTypeOK, GCPcs, kReMarkRounds
  <1>4. NodeInv'
    BY DEF LeaveSaferegion, writeVars, logVars, markVars, gcVars, Goto, NodeInv, LogTypeOK
  <1>5. PhaseInv'
    BY DEF LeaveSaferegion, writeVars, logVars, markVars, gcVars, Goto, PhaseInv, Logging,
       MutatorInv, Stopped
  <1>6. MutatorInv'
    BY DEF LeaveSaferegion, writeVars, logVars, markVars, gcVars, Goto, HeapTypeOK, LogTypeOK,
       MarkTypeOK, MutatorInv, PhaseInv, Logging, Managed, Paused, Stopped
  <1>7. UsedInv'
    BY HolderIs DEF LeaveSaferegion, writeVars, logVars, markVars, gcVars, Goto, HeapTypeOK,
       UsedInv, Used, PhaseInv
  <1>8. WriteInv'
    BY DEF LeaveSaferegion, writeVars, logVars, markVars, gcVars, Goto, HeapTypeOK, LogTypeOK,
       WriteInv, Writing
  <1>9. SecuredInv'
    BY SecuredIs, SecuredNext DEF LeaveSaferegion, writeVars, logVars, markVars, gcVars, Goto,
       SecuredInv, PhaseInv, HeapTypeOK, LogTypeOK
  <1>10. MarkInv'
    <2> SUFFICES ASSUME running' PROVE \E h \in [Slots -> Objects \cup {Null}] : SnapshotInv(h)'
      BY DEF MarkInv
    <2>1. running
      BY DEF LeaveSaferegion, writeVars, logVars, markVars, gcVars, Goto
    <2>2. PICK h \in [Slots -> Objects \cup {Null}] : SnapshotInv(h)
      BY <2>1 DEF MarkInv
    <2>3. Secured' = Secured
      <3>1. \A x : x \in Secured' <=> x \in Secured
        BY SecuredIs, SecuredNext DEF LeaveSaferegion, writeVars, logVars, markVars, gcVars, Goto,
           HeapTypeOK, LogTypeOK
      <3> QED BY <3>1
    <2>4. Kept(h)' = Kept(h)
      BY <2>3 DEF Kept, LeaveSaferegion, writeVars, logVars, markVars, gcVars, Goto
    <2>5. HeapInv(h)'
      BY <2>2 DEF SnapshotInv, HeapInv, LeaveSaferegion, writeVars, logVars, markVars, gcVars,
         Goto
    <2>6. HeldInv(h)'
      BY <2>2, <2>4 DEF SnapshotInv, HeldInv, LeaveSaferegion, writeVars, logVars, markVars,
         gcVars, Goto, HeapTypeOK
    <2>7. UntouchedInv(h)'
      BY <2>2, <2>4 DEF SnapshotInv, UntouchedInv, LeaveSaferegion, writeVars, logVars, markVars,
         gcVars, Goto
    <2>8. UnreadInv(h)'
      BY <2>2, <2>3 DEF SnapshotInv, UnreadInv, Unread, LeaveSaferegion, writeVars, logVars,
         markVars, gcVars, Goto
    <2>9. BarrierInv(h)'
      BY <2>2, <2>3 DEF SnapshotInv, BarrierInv, Unread, Writing, LeaveSaferegion, writeVars,
         logVars, markVars, gcVars, Goto, HeapTypeOK, LogTypeOK
    <2> QED BY <2>5, <2>6, <2>7, <2>8, <2>9 DEF SnapshotInv
  <1> QED BY <1>1, <1>2, <1>3, <1>4, <1>5, <1>6, <1>7, <1>8, <1>9, <1>10

\* What a scanned stack holds is secured, and with it what it leads to in h:
\* of the rest of the heap nobody has changed a field.
LEMMA MutatorScanStep ==
    ASSUME IInv, ~ExitGap, NEW m \in Mutators, MutatorScan(m)
    PROVE  IInv'
  <1> USE MarkAssumption DEF IInv, TypeOK
  <1>1. HeapTypeOK'
    BY DEF MutatorScan, ScanStack, writeVars, logVars, markVars, gcVars, Goto, HeapTypeOK,
       MutatorPcs, Managed
  <1>2. LogTypeOK'
    BY DEF MutatorScan, ScanStack, writeVars, logVars, markVars, gcVars, Goto, LogTypeOK,
       HeapTypeOK
  <1>3. MarkTypeOK'
    BY DEF MutatorScan, ScanStack, writeVars, logVars, markVars, gcVars, Goto, MarkTypeOK,
       HeapTypeOK, LogTypeOK, GCPcs, kReMarkRounds
  <1>4. NodeInv'
    BY DEF MutatorScan, ScanStack, writeVars, logVars, markVars, gcVars, Goto, NodeInv, LogTypeOK
  <1>5. PhaseInv'
    BY DEF MutatorScan, ScanStack, writeVars, logVars, markVars, gcVars, Goto, PhaseInv, Logging,
       MutatorInv, Stopped
  <1>6. MutatorInv'
    BY DEF MutatorScan, ScanStack, writeVars, logVars, markVars, gcVars, Goto, HeapTypeOK,
       LogTypeOK, MarkTypeOK, MutatorInv, PhaseInv, Logging, Managed, Paused, Stopped
  <1>7. UsedInv'
    BY HolderIs DEF MutatorScan, ScanStack, writeVars, logVars, markVars, gcVars, Goto,
       HeapTypeOK, UsedInv, Used, PhaseInv
  <1>8. WriteInv'
    BY DEF MutatorScan, ScanStack, writeVars, logVars, markVars, gcVars, Goto, HeapTypeOK,
       LogTypeOK, WriteInv, Writing
  <1>9. SecuredInv'
    <2>1. \A x : x \in Secured' <=> x \in Secured \/ x \in local[m]
      BY SecuredIs, SecuredNext DEF MutatorScan, ScanStack, writeVars, logVars, markVars, gcVars,
         Goto, HeapTypeOK
    <2>2. running' = running /\ enqueued' = enqueued /\ allocated' = allocated
      BY DEF MutatorScan, writeVars, logVars, markVars, gcVars, Goto
    <2> QED BY <2>1, <2>2 DEF SecuredInv, UsedInv, Used
  <1>10. MarkInv'
    <2> SUFFICES ASSUME running' PROVE \E h \in [Slots -> Objects \cup {Null}] : SnapshotInv(h)'
      BY DEF MarkInv
    <2>1. running
      BY DEF MutatorScan, ScanStack, writeVars, logVars, markVars, gcVars, Goto
    <2>2. PICK h \in [Slots -> Objects \cup {Null}] : SnapshotInv(h)
      BY <2>1 DEF MarkInv
    <2>3. /\ Secured \subseteq Objects /\ Secured' \subseteq Objects /\ Secured \subseteq Secured'
          /\ marked \subseteq Secured /\ marked' \subseteq Secured'
      <3>1. /\ Secured \subseteq Objects /\ Secured' \subseteq Objects
        BY <2>1, <1>1, <1>9 DEF SecuredInv, HeapTypeOK
      <3>2. marked \subseteq Secured /\ marked' \subseteq Secured'
        BY SecuredIs, SecuredNext
      <3>3. ASSUME NEW x, x \in Secured
            PROVE  x \in Secured'
        BY <3>3, SecuredIs, SecuredNext DEF MutatorScan, ScanStack, writeVars, logVars, markVars,
           gcVars, Goto, HeapTypeOK, LogTypeOK
      <3> QED BY <3>1, <3>2, <3>3
    <2>4. \A C \in SUBSET Objects :
             Covers(h, marked', Secured', pending', C) => Covers(h, marked, Secured, pending, C)
      BY <2>3 DEF Covers, MutatorScan, ScanStack, writeVars, logVars, markVars, gcVars, Goto
    <2>5. /\ Kept(h) \subseteq Kept(h)' /\ Kept(h)' \subseteq Objects
          /\ Covers(h, marked', Secured', pending', Kept(h)') /\ Secured \subseteq Kept(h)
      <3>1. Kept(h) \subseteq Kept(h)' /\ Kept(h)' \subseteq Objects
        BY <2>4, FoundGrows DEF Kept, Found
      <3>2. Covers(h, marked', Secured', pending', Kept(h)')
        BY <2>3, FoundCovers DEF Kept
      <3>3. Covers(h, marked, Secured, pending, Kept(h))
        BY <2>3, FoundCovers DEF Kept
      <3> QED BY <3>1, <3>2, <3>3 DEF Covers
    <2>6. HeapInv(h)'
      BY <2>2 DEF SnapshotInv, HeapInv, MutatorScan, ScanStack, writeVars, logVars, markVars,
         gcVars, Goto
    <2>7. \A s1 \in Slots :
           Holder(s1) \in Kept(h)' \cup {Null}
              => heap'[s1] \in Kept(h)' \cup {Null}
      <3> SUFFICES ASSUME NEW s1 \in Slots, Holder(s1) \in Kept(h)' \cup {Null}
                   PROVE  heap'[s1] \in Kept(h)' \cup {Null}
        OBVIOUS
      <3>1. heap' = heap /\ marked' \subseteq Secured
        BY SecuredIs DEF MutatorScan, ScanStack, writeVars, logVars, markVars, gcVars, Goto
      <3>2. CASE Holder(s1) \in Kept(h) \cup {Null}
        BY <3>1, <3>2, <2>2, <2>5 DEF SnapshotInv, HeldInv
      <3>3. CASE Holder(s1) \notin Kept(h) \cup {Null}
        <4>1. Holder(s1) \in Objects \ Kept(h) /\ Holder(s1) \in Kept(h)' \ marked'
          BY <3>1, <3>3, <2>3, <2>5, HolderIs
        <4>2. heap[s1] = h[s1]
          BY <4>1, <2>2 DEF SnapshotInv, UntouchedInv
        <4>3. h[s1] \in Kept(h)' \cup {Null}
          BY <4>1, <2>5 DEF Covers
        <4> QED BY <4>2, <4>3, <3>1
      <3> QED BY <3>2, <3>3
    <2>8. HeldInv(h)'
      <3>1. local' = local /\ toScan' = toScan \ {m} /\ local[m] \subseteq Secured'
        BY SecuredNext DEF MutatorScan, ScanStack, writeVars, logVars, markVars, gcVars, Goto
      <3>2. Secured' \subseteq Kept(h)'
        BY <2>5 DEF Covers
      <3> QED BY <3>1, <3>2, <2>2, <2>5, <2>7 DEF SnapshotInv, HeldInv
    <2>9. UntouchedInv(h)'
      BY <2>2, <2>5 DEF SnapshotInv, UntouchedInv, MutatorScan, ScanStack, writeVars, logVars,
         markVars, gcVars, Goto
    <2>10. UnreadInv(h)'
      BY <2>2, <2>3 DEF SnapshotInv, UnreadInv, Unread, MutatorScan, ScanStack, writeVars,
         logVars, markVars, gcVars, Goto
    <2>11. BarrierInv(h)'
      BY <2>2, <2>3 DEF SnapshotInv, BarrierInv, Unread, Writing, MutatorScan, ScanStack,
         writeVars, logVars, markVars, gcVars, Goto, HeapTypeOK, LogTypeOK
    <2> QED BY <2>6, <2>8, <2>9, <2>10, <2>11 DEF SnapshotInv
  <1> QED BY <1>1, <1>2, <1>3, <1>4, <1>5, <1>6, <1>7, <1>8, <1>9, <1>10

\* A mutator that exits lets go of its references; what is kept stays.
LEMMA ClearStackInfoStep ==
    ASSUME IInv, ~ExitGap, NEW m \in Mutators, ClearStackInfo(m)
    PROVE  IInv'
  <1> USE MarkAssumption DEF IInv, TypeOK
  <1>1. HeapTypeOK'
    BY DEF ClearStackInfo, writeVars, logVars, markVars, gcVars, Goto, HeapTypeOK, MutatorPcs,
       Managed
  <1>2. LogTypeOK'
    BY DEF ClearStackInfo, writeVars, logVars, markVars, gcVars, Goto, LogTypeOK, HeapTypeOK
  <1>3. MarkTypeOK'
    BY DEF ClearStackInfo, writeVars, logVars, markVars, gcVars, Goto, MarkTypeOK, HeapTypeOK,
       LogTypeOK, GCPcs, kReMarkRounds
  <1>4. NodeInv'
    BY DEF ClearStackInfo, writeVars, logVars, markVars, gcVars, Goto, NodeInv, LogTypeOK
  <1>5. PhaseInv'
    BY DEF ClearStackInfo, writeVars, logVars, markVars, gcVars, Goto, PhaseInv, Logging,
       MutatorInv, Stopped
  <1>6. MutatorInv'
    BY DEF ClearStackInfo, writeVars, logVars, markVars, gcVars, Goto, HeapTypeOK, LogTypeOK,
       MarkTypeOK, MutatorInv, PhaseInv, Logging, Managed, Paused, Stopped
  <1>7. UsedInv'
    BY HolderIs DEF ClearStackInfo, writeVars, logVars, markVars, gcVars, Goto, HeapTypeOK,
       UsedInv, Used, PhaseInv
  <1>8. WriteInv'
    BY DEF ClearStackInfo, writeVars, logVars, markVars, gcVars, Goto, HeapTypeOK, LogTypeOK,
       WriteInv, Writing
  <1>9. SecuredInv'
    BY SecuredIs, SecuredNext DEF ClearStackInfo, writeVars, logVars, markVars, gcVars, Goto,
       SecuredInv, PhaseInv, HeapTypeOK, LogTypeOK
  <1>10. MarkInv'
    <2> SUFFICES ASSUME running' PROVE \E h \in [Slots -> Objects \cup {Null}] : SnapshotInv(h)'
      BY DEF MarkInv
    <2>1. running
      BY DEF ClearStackInfo, writeVars, logVars, markVars, gcVars, Goto
    <2>2. PICK h \in [Slots -> Objects \cup {Null}] : SnapshotInv(h)
      BY <2>1 DEF MarkInv
    <2>3. Secured' = Secured
      <3>1. \A x : x \in Secured' <=> x \in Secured
        BY SecuredIs, SecuredNext DEF ClearStackInfo, writeVars, logVars, markVars, gcVars, Goto,
           HeapTypeOK, LogTypeOK
      <3> QED BY <3>1
    <2>4. Kept(h)' = Kept(h)
      BY <2>3 DEF Kept, ClearStackInfo, writeVars, logVars, markVars, gcVars, Goto
    <2>5. HeapInv(h)'
      BY <2>2 DEF SnapshotInv, HeapInv, ClearStackInfo, writeVars, logVars, markVars, gcVars, Goto
    <2>6. HeldInv(h)'
      BY <2>2, <2>4 DEF SnapshotInv, HeldInv, ClearStackInfo, writeVars, logVars, markVars,
         gcVars, Goto, HeapTypeOK
    <2>7. UntouchedInv(h)'
      BY <2>2, <2>4 DEF SnapshotInv, UntouchedInv, ClearStackInfo, writeVars, logVars, markVars,
         gcVars, Goto
    <2>8. UnreadInv(h)'
      BY <2>2, <2>3 DEF SnapshotInv, UnreadInv, Unread, ClearStackInfo, writeVars, logVars,
         markVars, gcVars, Goto
    <2>9. BarrierInv(h)'
      BY <2>2, <2>3 DEF SnapshotInv, BarrierInv, Unread, Writing, ClearStackInfo, writeVars,
         logVars, markVars, gcVars, Goto, HeapTypeOK, LogTypeOK
    <2> QED BY <2>5, <2>6, <2>7, <2>8, <2>9 DEF SnapshotInv
  <1> QED BY <1>1, <1>2, <1>3, <1>4, <1>5, <1>6, <1>7, <1>8, <1>9, <1>10

\* The stack that is taken off the scan is empty.
LEMMA RemoveMutatorStep ==
    ASSUME IInv, ~ExitGap, NEW m \in Mutators, RemoveMutator(m)
    PROVE  IInv'
  <1> USE MarkAssumption DEF IInv, TypeOK
  <1>1. HeapTypeOK'
    BY DEF RemoveMutator, writeVars, logVars, markVars, gcVars, Goto, HeapTypeOK, MutatorPcs,
       Managed
  <1>2. LogTypeOK'
    BY DEF RemoveMutator, writeVars, logVars, markVars, gcVars, Goto, LogTypeOK, HeapTypeOK
  <1>3. MarkTypeOK'
    BY DEF RemoveMutator, writeVars, logVars, markVars, gcVars, Goto, MarkTypeOK, HeapTypeOK,
       LogTypeOK, GCPcs, kReMarkRounds
  <1>4. NodeInv'
    BY DEF RemoveMutator, writeVars, logVars, markVars, gcVars, Goto, NodeInv, LogTypeOK
  <1>5. PhaseInv'
    BY DEF RemoveMutator, writeVars, logVars, markVars, gcVars, Goto, PhaseInv, Logging,
       MutatorInv, Stopped
  <1>6. MutatorInv'
    BY DEF RemoveMutator, writeVars, logVars, markVars, gcVars, Goto, HeapTypeOK, LogTypeOK,
       MarkTypeOK, MutatorInv, PhaseInv, Logging, Managed, Paused, Stopped
  <1>7. UsedInv'
    BY HolderIs DEF RemoveMutator, writeVars, logVars, markVars, gcVars, Goto, HeapTypeOK,
       UsedInv, Used, PhaseInv
  <1>8. WriteInv'
    BY DEF RemoveMutator, writeVars, logVars, markVars, gcVars, Goto, HeapTypeOK, LogTypeOK,
       WriteInv, Writing
  <1>9. SecuredInv'
    BY SecuredIs, SecuredNext DEF RemoveMutator, writeVars, logVars, markVars, gcVars, Goto,
       SecuredInv, PhaseInv, HeapTypeOK, LogTypeOK
  <1>10. MarkInv'
    <2> SUFFICES ASSUME running' PROVE \E h \in [Slots -> Objects \cup {Null}] : SnapshotInv(h)'
      BY DEF MarkInv
    <2>1. running
      BY DEF RemoveMutator, writeVars, logVars, markVars, gcVars, Goto
    <2>2. PICK h \in [Slots -> Objects \cup {Null}] : SnapshotInv(h)
      BY <2>1 DEF MarkInv
    <2>3. Secured' = Secured
      <3>1. \A x : x \in Secured' <=> x \in Secured
        BY SecuredIs, SecuredNext DEF RemoveMutator, writeVars, logVars, markVars, gcVars, Goto,
           HeapTypeOK, LogTypeOK
      <3> QED BY <3>1
    <2>4. Kept(h)' = Kept(h)
      BY <2>3 DEF Kept, RemoveMutator, writeVars, logVars, markVars, gcVars, Goto
    <2>5. HeapInv(h)'
      BY <2>2 DEF SnapshotInv, HeapInv, RemoveMutator, writeVars, logVars, markVars, gcVars, Goto
    <2>6. HeldInv(h)'
      BY <2>2, <2>4 DEF SnapshotInv, HeldInv, RemoveMutator, MutatorInv
    <2>7. UntouchedInv(h)'
      BY <2>2, <2>4 DEF SnapshotInv, UntouchedInv, RemoveMutator, writeVars, logVars, markVars,
         gcVars, Goto
    <2>8. UnreadInv(h)'
      BY <2>2, <2>3 DEF SnapshotInv, UnreadInv, Unread, RemoveMutator, writeVars, logVars,
         markVars, gcVars, Goto
    <2>9. BarrierInv(h)'
      BY <2>2, <2>3 DEF SnapshotInv, BarrierInv, Unread, Writing, RemoveMutator, writeVars,
         logVars, markVars, gcVars, Goto, HeapTypeOK, LogTypeOK
    <2> QED BY <2>5, <2>6, <2>7, <2>8, <2>9 DEF SnapshotInv
  <1> QED BY <1>1, <1>2, <1>3, <1>4, <1>5, <1>6, <1>7, <1>8, <1>9, <1>10

\* What was in the node is in the retired list.
LEMMA DeleteMutatorStep ==
    ASSUME IInv, ~ExitGap, NEW m \in Mutators, DeleteMutator(m)
    PROVE  IInv'
  <1> USE MarkAssumption DEF IInv, TypeOK
  <1>1. HeapTypeOK'
    BY DEF DeleteMutator, writeVars, logVars, markVars, gcVars, Goto, HeapTypeOK, MutatorPcs,
       Managed
  <1>2. LogTypeOK'
    <2>1. armed' \in [Mutators -> BOOLEAN]
      BY DEF DeleteMutator, LogTypeOK
    <2>2. node' = [node EXCEPT ![m] = {}] /\ retired' = retired \cup node[m]
      BY DEF DeleteMutator
    <2>3. \A x \in Mutators : Cardinality(node'[x]) <= NodeSize
      BY <2>2, FS_EmptySet DEF LogTypeOK
    <2> QED BY <2>1, <2>2, <2>3 DEF DeleteMutator, writeVars, logVars, markVars, gcVars, Goto,
       LogTypeOK
  <1>3. MarkTypeOK'
    BY DEF DeleteMutator, writeVars, logVars, markVars, gcVars, Goto, MarkTypeOK, HeapTypeOK,
       LogTypeOK, GCPcs, kReMarkRounds
  <1>4. NodeInv'
    BY FS_EmptySet DEF DeleteMutator, NodeInv, LogTypeOK
  <1>5. PhaseInv'
    BY DEF DeleteMutator, writeVars, logVars, markVars, gcVars, Goto, PhaseInv, Logging,
       MutatorInv, Stopped
  <1>6. MutatorInv'
    BY DEF DeleteMutator, writeVars, logVars, markVars, gcVars, Goto, HeapTypeOK, LogTypeOK,
       MarkTypeOK, MutatorInv, PhaseInv, Logging, Managed, Paused, Stopped
  <1>7. UsedInv'
    BY HolderIs DEF DeleteMutator, writeVars, logVars, markVars, gcVars, Goto, HeapTypeOK,
       UsedInv, Used, PhaseInv
  <1>8. WriteInv'
    BY DEF DeleteMutator, writeVars, logVars, markVars, gcVars, Goto, HeapTypeOK, LogTypeOK,
       WriteInv, Writing
  <1>9. SecuredInv'
    BY SecuredIs, SecuredNext DEF DeleteMutator, writeVars, logVars, markVars, gcVars, Goto,
       SecuredInv, PhaseInv, HeapTypeOK, LogTypeOK
  <1>10. MarkInv'
    <2> SUFFICES ASSUME running' PROVE \E h \in [Slots -> Objects \cup {Null}] : SnapshotInv(h)'
      BY DEF MarkInv
    <2>1. running
      BY DEF DeleteMutator, writeVars, logVars, markVars, gcVars, Goto
    <2>2. PICK h \in [Slots -> Objects \cup {Null}] : SnapshotInv(h)
      BY <2>1 DEF MarkInv
    <2>3. Secured' = Secured
      <3>1. \A x : x \in Secured' <=> x \in Secured
        BY SecuredIs, SecuredNext DEF DeleteMutator, writeVars, logVars, markVars, gcVars, Goto,
           HeapTypeOK, LogTypeOK
      <3> QED BY <3>1
    <2>4. Kept(h)' = Kept(h)
      BY <2>3 DEF Kept, DeleteMutator, writeVars, logVars, markVars, gcVars, Goto
    <2>5. HeapInv(h)'
      BY <2>2 DEF SnapshotInv, HeapInv, DeleteMutator, writeVars, logVars, markVars, gcVars, Goto
    <2>6. HeldInv(h)'
      BY <2>2, <2>4 DEF SnapshotInv, HeldInv, DeleteMutator, writeVars, logVars, markVars, gcVars,
         Goto, HeapTypeOK
    <2>7. UntouchedInv(h)'
      BY <2>2, <2>4 DEF SnapshotInv, UntouchedInv, DeleteMutator, writeVars, logVars, markVars,
         gcVars, Goto
    <2>8. UnreadInv(h)'
      BY <2>2, <2>3 DEF SnapshotInv, UnreadInv, Unread, DeleteMutator, writeVars, logVars,
         markVars, gcVars, Goto
    <2>9. BarrierInv(h)'
      BY <2>2, <2>3 DEF SnapshotInv, BarrierInv, Unread, Writing, DeleteMutator, writeVars,
         logVars, markVars, gcVars, Goto, HeapTypeOK, LogTypeOK
    <2> QED BY <2>5, <2>6, <2>7, <2>8, <2>9 DEF SnapshotInv
  <1> QED BY <1>1, <1>2, <1>3, <1>4, <1>5, <1>6, <1>7, <1>8, <1>9, <1>10

\* A new object is marked and its fields are empty, in h as well.
LEMMA NewObjectStep ==
    ASSUME IInv, ~ExitGap, NEW m \in Mutators, NEW o \in Objects, NewObject(m, o)
    PROVE  IInv'
  <1> USE MarkAssumption DEF IInv, TypeOK
  <1>1. HeapTypeOK'
    BY DEF NewObject, CountOp, PostNewObject, writeVars, logVars, markVars, gcVars, Goto,
       HeapTypeOK, MutatorPcs, Managed
  <1>2. LogTypeOK'
    BY DEF NewObject, CountOp, PostNewObject, writeVars, logVars, markVars, gcVars, Goto,
       LogTypeOK, HeapTypeOK
  <1>3. MarkTypeOK'
    BY DEF NewObject, CountOp, PostNewObject, writeVars, logVars, markVars, gcVars, Goto,
       MarkTypeOK, HeapTypeOK, LogTypeOK, GCPcs, kReMarkRounds
  <1>4. NodeInv'
    BY DEF NewObject, CountOp, PostNewObject, writeVars, logVars, markVars, gcVars, Goto, NodeInv,
       LogTypeOK
  <1>5. PhaseInv'
    BY DEF NewObject, CountOp, PostNewObject, writeVars, logVars, markVars, gcVars, Goto,
       PhaseInv, Logging, MutatorInv, Stopped
  <1>6. MutatorInv'
    BY DEF NewObject, CountOp, PostNewObject, writeVars, logVars, markVars, gcVars, Goto,
       HeapTypeOK, LogTypeOK, MarkTypeOK, MutatorInv, PhaseInv, Logging, Managed, Paused, Stopped
  <1>7. UsedInv'
    BY HolderIs DEF NewObject, CountOp, PostNewObject, writeVars, logVars, markVars, gcVars, Goto,
       HeapTypeOK, UsedInv, Used, PhaseInv
  <1>8. WriteInv'
    BY DEF NewObject, CountOp, PostNewObject, writeVars, logVars, markVars, gcVars, Goto,
       HeapTypeOK, LogTypeOK, WriteInv, Writing
  <1>9. SecuredInv'
    BY SecuredIs, SecuredNext DEF NewObject, CountOp, PostNewObject, writeVars, logVars, markVars,
       gcVars, Goto, SecuredInv, PhaseInv, HeapTypeOK, LogTypeOK
  <1>10. MarkInv'
    <2> SUFFICES ASSUME running' PROVE \E h \in [Slots -> Objects \cup {Null}] : SnapshotInv(h)'
      BY DEF MarkInv
    <2>1. running
      BY DEF NewObject, CountOp, PostNewObject, writeVars, logVars, markVars, gcVars, Goto
    <2>2. PICK h \in [Slots -> Objects \cup {Null}] : SnapshotInv(h)
      BY <2>1 DEF MarkInv
    <2>3. /\ Secured \subseteq Objects /\ Secured' \subseteq Objects /\ Secured \subseteq Secured'
          /\ marked \subseteq Secured /\ marked' \subseteq Secured'
      <3>1. /\ Secured \subseteq Objects /\ Secured' \subseteq Objects
        BY <2>1, <1>1, <1>9 DEF SecuredInv, HeapTypeOK
      <3>2. marked \subseteq Secured /\ marked' \subseteq Secured'
        BY SecuredIs, SecuredNext
      <3>3. ASSUME NEW x, x \in Secured
            PROVE  x \in Secured'
        BY <3>3, SecuredIs, SecuredNext DEF NewObject, CountOp, PostNewObject, writeVars, logVars,
           markVars, gcVars, Goto, HeapTypeOK, LogTypeOK
      <3> QED BY <3>1, <3>2, <3>3
    <2>4. \A C \in SUBSET Objects :
             Covers(h, marked', Secured', pending', C) => Covers(h, marked, Secured, pending, C)
      <3> SUFFICES ASSUME NEW C \in SUBSET Objects, Covers(h, marked', Secured', pending', C)
                   PROVE  Covers(h, marked, Secured, pending, C)
        OBVIOUS
      <3>1. marked' = marked \cup {o} /\ pending' = pending /\ o \in Objects \ allocated
        BY <2>1 DEF NewObject, PostNewObject
      <3>2. ASSUME NEW s1 \in Slots, s1 \in pending \/ Holder(s1) \in C \ marked
            PROVE  h[s1] \in C \cup {Null}
        <4>1. CASE Holder(s1) = o
          BY <4>1, <3>1, <2>2 DEF SnapshotInv, HeapInv
        <4>2. CASE Holder(s1) # o
          BY <4>2, <3>1, <3>2 DEF Covers
        <4> QED BY <4>1, <4>2
      <3>3. Secured \subseteq C
        BY <2>3 DEF Covers
      <3> QED BY <3>2, <3>3 DEF Covers
    <2>5. /\ Kept(h) \subseteq Kept(h)' /\ Kept(h)' \subseteq Objects
          /\ Covers(h, marked', Secured', pending', Kept(h)') /\ Secured \subseteq Kept(h)
      <3>1. Kept(h) \subseteq Kept(h)' /\ Kept(h)' \subseteq Objects
        BY <2>4, FoundGrows DEF Kept, Found
      <3>2. Covers(h, marked', Secured', pending', Kept(h)')
        BY <2>3, FoundCovers DEF Kept
      <3>3. Covers(h, marked, Secured, pending, Kept(h))
        BY <2>3, FoundCovers DEF Kept
      <3> QED BY <3>1, <3>2, <3>3 DEF Covers
    <2>6. HeapInv(h)'
      BY <2>2 DEF SnapshotInv, HeapInv, NewObject, CountOp, PostNewObject, writeVars, logVars,
         markVars, gcVars, Goto
    <2>7. \A s1 \in Slots :
           Holder(s1) \in Kept(h)' \cup {Null}
              => heap'[s1] \in Kept(h)' \cup {Null}
      <3> SUFFICES ASSUME NEW s1 \in Slots, Holder(s1) \in Kept(h)' \cup {Null}
                   PROVE  heap'[s1] \in Kept(h)' \cup {Null}
        OBVIOUS
      <3>1. marked' = marked \cup {o} /\ heap'[s1] = IF Holder(s1) = o THEN Null ELSE heap[s1]
        BY <2>1, HolderOne DEF NewObject, PostNewObject
      <3>2. CASE Holder(s1) = o
        BY <3>1, <3>2
      <3>3. CASE Holder(s1) # o /\ Holder(s1) \in Kept(h) \cup {Null}
        BY <3>1, <3>3, <2>2, <2>5 DEF SnapshotInv, HeldInv
      <3>4. CASE Holder(s1) # o /\ Holder(s1) \notin Kept(h) \cup {Null}
        <4>1. Holder(s1) \in Objects \ Kept(h) /\ Holder(s1) \in Kept(h)' \ marked'
          BY <3>1, <3>4, <2>3, <2>5, HolderIs
        <4>2. heap[s1] = h[s1]
          BY <4>1, <2>2 DEF SnapshotInv, UntouchedInv
        <4>3. h[s1] \in Kept(h)' \cup {Null}
          BY <4>1, <2>5 DEF Covers
        <4> QED BY <4>2, <4>3, <3>1, <3>4
      <3> QED BY <3>2, <3>3, <3>4
    <2>8. HeldInv(h)'
      <3>1. local' = [local EXCEPT ![m] = local[m] \cup {o}] /\ toScan' = toScan /\ o \in Secured'
        BY <2>1, SecuredNext DEF NewObject, PostNewObject
      <3>2. Secured' \subseteq Kept(h)'
        BY <2>5 DEF Covers
      <3>3. \A x \in Mutators \ toScan : local'[x] \subseteq Kept(h)'
        BY <3>1, <3>2, <2>2, <2>5 DEF SnapshotInv, HeldInv, HeapTypeOK
      <3> QED BY <3>1, <3>3, <2>7 DEF HeldInv
    <2>9. UntouchedInv(h)'
      <3> SUFFICES ASSUME NEW s1 \in Slots, Holder(s1) \in Objects \ Kept(h)'
                   PROVE  heap'[s1] = h[s1]
        BY DEF UntouchedInv
      <3>1. o \in Kept(h)'
        BY <2>1, <2>5, SecuredNext DEF Covers, NewObject, PostNewObject
      <3>2. heap'[s1] = heap[s1]
        BY <3>1, HolderOne DEF NewObject
      <3> QED BY <3>2, <2>2, <2>5 DEF SnapshotInv, UntouchedInv
    <2>10. UnreadInv(h)'
      <3> SUFFICES ASSUME NEW s1 \in Slots, Unread(s1)'
                   PROVE  heap'[s1] = h[s1] \/ h[s1] \in Secured' \cup {Null}
        BY DEF UnreadInv
      <3>1. Unread(s1) /\ heap'[s1] = IF Holder(s1) = o THEN Null ELSE heap[s1]
        BY <2>1, HolderOne DEF NewObject, PostNewObject, Unread
      <3>2. CASE Holder(s1) = o
        BY <3>2, <2>2 DEF SnapshotInv, HeapInv, NewObject
      <3>3. CASE Holder(s1) # o
        BY <3>1, <3>3, <2>2, <2>3 DEF SnapshotInv, UnreadInv
      <3> QED BY <3>2, <3>3
    <2>11. BarrierInv(h)'
      <3>1. \A s1 \in Slots : Unread(s1)' => Unread(s1)
        BY <2>1 DEF Unread, NewObject, PostNewObject
      <3> QED BY <3>1, <2>2, <2>3 DEF SnapshotInv, BarrierInv, NewObject, writeVars
    <2> QED BY <2>6, <2>8, <2>9, <2>10, <2>11 DEF SnapshotInv
  <1> QED BY <1>1, <1>2, <1>3, <1>4, <1>5, <1>6, <1>7, <1>8, <1>9, <1>10

\* To hold less hides nothing.
LEMMA DropReferenceStep ==
    ASSUME IInv, ~ExitGap, NEW m \in Mutators, NEW o \in Objects, DropReference(m, o)
    PROVE  IInv'
  <1> USE MarkAssumption DEF IInv, TypeOK
  <1>1. HeapTypeOK'
    BY DEF DropReference, CountOp, writeVars, logVars, markVars, gcVars, Goto, HeapTypeOK,
       MutatorPcs, Managed
  <1>2. LogTypeOK'
    BY DEF DropReference, CountOp, writeVars, logVars, markVars, gcVars, Goto, LogTypeOK,
       HeapTypeOK
  <1>3. MarkTypeOK'
    BY DEF DropReference, CountOp, writeVars, logVars, markVars, gcVars, Goto, MarkTypeOK,
       HeapTypeOK, LogTypeOK, GCPcs, kReMarkRounds
  <1>4. NodeInv'
    BY DEF DropReference, CountOp, writeVars, logVars, markVars, gcVars, Goto, NodeInv, LogTypeOK
  <1>5. PhaseInv'
    BY DEF DropReference, CountOp, writeVars, logVars, markVars, gcVars, Goto, PhaseInv, Logging,
       MutatorInv, Stopped
  <1>6. MutatorInv'
    BY DEF DropReference, CountOp, writeVars, logVars, markVars, gcVars, Goto, HeapTypeOK,
       LogTypeOK, MarkTypeOK, MutatorInv, PhaseInv, Logging, Managed, Paused, Stopped
  <1>7. UsedInv'
    BY HolderIs DEF DropReference, CountOp, writeVars, logVars, markVars, gcVars, Goto,
       HeapTypeOK, UsedInv, Used, PhaseInv
  <1>8. WriteInv'
    BY DEF DropReference, CountOp, writeVars, logVars, markVars, gcVars, Goto, HeapTypeOK,
       LogTypeOK, WriteInv, Writing
  <1>9. SecuredInv'
    BY SecuredIs, SecuredNext DEF DropReference, CountOp, writeVars, logVars, markVars, gcVars,
       Goto, SecuredInv, PhaseInv, HeapTypeOK, LogTypeOK
  <1>10. MarkInv'
    <2> SUFFICES ASSUME running' PROVE \E h \in [Slots -> Objects \cup {Null}] : SnapshotInv(h)'
      BY DEF MarkInv
    <2>1. running
      BY DEF DropReference, CountOp, writeVars, logVars, markVars, gcVars, Goto
    <2>2. PICK h \in [Slots -> Objects \cup {Null}] : SnapshotInv(h)
      BY <2>1 DEF MarkInv
    <2>3. Secured' = Secured
      <3>1. \A x : x \in Secured' <=> x \in Secured
        BY SecuredIs, SecuredNext DEF DropReference, CountOp, writeVars, logVars, markVars,
           gcVars, Goto, HeapTypeOK, LogTypeOK
      <3> QED BY <3>1
    <2>4. Kept(h)' = Kept(h)
      BY <2>3 DEF Kept, DropReference, CountOp, writeVars, logVars, markVars, gcVars, Goto
    <2>5. HeapInv(h)'
      BY <2>2 DEF SnapshotInv, HeapInv, DropReference, CountOp, writeVars, logVars, markVars,
         gcVars, Goto
    <2>6. HeldInv(h)'
      BY <2>2, <2>4 DEF SnapshotInv, HeldInv, DropReference, CountOp, writeVars, logVars,
         markVars, gcVars, Goto, HeapTypeOK
    <2>7. UntouchedInv(h)'
      BY <2>2, <2>4 DEF SnapshotInv, UntouchedInv, DropReference, CountOp, writeVars, logVars,
         markVars, gcVars, Goto
    <2>8. UnreadInv(h)'
      BY <2>2, <2>3 DEF SnapshotInv, UnreadInv, Unread, DropReference, CountOp, writeVars,
         logVars, markVars, gcVars, Goto
    <2>9. BarrierInv(h)'
      BY <2>2, <2>3 DEF SnapshotInv, BarrierInv, Unread, Writing, DropReference, CountOp,
         writeVars, logVars, markVars, gcVars, Goto, HeapTypeOK, LogTypeOK
    <2> QED BY <2>5, <2>6, <2>7, <2>8, <2>9 DEF SnapshotInv
  <1> QED BY <1>1, <1>2, <1>3, <1>4, <1>5, <1>6, <1>7, <1>8, <1>9, <1>10

\* What a scanned mutator reads from what it holds is kept.
LEMMA LoadFieldStep ==
    ASSUME IInv, ~ExitGap, NEW m \in Mutators, NEW s \in Slots, LoadField(m, s)
    PROVE  IInv'
  <1> USE MarkAssumption DEF IInv, TypeOK
  <1>1. HeapTypeOK'
    BY DEF LoadField, CountOp, Accessible, NonNull, writeVars, logVars, markVars, gcVars, Goto,
       HeapTypeOK, MutatorPcs, Managed
  <1>2. LogTypeOK'
    BY DEF LoadField, CountOp, Accessible, NonNull, writeVars, logVars, markVars, gcVars, Goto,
       LogTypeOK, HeapTypeOK
  <1>3. MarkTypeOK'
    BY DEF LoadField, CountOp, Accessible, NonNull, writeVars, logVars, markVars, gcVars, Goto,
       MarkTypeOK, HeapTypeOK, LogTypeOK, GCPcs, kReMarkRounds
  <1>4. NodeInv'
    BY DEF LoadField, CountOp, Accessible, NonNull, writeVars, logVars, markVars, gcVars, Goto,
       NodeInv, LogTypeOK
  <1>5. PhaseInv'
    BY DEF LoadField, CountOp, Accessible, NonNull, writeVars, logVars, markVars, gcVars, Goto,
       PhaseInv, Logging, MutatorInv, Stopped
  <1>6. MutatorInv'
    BY DEF LoadField, CountOp, Accessible, NonNull, writeVars, logVars, markVars, gcVars, Goto,
       HeapTypeOK, LogTypeOK, MarkTypeOK, MutatorInv, PhaseInv, Logging, Managed, Paused, Stopped
  <1>7. UsedInv'
    BY HolderIs DEF LoadField, CountOp, Accessible, NonNull, writeVars, logVars, markVars, gcVars,
       Goto, HeapTypeOK, UsedInv, Used, PhaseInv
  <1>8. WriteInv'
    BY DEF LoadField, CountOp, Accessible, NonNull, writeVars, logVars, markVars, gcVars, Goto,
       HeapTypeOK, LogTypeOK, WriteInv, Writing
  <1>9. SecuredInv'
    BY SecuredIs, SecuredNext DEF LoadField, CountOp, Accessible, NonNull, writeVars, logVars,
       markVars, gcVars, Goto, SecuredInv, PhaseInv, HeapTypeOK, LogTypeOK
  <1>10. MarkInv'
    <2> SUFFICES ASSUME running' PROVE \E h \in [Slots -> Objects \cup {Null}] : SnapshotInv(h)'
      BY DEF MarkInv
    <2>1. running
      BY DEF LoadField, CountOp, Accessible, NonNull, writeVars, logVars, markVars, gcVars, Goto
    <2>2. PICK h \in [Slots -> Objects \cup {Null}] : SnapshotInv(h)
      BY <2>1 DEF MarkInv
    <2>3. Secured' = Secured
      <3>1. \A x : x \in Secured' <=> x \in Secured
        BY SecuredIs, SecuredNext DEF LoadField, CountOp, Accessible, NonNull, writeVars, logVars,
           markVars, gcVars, Goto, HeapTypeOK, LogTypeOK
      <3> QED BY <3>1
    <2>4. Kept(h)' = Kept(h)
      BY <2>3 DEF Kept, LoadField, CountOp, Accessible, NonNull, writeVars, logVars, markVars,
         gcVars, Goto
    <2>5. HeapInv(h)'
      BY <2>2 DEF SnapshotInv, HeapInv, LoadField, CountOp, Accessible, NonNull, writeVars,
         logVars, markVars, gcVars, Goto
    <2>6. HeldInv(h)'
      <3>1. m \notin toScan /\ Holder(s) \in local[m] \cup {Null}
        <4>1. s \in local[m] \X Fields \/ s \in Statics
          BY DEF LoadField, Accessible
        <4> QED BY <4>1, HolderIs DEF LoadField, MutatorInv, HeapTypeOK
      <3>2. heap[s] \in Kept(h) \cup {Null}
        BY <3>1, <2>2 DEF SnapshotInv, HeldInv
      <3> QED BY <3>2, <2>2, <2>4 DEF SnapshotInv, HeldInv, LoadField, NonNull, markVars,
         HeapTypeOK
    <2>7. UntouchedInv(h)'
      BY <2>2, <2>4 DEF SnapshotInv, UntouchedInv, LoadField, CountOp, Accessible, NonNull,
         writeVars, logVars, markVars, gcVars, Goto
    <2>8. UnreadInv(h)'
      BY <2>2, <2>3 DEF SnapshotInv, UnreadInv, Unread, LoadField, CountOp, Accessible, NonNull,
         writeVars, logVars, markVars, gcVars, Goto
    <2>9. BarrierInv(h)'
      BY <2>2, <2>3 DEF SnapshotInv, BarrierInv, Unread, Writing, LoadField, CountOp, Accessible,
         NonNull, writeVars, logVars, markVars, gcVars, Goto, HeapTypeOK, LogTypeOK
    <2> QED BY <2>5, <2>6, <2>7, <2>8, <2>9 DEF SnapshotInv
  <1> QED BY <1>1, <1>2, <1>3, <1>4, <1>5, <1>6, <1>7, <1>8, <1>9, <1>10

\* The barrier takes down the reference that is to be overwritten: the value
\* of h, unless another write has secured that one.
LEMMA SatbWriteBarrierStep ==
    ASSUME IInv, ~ExitGap, NEW m \in Mutators, NEW s \in Slots,
           NEW v \in Objects \cup {Null}, SatbWriteBarrier(m, s, v)
    PROVE  IInv'
  <1> USE MarkAssumption DEF IInv, TypeOK
  <1>1. HeapTypeOK'
    BY DEF SatbWriteBarrier, CountOp, Accessible, Logged, writeVars, logVars, markVars, gcVars,
       Goto, HeapTypeOK, MutatorPcs, Managed
  <1>2. LogTypeOK'
    BY DEF SatbWriteBarrier, CountOp, Accessible, Logged, writeVars, logVars, markVars, gcVars,
       Goto, LogTypeOK, HeapTypeOK
  <1>3. MarkTypeOK'
    BY DEF SatbWriteBarrier, CountOp, Accessible, Logged, writeVars, logVars, markVars, gcVars,
       Goto, MarkTypeOK, HeapTypeOK, LogTypeOK, GCPcs, kReMarkRounds
  <1>4. NodeInv'
    BY DEF SatbWriteBarrier, CountOp, Accessible, Logged, writeVars, logVars, markVars, gcVars,
       Goto, NodeInv, LogTypeOK
  <1>5. PhaseInv'
    BY DEF SatbWriteBarrier, CountOp, Accessible, Logged, writeVars, logVars, markVars, gcVars,
       Goto, PhaseInv, Logging, MutatorInv, Stopped
  <1>6. MutatorInv'
    BY DEF SatbWriteBarrier, CountOp, Accessible, Logged, writeVars, logVars, markVars, gcVars,
       Goto, HeapTypeOK, LogTypeOK, MarkTypeOK, MutatorInv, PhaseInv, Logging, Managed, Paused,
       Stopped
  <1>7. UsedInv'
    BY HolderIs DEF SatbWriteBarrier, CountOp, Accessible, Logged, writeVars, logVars, markVars,
       gcVars, Goto, HeapTypeOK, UsedInv, Used, PhaseInv
  <1>8. WriteInv'
    <2>a. s \in local[m] \X Fields \/ s \in Statics
      BY DEF SatbWriteBarrier, Accessible
    <2>b. Holder(s) \in local[m] \cup {Null}
      BY <2>a, HolderIs DEF HeapTypeOK
    <2>c. armed[m] => heap[s] \in allocated \cup {Null}
      <3>1. armed[m] => garbage = {}
        BY DEF PhaseInv, MutatorInv, Logging
      <3> QED BY <3>1, <2>b DEF UsedInv, Used
    <2>d. slot' = [slot EXCEPT ![m] = s] /\ val' = [val EXCEPT ![m] = v] /\ local' = local
          /\ v \in local[m] \cup {Null} /\ allocated' = allocated
      BY DEF SatbWriteBarrier
    <2>1. ASSUME NEW x \in Mutators, x # m
          PROVE  pc'[x] = pc[x] /\ slot'[x] = slot[x] /\ val'[x] = val[x] /\ old'[x] = old[x]
      BY <2>1 DEF SatbWriteBarrier, Goto, HeapTypeOK, LogTypeOK
    <2>2. slot'[m] = s /\ val'[m] = v
      BY <2>d DEF LogTypeOK
    <2>3. pc'[m] \in {"should", "push"} => old'[m] \in allocated
      BY <2>c DEF SatbWriteBarrier, Logged, Goto, HeapTypeOK, LogTypeOK
    <2> QED BY <2>b, <2>d, <2>1, <2>2, <2>3 DEF WriteInv
  <1>9. SecuredInv'
    BY SecuredIs, SecuredNext DEF SatbWriteBarrier, CountOp, Accessible, Logged, writeVars,
       logVars, markVars, gcVars, Goto, SecuredInv, PhaseInv, HeapTypeOK, LogTypeOK
  <1>10. MarkInv'
    <2> SUFFICES ASSUME running' PROVE \E h \in [Slots -> Objects \cup {Null}] : SnapshotInv(h)'
      BY DEF MarkInv
    <2>1. running
      BY DEF SatbWriteBarrier, CountOp, Accessible, Logged, writeVars, logVars, markVars, gcVars,
         Goto
    <2>2. PICK h \in [Slots -> Objects \cup {Null}] : SnapshotInv(h)
      BY <2>1 DEF MarkInv
    <2>3. Secured' = Secured
      <3>1. \A x : x \in Secured' <=> x \in Secured
        BY SecuredIs, SecuredNext DEF SatbWriteBarrier, CountOp, Accessible, Logged, writeVars,
           logVars, markVars, gcVars, Goto, HeapTypeOK, LogTypeOK
      <3> QED BY <3>1
    <2>4. Kept(h)' = Kept(h)
      BY <2>3 DEF Kept, SatbWriteBarrier, CountOp, Accessible, Logged, writeVars, logVars,
         markVars, gcVars, Goto
    <2>5. HeapInv(h)'
      BY <2>2 DEF SnapshotInv, HeapInv, SatbWriteBarrier, CountOp, Accessible, Logged, writeVars,
         logVars, markVars, gcVars, Goto
    <2>6. HeldInv(h)'
      BY <2>2, <2>4 DEF SnapshotInv, HeldInv, SatbWriteBarrier, CountOp, Accessible, Logged,
         writeVars, logVars, markVars, gcVars, Goto, HeapTypeOK
    <2>7. UntouchedInv(h)'
      BY <2>2, <2>4 DEF SnapshotInv, UntouchedInv, SatbWriteBarrier, CountOp, Accessible, Logged,
         writeVars, logVars, markVars, gcVars, Goto
    <2>8. UnreadInv(h)'
      BY <2>2, <2>3 DEF SnapshotInv, UnreadInv, Unread, SatbWriteBarrier, CountOp, Accessible,
         Logged, writeVars, logVars, markVars, gcVars, Goto
    <2>9. BarrierInv(h)'
      <3>1. ASSUME NEW x \in Mutators, x # m
            PROVE  pc'[x] = pc[x] /\ slot'[x] = slot[x] /\ old'[x] = old[x]
        BY <3>1 DEF SatbWriteBarrier, Goto, HeapTypeOK, LogTypeOK
      <3>2. slot'[m] = s /\ armed[m] /\ heap' = heap
        <4>1. Logging
          BY <2>1 DEF PhaseInv, MutatorInv, Paused, SatbWriteBarrier
        <4> QED BY <4>1 DEF SatbWriteBarrier, LogTypeOK, MutatorInv, Managed
      <3>3. (pc'[m] = "should" /\ old'[m] = heap[s]) \/ heap[s] = Null
        BY <3>2 DEF SatbWriteBarrier, Logged, Goto, HeapTypeOK, LogTypeOK
      <3>4. \A s1 \in Slots : Unread(s1)' <=> Unread(s1)
        BY DEF Unread, SatbWriteBarrier, markVars
      <3>5. Unread(s) => heap[s] = h[s] \/ h[s] \in Secured \cup {Null}
        BY <2>2 DEF SnapshotInv, UnreadInv
      <3> QED BY <3>1, <3>2, <3>3, <3>4, <3>5, <2>2, <2>3 DEF SnapshotInv, BarrierInv
    <2> QED BY <2>5, <2>6, <2>7, <2>8, <2>9 DEF SnapshotInv
  <1> QED BY <1>1, <1>2, <1>3, <1>4, <1>5, <1>6, <1>7, <1>8, <1>9, <1>10

\* An object that is marked or enqueued is secured; any other one will be.
LEMMA ShouldEnqueueStep ==
    ASSUME IInv, ~ExitGap, NEW m \in Mutators, ShouldEnqueue(m)
    PROVE  IInv'
  <1> USE MarkAssumption DEF IInv, TypeOK
  <1>1. HeapTypeOK'
    BY DEF ShouldEnqueue, writeVars, logVars, markVars, gcVars, Goto, HeapTypeOK, MutatorPcs,
       Managed
  <1>2. LogTypeOK'
    <2>1. old[m] \in Objects
      BY DEF ShouldEnqueue, WriteInv, HeapTypeOK
    <2>2. armed' = armed /\ node' = node /\ retired' = retired /\ slot' = slot /\ val' = val
      BY DEF ShouldEnqueue
    <2>3. old' \in [Mutators -> Objects \cup {Null}] /\ enqueued' \subseteq Objects
      BY <2>1 DEF ShouldEnqueue, LogTypeOK
    <2> QED BY <2>2, <2>3 DEF LogTypeOK
  <1>3. MarkTypeOK'
    BY DEF ShouldEnqueue, writeVars, logVars, markVars, gcVars, Goto, MarkTypeOK, HeapTypeOK,
       LogTypeOK, GCPcs, kReMarkRounds
  <1>4. NodeInv'
    BY DEF ShouldEnqueue, writeVars, logVars, markVars, gcVars, Goto, NodeInv, LogTypeOK
  <1>5. PhaseInv'
    BY DEF ShouldEnqueue, writeVars, logVars, markVars, gcVars, Goto, PhaseInv, Logging,
       MutatorInv, Stopped
  <1>6. MutatorInv'
    BY DEF ShouldEnqueue, writeVars, logVars, markVars, gcVars, Goto, HeapTypeOK, LogTypeOK,
       MarkTypeOK, MutatorInv, PhaseInv, Logging, Managed, Paused, Stopped
  <1>7. UsedInv'
    BY HolderIs DEF ShouldEnqueue, writeVars, logVars, markVars, gcVars, Goto, HeapTypeOK,
       UsedInv, Used, PhaseInv
  <1>8. WriteInv'
    BY DEF ShouldEnqueue, writeVars, logVars, markVars, gcVars, Goto, HeapTypeOK, LogTypeOK,
       WriteInv, Writing
  <1>9. SecuredInv'
    <2>1. \A x \in Secured : x \in Secured'
      <3> SUFFICES ASSUME NEW x \in Secured PROVE x \in Secured'
        OBVIOUS
      <3>1. \A y \in Mutators : y # m => pc'[y] = pc[y] /\ old'[y] = old[y]
        BY DEF ShouldEnqueue, Goto, HeapTypeOK, LogTypeOK
      <3>2. /\ marked' = marked /\ work' = work /\ retired' = retired /\ node' = node
            /\ pc[m] = "should"
        BY DEF ShouldEnqueue, markVars
      <3> QED BY <3>1, <3>2, SecuredIs, SecuredNext
    <2>2. \A x \in Secured' : x \in Secured \/ x = old[m]
      BY SecuredIs, SecuredNext DEF ShouldEnqueue, writeVars, logVars, markVars, gcVars, Goto,
         HeapTypeOK, LogTypeOK
    <2>3. enqueued' \subseteq enqueued \cup Secured'
      BY SecuredNext DEF ShouldEnqueue, writeVars, logVars, markVars, gcVars, Goto, HeapTypeOK,
         LogTypeOK
    <2>4. running' = running /\ allocated' = allocated /\ old[m] \in allocated
      BY DEF ShouldEnqueue, writeVars, logVars, markVars, gcVars, Goto, WriteInv
    <2> QED BY <2>1, <2>2, <2>3, <2>4 DEF SecuredInv
  <1>10. MarkInv'
    <2> SUFFICES ASSUME running' PROVE \E h \in [Slots -> Objects \cup {Null}] : SnapshotInv(h)'
      BY DEF MarkInv
    <2>1. running
      BY DEF ShouldEnqueue, writeVars, logVars, markVars, gcVars, Goto
    <2>2. PICK h \in [Slots -> Objects \cup {Null}] : SnapshotInv(h)
      BY <2>1 DEF MarkInv
    <2>3. /\ Secured \subseteq Objects /\ Secured' \subseteq Objects /\ Secured \subseteq Secured'
          /\ marked \subseteq Secured /\ marked' \subseteq Secured'
      <3>1. /\ Secured \subseteq Objects /\ Secured' \subseteq Objects
        BY <2>1, <1>1, <1>9 DEF SecuredInv, HeapTypeOK
      <3>2. marked \subseteq Secured /\ marked' \subseteq Secured'
        BY SecuredIs, SecuredNext
      <3>3. ASSUME NEW x, x \in Secured
            PROVE  x \in Secured'
        BY <3>3, SecuredIs, SecuredNext DEF ShouldEnqueue, writeVars, logVars, markVars, gcVars,
           Goto, HeapTypeOK, LogTypeOK
      <3> QED BY <3>1, <3>2, <3>3
    <2>4. \A C \in SUBSET Objects :
             Covers(h, marked', Secured', pending', C) => Covers(h, marked, Secured, pending, C)
      BY <2>3 DEF Covers, ShouldEnqueue, writeVars, logVars, markVars, gcVars, Goto
    <2>5. /\ Kept(h) \subseteq Kept(h)' /\ Kept(h)' \subseteq Objects
          /\ Covers(h, marked', Secured', pending', Kept(h)') /\ Secured \subseteq Kept(h)
      <3>1. Kept(h) \subseteq Kept(h)' /\ Kept(h)' \subseteq Objects
        BY <2>4, FoundGrows DEF Kept, Found
      <3>2. Covers(h, marked', Secured', pending', Kept(h)')
        BY <2>3, FoundCovers DEF Kept
      <3>3. Covers(h, marked, Secured, pending, Kept(h))
        BY <2>3, FoundCovers DEF Kept
      <3> QED BY <3>1, <3>2, <3>3 DEF Covers
    <2>6. HeapInv(h)'
      BY <2>2 DEF SnapshotInv, HeapInv, ShouldEnqueue, writeVars, logVars, markVars, gcVars, Goto
    <2>7. \A s1 \in Slots :
           Holder(s1) \in Kept(h)' \cup {Null}
              => heap'[s1] \in Kept(h)' \cup {Null}
      <3> SUFFICES ASSUME NEW s1 \in Slots, Holder(s1) \in Kept(h)' \cup {Null}
                   PROVE  heap'[s1] \in Kept(h)' \cup {Null}
        OBVIOUS
      <3>1. heap' = heap /\ marked' \subseteq Secured
        BY SecuredIs DEF ShouldEnqueue, writeVars, logVars, markVars, gcVars, Goto
      <3>2. CASE Holder(s1) \in Kept(h) \cup {Null}
        BY <3>1, <3>2, <2>2, <2>5 DEF SnapshotInv, HeldInv
      <3>3. CASE Holder(s1) \notin Kept(h) \cup {Null}
        <4>1. Holder(s1) \in Objects \ Kept(h) /\ Holder(s1) \in Kept(h)' \ marked'
          BY <3>1, <3>3, <2>3, <2>5, HolderIs
        <4>2. heap[s1] = h[s1]
          BY <4>1, <2>2 DEF SnapshotInv, UntouchedInv
        <4>3. h[s1] \in Kept(h)' \cup {Null}
          BY <4>1, <2>5 DEF Covers
        <4> QED BY <4>2, <4>3, <3>1
      <3> QED BY <3>2, <3>3
    <2>8. HeldInv(h)'
      BY <2>2, <2>5, <2>7 DEF SnapshotInv, HeldInv, ShouldEnqueue, writeVars, logVars, markVars,
         gcVars, Goto, HeapTypeOK
    <2>9. UntouchedInv(h)'
      BY <2>2, <2>5 DEF SnapshotInv, UntouchedInv, ShouldEnqueue, writeVars, logVars, markVars,
         gcVars, Goto
    <2>10. UnreadInv(h)'
      BY <2>2, <2>3 DEF SnapshotInv, UnreadInv, Unread, ShouldEnqueue, writeVars, logVars,
         markVars, gcVars, Goto
    <2>11. BarrierInv(h)'
      <3>1. ASSUME NEW x \in Mutators, x # m
            PROVE  pc'[x] = pc[x] /\ slot'[x] = slot[x] /\ old'[x] = old[x]
        BY <3>1 DEF ShouldEnqueue, Goto, HeapTypeOK, LogTypeOK
      <3>2. slot'[m] = slot[m] /\ pc[m] = "should" /\ old[m] \in Secured'
        <4>1. old[m] \in marked \cup enqueued => old[m] \in Secured
          BY <2>1, SecuredIs DEF SecuredInv
        <4>2. old[m] \notin marked \cup enqueued => pc'[m] = "push" /\ old'[m] = old[m]
          BY DEF ShouldEnqueue, Goto, HeapTypeOK
        <4> QED BY <4>1, <4>2, <2>3, SecuredNext DEF ShouldEnqueue
      <3>3. \A s1 \in Slots : Unread(s1)' <=> Unread(s1)
        BY DEF Unread, ShouldEnqueue, markVars
      <3> QED BY <3>1, <3>2, <3>3, <2>2, <2>3 DEF SnapshotInv, BarrierInv, Writing
    <2> QED BY <2>6, <2>8, <2>9, <2>10, <2>11 DEF SnapshotInv
  <1> QED BY <1>1, <1>2, <1>3, <1>4, <1>5, <1>6, <1>7, <1>8, <1>9, <1>10

\* The reference goes into a node that has room for it.
LEMMA PushIntoSatbBufferStep ==
    ASSUME IInv, ~ExitGap, NEW m \in Mutators, PushIntoSatbBuffer(m)
    PROVE  IInv'
  <1> USE MarkAssumption DEF IInv, TypeOK
  <1>a. ASSUME NEW x \in Mutators
       PROVE  IsFiniteSet(node'[x]) /\ Cardinality(node'[x]) <= NodeSize
    <2>0. /\ IsFiniteSet(node[x]) /\ Cardinality(node[x]) <= NodeSize
          /\ Cardinality(node[x]) \in Nat
      BY FS_CardinalityType DEF NodeInv, LogTypeOK
    <2>1. CASE x # m
      BY <2>0, <2>1 DEF PushIntoSatbBuffer, LogTypeOK
    <2>2. CASE x = m /\ IsFull(m)
      <3>1. node'[x] = {old[m]} BY <2>2 DEF PushIntoSatbBuffer, LogTypeOK
      <3>2. IsFiniteSet({old[m]}) /\ Cardinality({old[m]}) = 1
        BY FS_Singleton
      <3> QED BY <3>1, <3>2
    <2>3. CASE x = m /\ ~IsFull(m)
      <3>1. node'[x] = node[x] \cup {old[m]} BY <2>3 DEF PushIntoSatbBuffer, LogTypeOK
      <3>2. /\ IsFiniteSet(node[x] \cup {old[m]})
            /\ \/ Cardinality(node[x] \cup {old[m]}) = Cardinality(node[x])
               \/ Cardinality(node[x] \cup {old[m]}) = Cardinality(node[x]) + 1
        BY <2>0, FS_AddElement
      <3>3. Cardinality(node[x]) < NodeSize
        BY <2>0, <2>3 DEF IsFull
      <3> QED BY <2>0, <3>1, <3>2, <3>3
    <2> QED BY <2>1, <2>2, <2>3
  <1>1. HeapTypeOK'
    BY DEF PushIntoSatbBuffer, IsFull, writeVars, logVars, markVars, gcVars, Goto, HeapTypeOK,
       MutatorPcs, Managed
  <1>2. LogTypeOK'
    <2>1. old[m] \in Objects
      BY DEF PushIntoSatbBuffer, WriteInv, HeapTypeOK
    <2>2. armed' = armed /\ enqueued' = enqueued /\ slot' = slot /\ val' = val
      BY DEF PushIntoSatbBuffer
    <2>3. old' \in [Mutators -> Objects \cup {Null}] /\ retired' \subseteq Objects
      BY <2>1 DEF PushIntoSatbBuffer, LogTypeOK
    <2>4. node' \in [Mutators -> SUBSET Objects]
      BY <2>1 DEF PushIntoSatbBuffer, LogTypeOK
    <2> QED BY <1>a, <2>2, <2>3, <2>4 DEF LogTypeOK
  <1>3. MarkTypeOK'
    BY DEF PushIntoSatbBuffer, IsFull, writeVars, logVars, markVars, gcVars, Goto, MarkTypeOK,
       HeapTypeOK, LogTypeOK, GCPcs, kReMarkRounds
  <1>4. NodeInv'
    BY <1>a DEF NodeInv
  <1>5. PhaseInv'
    BY DEF PushIntoSatbBuffer, IsFull, writeVars, logVars, markVars, gcVars, Goto, PhaseInv,
       Logging, MutatorInv, Stopped
  <1>6. MutatorInv'
    BY DEF PushIntoSatbBuffer, IsFull, writeVars, logVars, markVars, gcVars, Goto, HeapTypeOK,
       LogTypeOK, MarkTypeOK, MutatorInv, PhaseInv, Logging, Managed, Paused, Stopped
  <1>7. UsedInv'
    BY HolderIs DEF PushIntoSatbBuffer, IsFull, writeVars, logVars, markVars, gcVars, Goto,
       HeapTypeOK, UsedInv, Used, PhaseInv
  <1>8. WriteInv'
    BY DEF PushIntoSatbBuffer, IsFull, writeVars, logVars, markVars, gcVars, Goto, HeapTypeOK,
       LogTypeOK, WriteInv, Writing
  <1>9. SecuredInv'
    BY SecuredIs, SecuredNext DEF PushIntoSatbBuffer, IsFull, writeVars, logVars, markVars,
       gcVars, Goto, SecuredInv, PhaseInv, HeapTypeOK, LogTypeOK
  <1>10. MarkInv'
    <2> SUFFICES ASSUME running' PROVE \E h \in [Slots -> Objects \cup {Null}] : SnapshotInv(h)'
      BY DEF MarkInv
    <2>1. running
      BY DEF PushIntoSatbBuffer, IsFull, writeVars, logVars, markVars, gcVars, Goto
    <2>2. PICK h \in [Slots -> Objects \cup {Null}] : SnapshotInv(h)
      BY <2>1 DEF MarkInv
    <2>3. Secured' = Secured
      <3>1. \A x : x \in Secured' <=> x \in Secured
        BY SecuredIs, SecuredNext DEF PushIntoSatbBuffer, IsFull, writeVars, logVars, markVars,
           gcVars, Goto, HeapTypeOK, LogTypeOK
      <3> QED BY <3>1
    <2>4. Kept(h)' = Kept(h)
      BY <2>3 DEF Kept, PushIntoSatbBuffer, IsFull, writeVars, logVars, markVars, gcVars, Goto
    <2>5. HeapInv(h)'
      BY <2>2 DEF SnapshotInv, HeapInv, PushIntoSatbBuffer, IsFull, writeVars, logVars, markVars,
         gcVars, Goto
    <2>6. HeldInv(h)'
      BY <2>2, <2>4 DEF SnapshotInv, HeldInv, PushIntoSatbBuffer, IsFull, writeVars, logVars,
         markVars, gcVars, Goto, HeapTypeOK
    <2>7. UntouchedInv(h)'
      BY <2>2, <2>4 DEF SnapshotInv, UntouchedInv, PushIntoSatbBuffer, IsFull, writeVars, logVars,
         markVars, gcVars, Goto
    <2>8. UnreadInv(h)'
      BY <2>2, <2>3 DEF SnapshotInv, UnreadInv, Unread, PushIntoSatbBuffer, IsFull, writeVars,
         logVars, markVars, gcVars, Goto
    <2>9. BarrierInv(h)'
      BY <2>2, <2>3 DEF SnapshotInv, BarrierInv, Unread, Writing, PushIntoSatbBuffer, IsFull,
         writeVars, logVars, markVars, gcVars, Goto, HeapTypeOK, LogTypeOK
    <2> QED BY <2>5, <2>6, <2>7, <2>8, <2>9 DEF SnapshotInv
  <1> QED BY <1>1, <1>2, <1>3, <1>4, <1>5, <1>6, <1>7, <1>8, <1>9, <1>10

\* The value of h of the field has been secured, and the value stored is kept.
LEMMA StoreFieldStep ==
    ASSUME IInv, ~ExitGap, NEW m \in Mutators, StoreField(m)
    PROVE  IInv'
  <1> USE MarkAssumption DEF IInv, TypeOK
  <1>1. HeapTypeOK'
    <2>a. /\ slot[m] \in Slots /\ Holder(slot[m]) \in local[m] \cup {Null}
          /\ val[m] \in local[m] \cup {Null}
      BY DEF StoreField, WriteInv, Writing
    <2>b. heap' = [heap EXCEPT ![slot[m]] = val[m]] /\ allocated' = allocated /\ local' = local
      BY DEF StoreField, EndWrite
    <2> QED BY <2>a, <2>b DEF StoreField, EndWrite, Goto, HeapTypeOK, MutatorPcs, Managed
  <1>2. LogTypeOK'
    BY DEF StoreField, EndWrite, writeVars, logVars, markVars, gcVars, Goto, LogTypeOK, HeapTypeOK
  <1>3. MarkTypeOK'
    BY DEF StoreField, EndWrite, writeVars, logVars, markVars, gcVars, Goto, MarkTypeOK,
       HeapTypeOK, LogTypeOK, GCPcs, kReMarkRounds
  <1>4. NodeInv'
    BY DEF StoreField, EndWrite, writeVars, logVars, markVars, gcVars, Goto, NodeInv, LogTypeOK
  <1>5. PhaseInv'
    BY DEF StoreField, EndWrite, writeVars, logVars, markVars, gcVars, Goto, PhaseInv, Logging,
       MutatorInv, Stopped
  <1>6. MutatorInv'
    BY DEF StoreField, EndWrite, writeVars, logVars, markVars, gcVars, Goto, HeapTypeOK,
       LogTypeOK, MarkTypeOK, MutatorInv, PhaseInv, Logging, Managed, Paused, Stopped
  <1>7. UsedInv'
    <2>a. /\ slot[m] \in Slots /\ Holder(slot[m]) \in local[m] \cup {Null}
          /\ val[m] \in local[m] \cup {Null}
      BY DEF StoreField, WriteInv, Writing
    <2>b. heap' = [heap EXCEPT ![slot[m]] = val[m]] /\ allocated' = allocated /\ local' = local
      BY DEF StoreField, EndWrite
    <2>1. \A s \in Slots : heap'[s] = IF s = slot[m] THEN val[m] ELSE heap[s]
      BY <2>a, <2>b DEF HeapTypeOK
    <2>2. garbage' = garbage
      BY DEF StoreField, EndWrite, gcVars
    <2> QED BY <2>a, <2>b, <2>1, <2>2, HolderIs DEF UsedInv, Used
  <1>8. WriteInv'
    BY DEF StoreField, EndWrite, writeVars, logVars, markVars, gcVars, Goto, HeapTypeOK,
       LogTypeOK, WriteInv, Writing
  <1>9. SecuredInv'
    BY SecuredIs, SecuredNext DEF StoreField, EndWrite, writeVars, logVars, markVars, gcVars,
       Goto, SecuredInv, PhaseInv, HeapTypeOK, LogTypeOK
  <1>10. MarkInv'
    <2> SUFFICES ASSUME running' PROVE \E h \in [Slots -> Objects \cup {Null}] : SnapshotInv(h)'
      BY DEF MarkInv
    <2>a. /\ slot[m] \in Slots /\ Holder(slot[m]) \in local[m] \cup {Null}
          /\ val[m] \in local[m] \cup {Null}
      BY DEF StoreField, WriteInv, Writing
    <2>b. heap' = [heap EXCEPT ![slot[m]] = val[m]] /\ allocated' = allocated /\ local' = local
      BY DEF StoreField, EndWrite
    <2>c. \A s \in Slots : heap'[s] = IF s = slot[m] THEN val[m] ELSE heap[s]
      BY <2>a, <2>b DEF HeapTypeOK
    <2>d. m \notin toScan
      BY DEF StoreField, MutatorInv
    <2>1. running
      BY DEF StoreField, EndWrite, writeVars, logVars, markVars, gcVars, Goto
    <2>2. PICK h \in [Slots -> Objects \cup {Null}] : SnapshotInv(h)
      BY <2>1 DEF MarkInv
    <2>3. Secured' = Secured
      <3>1. \A x : x \in Secured' <=> x \in Secured
        BY SecuredIs, SecuredNext DEF StoreField, EndWrite, writeVars, logVars, markVars, gcVars,
           Goto, HeapTypeOK, LogTypeOK
      <3> QED BY <3>1
    <2>4. Kept(h)' = Kept(h)
      BY <2>3 DEF Kept, StoreField, EndWrite, writeVars, logVars, markVars, gcVars, Goto
    <2>5. HeapInv(h)'
      BY <2>2 DEF SnapshotInv, HeapInv, StoreField, EndWrite, writeVars, logVars, markVars,
         gcVars, Goto
    <2>6. HeldInv(h)'
      <3>1. val[m] \in Kept(h) \cup {Null} /\ toScan' = toScan
        BY <2>a, <2>d, <2>2 DEF SnapshotInv, HeldInv, StoreField, EndWrite, markVars
      <3> QED BY <3>1, <2>b, <2>c, <2>2, <2>4 DEF SnapshotInv, HeldInv
    <2>7. UntouchedInv(h)'
      <3>1. Holder(slot[m]) \in Kept(h) \cup {Null}
        BY <2>a, <2>d, <2>2 DEF SnapshotInv, HeldInv
      <3> QED BY <3>1, <2>c, <2>2, <2>4 DEF SnapshotInv, UntouchedInv
    <2>8. UnreadInv(h)'
      <3>1. Unread(slot[m]) => h[slot[m]] \in Secured \cup {Null}
        BY <2>a, <2>2 DEF SnapshotInv, BarrierInv, Writing, StoreField
      <3>2. \A s \in Slots : Unread(s)' <=> Unread(s)
        BY DEF Unread, StoreField, EndWrite, markVars
      <3> QED BY <3>1, <3>2, <2>c, <2>2, <2>3 DEF SnapshotInv, UnreadInv
    <2>9. BarrierInv(h)'
      BY <2>2, <2>3 DEF SnapshotInv, BarrierInv, Unread, Writing, StoreField, EndWrite, writeVars,
         logVars, markVars, gcVars, Goto, HeapTypeOK, LogTypeOK
    <2> QED BY <2>5, <2>6, <2>7, <2>8, <2>9 DEF SnapshotInv
  <1> QED BY <1>1, <1>2, <1>3, <1>4, <1>5, <1>6, <1>7, <1>8, <1>9, <1>10

\* A write that does not take place changes nothing.
LEMMA CompareFailsStep ==
    ASSUME IInv, ~ExitGap, NEW m \in Mutators, CompareFails(m)
    PROVE  IInv'
  <1> USE MarkAssumption DEF IInv, TypeOK
  <1>1. HeapTypeOK'
    BY DEF CompareFails, EndWrite, writeVars, logVars, markVars, gcVars, Goto, HeapTypeOK,
       MutatorPcs, Managed
  <1>2. LogTypeOK'
    BY DEF CompareFails, EndWrite, writeVars, logVars, markVars, gcVars, Goto, LogTypeOK,
       HeapTypeOK
  <1>3. MarkTypeOK'
    BY DEF CompareFails, EndWrite, writeVars, logVars, markVars, gcVars, Goto, MarkTypeOK,
       HeapTypeOK, LogTypeOK, GCPcs, kReMarkRounds
  <1>4. NodeInv'
    BY DEF CompareFails, EndWrite, writeVars, logVars, markVars, gcVars, Goto, NodeInv, LogTypeOK
  <1>5. PhaseInv'
    BY DEF CompareFails, EndWrite, writeVars, logVars, markVars, gcVars, Goto, PhaseInv, Logging,
       MutatorInv, Stopped
  <1>6. MutatorInv'
    BY DEF CompareFails, EndWrite, writeVars, logVars, markVars, gcVars, Goto, HeapTypeOK,
       LogTypeOK, MarkTypeOK, MutatorInv, PhaseInv, Logging, Managed, Paused, Stopped
  <1>7. UsedInv'
    BY HolderIs DEF CompareFails, EndWrite, writeVars, logVars, markVars, gcVars, Goto,
       HeapTypeOK, UsedInv, Used, PhaseInv
  <1>8. WriteInv'
    BY DEF CompareFails, EndWrite, writeVars, logVars, markVars, gcVars, Goto, HeapTypeOK,
       LogTypeOK, WriteInv, Writing
  <1>9. SecuredInv'
    BY SecuredIs, SecuredNext DEF CompareFails, EndWrite, writeVars, logVars, markVars, gcVars,
       Goto, SecuredInv, PhaseInv, HeapTypeOK, LogTypeOK
  <1>10. MarkInv'
    <2> SUFFICES ASSUME running' PROVE \E h \in [Slots -> Objects \cup {Null}] : SnapshotInv(h)'
      BY DEF MarkInv
    <2>1. running
      BY DEF CompareFails, EndWrite, writeVars, logVars, markVars, gcVars, Goto
    <2>2. PICK h \in [Slots -> Objects \cup {Null}] : SnapshotInv(h)
      BY <2>1 DEF MarkInv
    <2>3. Secured' = Secured
      <3>1. \A x : x \in Secured' <=> x \in Secured
        BY SecuredIs, SecuredNext DEF CompareFails, EndWrite, writeVars, logVars, markVars,
           gcVars, Goto, HeapTypeOK, LogTypeOK
      <3> QED BY <3>1
    <2>4. Kept(h)' = Kept(h)
      BY <2>3 DEF Kept, CompareFails, EndWrite, writeVars, logVars, markVars, gcVars, Goto
    <2>5. HeapInv(h)'
      BY <2>2 DEF SnapshotInv, HeapInv, CompareFails, EndWrite, writeVars, logVars, markVars,
         gcVars, Goto
    <2>6. HeldInv(h)'
      BY <2>2, <2>4 DEF SnapshotInv, HeldInv, CompareFails, EndWrite, writeVars, logVars,
         markVars, gcVars, Goto, HeapTypeOK
    <2>7. UntouchedInv(h)'
      BY <2>2, <2>4 DEF SnapshotInv, UntouchedInv, CompareFails, EndWrite, writeVars, logVars,
         markVars, gcVars, Goto
    <2>8. UnreadInv(h)'
      BY <2>2, <2>3 DEF SnapshotInv, UnreadInv, Unread, CompareFails, EndWrite, writeVars,
         logVars, markVars, gcVars, Goto
    <2>9. BarrierInv(h)'
      BY <2>2, <2>3 DEF SnapshotInv, BarrierInv, Unread, Writing, CompareFails, EndWrite,
         writeVars, logVars, markVars, gcVars, Goto, HeapTypeOK, LogTypeOK
    <2> QED BY <2>5, <2>6, <2>7, <2>8, <2>9 DEF SnapshotInv
  <1> QED BY <1>1, <1>2, <1>3, <1>4, <1>5, <1>6, <1>7, <1>8, <1>9, <1>10

\* The log is empty before marking starts.
LEMMA ConcurrentMSPreSTW1Step ==
    ASSUME IInv, ~ExitGap, ConcurrentMSPreSTW1
    PROVE  IInv'
  <1> USE MarkAssumption DEF IInv, TypeOK
  <1>1. HeapTypeOK'
    BY DEF ConcurrentMSPreSTW1, writeVars, logVars, markVars, gcVars, Goto, HeapTypeOK,
       MutatorPcs, Managed
  <1>2. LogTypeOK'
    BY DEF ConcurrentMSPreSTW1, writeVars, logVars, markVars, gcVars, Goto, LogTypeOK, HeapTypeOK
  <1>3. MarkTypeOK'
    BY DEF ConcurrentMSPreSTW1, writeVars, logVars, markVars, gcVars, Goto, MarkTypeOK,
       HeapTypeOK, LogTypeOK, GCPcs, kReMarkRounds
  <1>4. NodeInv'
    BY DEF ConcurrentMSPreSTW1, writeVars, logVars, markVars, gcVars, Goto, NodeInv, LogTypeOK
  <1>5. PhaseInv'
    BY DEF ConcurrentMSPreSTW1, writeVars, logVars, markVars, gcVars, Goto, PhaseInv, Logging,
       MutatorInv, Stopped
  <1>6. MutatorInv'
    BY DEF ConcurrentMSPreSTW1, writeVars, logVars, markVars, gcVars, Goto, HeapTypeOK, LogTypeOK,
       MarkTypeOK, MutatorInv, PhaseInv, Logging, Managed, Paused, Stopped
  <1>7. UsedInv'
    BY HolderIs DEF ConcurrentMSPreSTW1, writeVars, logVars, markVars, gcVars, Goto, HeapTypeOK,
       UsedInv, Used, PhaseInv
  <1>8. WriteInv'
    BY DEF ConcurrentMSPreSTW1, writeVars, logVars, markVars, gcVars, Goto, HeapTypeOK, LogTypeOK,
       WriteInv, Writing
  <1>9. SecuredInv'
    <2>1. ~running'
      BY DEF ConcurrentMSPreSTW1, PhaseInv, Logging
    <2> QED BY <2>1 DEF SecuredInv
  <1>10. MarkInv'
    <2>1. ~running'
      BY DEF ConcurrentMSPreSTW1, PhaseInv, Logging
    <2> QED BY <2>1 DEF MarkInv
  <1> QED BY <1>1, <1>2, <1>3, <1>4, <1>5, <1>6, <1>7, <1>8, <1>9, <1>10

\* The present heap becomes h: marking will find in it what static fields
\* lead to, and no stack is scanned yet.
LEMMA ConcurrentMarkPrepareStep ==
    ASSUME IInv, ~ExitGap, ConcurrentMarkPrepare
    PROVE  IInv'
  <1> USE MarkAssumption DEF IInv, TypeOK
  <1>p. /\ gpc = "init" /\ ~running /\ \A m \in Mutators : pc[m] \in Paused
        /\ work = {} /\ retired = {} /\ marked = {} /\ enqueued = {} /\ garbage = {}
        /\ \A m \in Mutators : node[m] = {} /\ pc[m] # "push"
    BY DEF ConcurrentMarkPrepare, WorldCanStop, Paused, PhaseInv, MutatorInv, Logging
  <1>q. Secured' = {}
    BY <1>p, SecuredNext DEF ConcurrentMarkPrepare
  <1>1. HeapTypeOK'
    BY DEF ConcurrentMarkPrepare, WorldCanStop, MutatorList, writeVars, logVars, markVars, gcVars,
       Goto, HeapTypeOK, MutatorPcs, Managed
  <1>2. LogTypeOK'
    BY DEF ConcurrentMarkPrepare, WorldCanStop, MutatorList, writeVars, logVars, markVars, gcVars,
       Goto, LogTypeOK, HeapTypeOK
  <1>3. MarkTypeOK'
    <2>1. Statics \subseteq Slots BY DEF Slots
    <2> QED BY <2>1 DEF ConcurrentMarkPrepare, MutatorList, MarkTypeOK, GCPcs, kReMarkRounds
  <1>4. NodeInv'
    BY DEF ConcurrentMarkPrepare, WorldCanStop, MutatorList, writeVars, logVars, markVars, gcVars,
       Goto, NodeInv, LogTypeOK
  <1>5. PhaseInv'
    BY DEF ConcurrentMarkPrepare, WorldCanStop, MutatorList, writeVars, logVars, markVars, gcVars,
       Goto, PhaseInv, Logging, MutatorInv, Stopped
  <1>6. MutatorInv'
    BY DEF ConcurrentMarkPrepare, WorldCanStop, MutatorList, writeVars, logVars, markVars, gcVars,
       Goto, HeapTypeOK, LogTypeOK, MarkTypeOK, MutatorInv, PhaseInv, Logging, Managed, Paused,
       Stopped
  <1>7. UsedInv'
    BY HolderIs DEF ConcurrentMarkPrepare, WorldCanStop, MutatorList, writeVars, logVars,
       markVars, gcVars, Goto, HeapTypeOK, UsedInv, Used, PhaseInv
  <1>8. WriteInv'
    BY DEF ConcurrentMarkPrepare, WorldCanStop, MutatorList, writeVars, logVars, markVars, gcVars,
       Goto, HeapTypeOK, LogTypeOK, WriteInv, Writing
  <1>9. SecuredInv'
    BY <1>p, <1>q DEF SecuredInv, ConcurrentMarkPrepare
  <1>10. MarkInv'
    <2>0. PICK g \in [Slots -> Objects \cup {Null}] : g = heap
      BY DEF HeapTypeOK
    <2>1. /\ heap' = g /\ local' = local /\ pc' = pc /\ allocated' = allocated
          /\ marked' = {} /\ pending' = Statics /\ toScan' = MutatorList
      BY <2>0, <1>p DEF ConcurrentMarkPrepare
    <2>2. Covers(g, {}, {}, Statics, Kept(g)') /\ Kept(g)' \subseteq Objects
      <3>1. Kept(g)' = Found(g, {}, {}, Statics)
        BY <2>1, <1>q DEF Kept
      <3> QED BY <3>1, FoundCovers DEF Found
    <2>3. HeapInv(g)'
      <3>1. \A s \in Slots : g[s] \in allocated \cup {Null}
        BY <2>0, <1>p, HolderIs DEF UsedInv, Used
      <3>2. \A s \in Slots : Holder(s) \in Objects \ allocated => g[s] = Null
        BY <2>0 DEF UsedInv
      <3> QED BY <3>1, <3>2, <2>1 DEF HeapInv
    <2>4. HeldInv(g)'
      <3>1. \A m \in Mutators \ MutatorList : local[m] = {}
        BY <1>p DEF MutatorList, MutatorInv, Paused
      <3>2. \A s \in Slots :
             Holder(s) \in Kept(g)' \cup {Null}
                => g[s] \in Kept(g)' \cup {Null}
        BY <2>2, HolderIs DEF Covers
      <3> QED BY <3>1, <3>2, <2>1 DEF HeldInv
    <2>5. UntouchedInv(g)' /\ UnreadInv(g)'
      BY <2>1 DEF UntouchedInv, UnreadInv
    <2>6. BarrierInv(g)'
      BY <2>1, <1>p DEF BarrierInv, Writing, Paused
    <2>7. SnapshotInv(g)'
      BY <2>3, <2>4, <2>5, <2>6 DEF SnapshotInv
    <2> QED BY <2>7 DEF MarkInv
  <1> QED BY <1>1, <1>2, <1>3, <1>4, <1>5, <1>6, <1>7, <1>8, <1>9, <1>10

\* As MutatorScan, by the GC thread.
LEMMA ConcurrentStackScanStep ==
    ASSUME IInv, ~ExitGap, NEW m \in Mutators, ConcurrentStackScan(m)
    PROVE  IInv'
  <1> USE MarkAssumption DEF IInv, TypeOK
  <1>1. HeapTypeOK'
    BY DEF ConcurrentStackScan, ScanStack, writeVars, logVars, markVars, gcVars, Goto, HeapTypeOK,
       MutatorPcs, Managed
  <1>2. LogTypeOK'
    BY DEF ConcurrentStackScan, ScanStack, writeVars, logVars, markVars, gcVars, Goto, LogTypeOK,
       HeapTypeOK
  <1>3. MarkTypeOK'
    BY DEF ConcurrentStackScan, ScanStack, writeVars, logVars, markVars, gcVars, Goto, MarkTypeOK,
       HeapTypeOK, LogTypeOK, GCPcs, kReMarkRounds
  <1>4. NodeInv'
    BY DEF ConcurrentStackScan, ScanStack, writeVars, logVars, markVars, gcVars, Goto, NodeInv,
       LogTypeOK
  <1>5. PhaseInv'
    BY DEF ConcurrentStackScan, ScanStack, writeVars, logVars, markVars, gcVars, Goto, PhaseInv,
       Logging, MutatorInv, Stopped
  <1>6. MutatorInv'
    BY DEF ConcurrentStackScan, ScanStack, writeVars, logVars, markVars, gcVars, Goto, HeapTypeOK,
       LogTypeOK, MarkTypeOK, MutatorInv, PhaseInv, Logging, Managed, Paused, Stopped
  <1>7. UsedInv'
    BY HolderIs DEF ConcurrentStackScan, ScanStack, writeVars, logVars, markVars, gcVars, Goto,
       HeapTypeOK, UsedInv, Used, PhaseInv
  <1>8. WriteInv'
    BY DEF ConcurrentStackScan, ScanStack, writeVars, logVars, markVars, gcVars, Goto, HeapTypeOK,
       LogTypeOK, WriteInv, Writing
  <1>9. SecuredInv'
    <2>1. \A x : x \in Secured' <=> x \in Secured \/ x \in local[m]
      BY SecuredIs, SecuredNext DEF ConcurrentStackScan, ScanStack, writeVars, logVars, markVars,
         gcVars, Goto, HeapTypeOK
    <2>2. running' = running /\ enqueued' = enqueued /\ allocated' = allocated
      BY DEF ConcurrentStackScan, writeVars, logVars, markVars, gcVars, Goto
    <2> QED BY <2>1, <2>2 DEF SecuredInv, UsedInv, Used
  <1>10. MarkInv'
    <2> SUFFICES ASSUME running' PROVE \E h \in [Slots -> Objects \cup {Null}] : SnapshotInv(h)'
      BY DEF MarkInv
    <2>1. running
      BY DEF ConcurrentStackScan, ScanStack, writeVars, logVars, markVars, gcVars, Goto
    <2>2. PICK h \in [Slots -> Objects \cup {Null}] : SnapshotInv(h)
      BY <2>1 DEF MarkInv
    <2>3. /\ Secured \subseteq Objects /\ Secured' \subseteq Objects /\ Secured \subseteq Secured'
          /\ marked \subseteq Secured /\ marked' \subseteq Secured'
      <3>1. /\ Secured \subseteq Objects /\ Secured' \subseteq Objects
        BY <2>1, <1>1, <1>9 DEF SecuredInv, HeapTypeOK
      <3>2. marked \subseteq Secured /\ marked' \subseteq Secured'
        BY SecuredIs, SecuredNext
      <3>3. ASSUME NEW x, x \in Secured
            PROVE  x \in Secured'
        BY <3>3, SecuredIs, SecuredNext DEF ConcurrentStackScan, ScanStack, writeVars, logVars,
           markVars, gcVars, Goto, HeapTypeOK, LogTypeOK
      <3> QED BY <3>1, <3>2, <3>3
    <2>4. \A C \in SUBSET Objects :
             Covers(h, marked', Secured', pending', C) => Covers(h, marked, Secured, pending, C)
      BY <2>3 DEF Covers, ConcurrentStackScan, ScanStack, writeVars, logVars, markVars, gcVars,
         Goto
    <2>5. /\ Kept(h) \subseteq Kept(h)' /\ Kept(h)' \subseteq Objects
          /\ Covers(h, marked', Secured', pending', Kept(h)') /\ Secured \subseteq Kept(h)
      <3>1. Kept(h) \subseteq Kept(h)' /\ Kept(h)' \subseteq Objects
        BY <2>4, FoundGrows DEF Kept, Found
      <3>2. Covers(h, marked', Secured', pending', Kept(h)')
        BY <2>3, FoundCovers DEF Kept
      <3>3. Covers(h, marked, Secured, pending, Kept(h))
        BY <2>3, FoundCovers DEF Kept
      <3> QED BY <3>1, <3>2, <3>3 DEF Covers
    <2>6. HeapInv(h)'
      BY <2>2 DEF SnapshotInv, HeapInv, ConcurrentStackScan, ScanStack, writeVars, logVars,
         markVars, gcVars, Goto
    <2>7. \A s1 \in Slots :
           Holder(s1) \in Kept(h)' \cup {Null}
              => heap'[s1] \in Kept(h)' \cup {Null}
      <3> SUFFICES ASSUME NEW s1 \in Slots, Holder(s1) \in Kept(h)' \cup {Null}
                   PROVE  heap'[s1] \in Kept(h)' \cup {Null}
        OBVIOUS
      <3>1. heap' = heap /\ marked' \subseteq Secured
        BY SecuredIs DEF ConcurrentStackScan, ScanStack, writeVars, logVars, markVars, gcVars,
           Goto
      <3>2. CASE Holder(s1) \in Kept(h) \cup {Null}
        BY <3>1, <3>2, <2>2, <2>5 DEF SnapshotInv, HeldInv
      <3>3. CASE Holder(s1) \notin Kept(h) \cup {Null}
        <4>1. Holder(s1) \in Objects \ Kept(h) /\ Holder(s1) \in Kept(h)' \ marked'
          BY <3>1, <3>3, <2>3, <2>5, HolderIs
        <4>2. heap[s1] = h[s1]
          BY <4>1, <2>2 DEF SnapshotInv, UntouchedInv
        <4>3. h[s1] \in Kept(h)' \cup {Null}
          BY <4>1, <2>5 DEF Covers
        <4> QED BY <4>2, <4>3, <3>1
      <3> QED BY <3>2, <3>3
    <2>8. HeldInv(h)'
      <3>1. local' = local /\ toScan' = toScan \ {m} /\ local[m] \subseteq Secured'
        BY SecuredNext DEF ConcurrentStackScan, ScanStack, writeVars, logVars, markVars, gcVars,
           Goto
      <3>2. Secured' \subseteq Kept(h)'
        BY <2>5 DEF Covers
      <3> QED BY <3>1, <3>2, <2>2, <2>5, <2>7 DEF SnapshotInv, HeldInv
    <2>9. UntouchedInv(h)'
      BY <2>2, <2>5 DEF SnapshotInv, UntouchedInv, ConcurrentStackScan, ScanStack, writeVars,
         logVars, markVars, gcVars, Goto
    <2>10. UnreadInv(h)'
      BY <2>2, <2>3 DEF SnapshotInv, UnreadInv, Unread, ConcurrentStackScan, ScanStack, writeVars,
         logVars, markVars, gcVars, Goto
    <2>11. BarrierInv(h)'
      BY <2>2, <2>3 DEF SnapshotInv, BarrierInv, Unread, Writing, ConcurrentStackScan, ScanStack,
         writeVars, logVars, markVars, gcVars, Goto, HeapTypeOK, LogTypeOK
    <2> QED BY <2>6, <2>8, <2>9, <2>10, <2>11 DEF SnapshotInv
  <1> QED BY <1>1, <1>2, <1>3, <1>4, <1>5, <1>6, <1>7, <1>8, <1>9, <1>10

\* The fields of a marked object become pending: what covers stays the same.
LEMMA MarkObjectStep ==
    ASSUME IInv, ~ExitGap, NEW o \in Objects, MarkObject(o)
    PROVE  IInv'
  <1> USE MarkAssumption DEF IInv, TypeOK
  <1>1. HeapTypeOK'
    BY DEF MarkObject, Marking, writeVars, logVars, markVars, gcVars, Goto, HeapTypeOK,
       MutatorPcs, Managed
  <1>2. LogTypeOK'
    BY DEF MarkObject, Marking, writeVars, logVars, markVars, gcVars, Goto, LogTypeOK, HeapTypeOK
  <1>3. MarkTypeOK'
    <2>1. {o} \X Fields \subseteq Slots BY DEF Slots
    <2>2. marked' \subseteq Objects /\ pending' \subseteq Slots /\ work' \subseteq Objects
      BY <2>1 DEF MarkObject, MarkTypeOK
    <2> QED BY <2>2 DEF MarkObject, gcVars, MarkTypeOK
  <1>4. NodeInv'
    BY DEF MarkObject, Marking, writeVars, logVars, markVars, gcVars, Goto, NodeInv, LogTypeOK
  <1>5. PhaseInv'
    BY DEF MarkObject, Marking, writeVars, logVars, markVars, gcVars, Goto, PhaseInv, Logging,
       MutatorInv, Stopped
  <1>6. MutatorInv'
    BY DEF MarkObject, Marking, writeVars, logVars, markVars, gcVars, Goto, HeapTypeOK, LogTypeOK,
       MarkTypeOK, MutatorInv, PhaseInv, Logging, Managed, Paused, Stopped
  <1>7. UsedInv'
    BY HolderIs DEF MarkObject, Marking, writeVars, logVars, markVars, gcVars, Goto, HeapTypeOK,
       UsedInv, Used, PhaseInv
  <1>8. WriteInv'
    BY DEF MarkObject, Marking, writeVars, logVars, markVars, gcVars, Goto, HeapTypeOK, LogTypeOK,
       WriteInv, Writing
  <1>9. SecuredInv'
    BY SecuredIs, SecuredNext DEF MarkObject, Marking, writeVars, logVars, markVars, gcVars, Goto,
       SecuredInv, PhaseInv, HeapTypeOK, LogTypeOK
  <1>10. MarkInv'
    <2> SUFFICES ASSUME running' PROVE \E h \in [Slots -> Objects \cup {Null}] : SnapshotInv(h)'
      BY DEF MarkInv
    <2>1. running
      BY DEF MarkObject, Marking, writeVars, logVars, markVars, gcVars, Goto
    <2>2. PICK h \in [Slots -> Objects \cup {Null}] : SnapshotInv(h)
      BY <2>1 DEF MarkInv
    <2>3. /\ Secured \subseteq Objects /\ Secured' \subseteq Objects /\ Secured \subseteq Secured'
          /\ marked \subseteq Secured /\ marked' \subseteq Secured'
      <3>1. o \in allocated
        BY <2>1, SecuredIs DEF MarkObject, SecuredInv
      <3>2. \A x : x \in Secured' <=> x \in Secured
        BY <3>1, SecuredIs, SecuredNext DEF MarkObject, writeVars, logVars, markVars, gcVars,
           Goto, HeapTypeOK, LogTypeOK, MarkTypeOK
      <3>3. \A x : x \in Secured => x \in Objects
        BY <2>1 DEF SecuredInv, HeapTypeOK
      <3> QED BY <3>2, <3>3, SecuredIs, SecuredNext
    <2>4. \A C \in SUBSET Objects :
             Covers(h, marked', Secured', pending', C) => Covers(h, marked, Secured, pending, C)
      <3> SUFFICES ASSUME NEW C \in SUBSET Objects, Covers(h, marked', Secured', pending', C)
                   PROVE  Covers(h, marked, Secured, pending, C)
        OBVIOUS
      <3>1. \/ marked' = marked \cup {o} /\ pending' = pending \cup ({o} \X Fields)
            \/ marked' = marked /\ pending' = pending
        BY DEF MarkObject
      <3>2. ASSUME NEW s1 \in Slots, s1 \in pending \/ Holder(s1) \in C \ marked
            PROVE  s1 \in pending' \/ Holder(s1) \in C \ marked'
        BY <3>1, <3>2, HolderOne
      <3> QED BY <3>2, <2>3 DEF Covers
    <2>5. /\ Kept(h) \subseteq Kept(h)' /\ Kept(h)' \subseteq Objects
          /\ Covers(h, marked', Secured', pending', Kept(h)') /\ Secured \subseteq Kept(h)
      <3>1. Kept(h) \subseteq Kept(h)' /\ Kept(h)' \subseteq Objects
        BY <2>4, FoundGrows DEF Kept, Found
      <3>2. Covers(h, marked', Secured', pending', Kept(h)')
        BY <2>3, FoundCovers DEF Kept
      <3>3. Covers(h, marked, Secured, pending, Kept(h))
        BY <2>3, FoundCovers DEF Kept
      <3> QED BY <3>1, <3>2, <3>3 DEF Covers
    <2>6. HeapInv(h)'
      BY <2>2 DEF SnapshotInv, HeapInv, MarkObject, Marking, writeVars, logVars, markVars, gcVars,
         Goto
    <2>7. \A s1 \in Slots :
           Holder(s1) \in Kept(h)' \cup {Null}
              => heap'[s1] \in Kept(h)' \cup {Null}
      <3> SUFFICES ASSUME NEW s1 \in Slots, Holder(s1) \in Kept(h)' \cup {Null}
                   PROVE  heap'[s1] \in Kept(h)' \cup {Null}
        OBVIOUS
      <3>1. heap' = heap /\ marked' \subseteq Secured
        BY SecuredIs DEF MarkObject, Marking, writeVars, logVars, markVars, gcVars, Goto
      <3>2. CASE Holder(s1) \in Kept(h) \cup {Null}
        BY <3>1, <3>2, <2>2, <2>5 DEF SnapshotInv, HeldInv
      <3>3. CASE Holder(s1) \notin Kept(h) \cup {Null}
        <4>1. Holder(s1) \in Objects \ Kept(h) /\ Holder(s1) \in Kept(h)' \ marked'
          BY <3>1, <3>3, <2>3, <2>5, HolderIs
        <4>2. heap[s1] = h[s1]
          BY <4>1, <2>2 DEF SnapshotInv, UntouchedInv
        <4>3. h[s1] \in Kept(h)' \cup {Null}
          BY <4>1, <2>5 DEF Covers
        <4> QED BY <4>2, <4>3, <3>1
      <3> QED BY <3>2, <3>3
    <2>8. HeldInv(h)'
      BY <2>2, <2>5, <2>7 DEF SnapshotInv, HeldInv, MarkObject, Marking, writeVars, logVars,
         markVars, gcVars, Goto, HeapTypeOK
    <2>9. UntouchedInv(h)'
      BY <2>2, <2>5 DEF SnapshotInv, UntouchedInv, MarkObject, Marking, writeVars, logVars,
         markVars, gcVars, Goto
    <2>10. UnreadInv(h)'
      <3>1. \A s1 \in Slots : Unread(s1)' => Unread(s1)
        <4> TAKE s1 \in Slots
        <4>1. s1 \in {o} \X Fields <=> Holder(s1) = o
          BY HolderOne
        <4> QED BY <4>1 DEF Unread, MarkObject
      <3> QED BY <3>1, <2>2, <2>3 DEF SnapshotInv, UnreadInv, MarkObject
    <2>11. BarrierInv(h)'
      <3>1. \A s1 \in Slots : Unread(s1)' => Unread(s1)
        <4> TAKE s1 \in Slots
        <4>1. s1 \in {o} \X Fields <=> Holder(s1) = o
          BY HolderOne
        <4> QED BY <4>1 DEF Unread, MarkObject
      <3> QED BY <3>1, <2>2, <2>3 DEF SnapshotInv, BarrierInv, MarkObject, writeVars
    <2> QED BY <2>6, <2>8, <2>9, <2>10, <2>11 DEF SnapshotInv
  <1> QED BY <1>1, <1>2, <1>3, <1>4, <1>5, <1>6, <1>7, <1>8, <1>9, <1>10

\* A field that has been read had its value of h, or that value is secured.
LEMMA CopyChildRefStep ==
    ASSUME IInv, ~ExitGap, NEW s \in Slots, CopyChildRef(s)
    PROVE  IInv'
  <1> USE MarkAssumption DEF IInv, TypeOK
  <1>1. HeapTypeOK'
    BY DEF CopyChildRef, Marking, NonNull, writeVars, logVars, markVars, gcVars, Goto, HeapTypeOK,
       MutatorPcs, Managed
  <1>2. LogTypeOK'
    BY DEF CopyChildRef, Marking, NonNull, writeVars, logVars, markVars, gcVars, Goto, LogTypeOK,
       HeapTypeOK
  <1>3. MarkTypeOK'
    BY DEF CopyChildRef, Marking, NonNull, writeVars, logVars, markVars, gcVars, Goto, MarkTypeOK,
       HeapTypeOK, LogTypeOK, GCPcs, kReMarkRounds
  <1>4. NodeInv'
    BY DEF CopyChildRef, Marking, NonNull, writeVars, logVars, markVars, gcVars, Goto, NodeInv,
       LogTypeOK
  <1>5. PhaseInv'
    BY DEF CopyChildRef, Marking, NonNull, writeVars, logVars, markVars, gcVars, Goto, PhaseInv,
       Logging, MutatorInv, Stopped
  <1>6. MutatorInv'
    BY DEF CopyChildRef, Marking, NonNull, writeVars, logVars, markVars, gcVars, Goto, HeapTypeOK,
       LogTypeOK, MarkTypeOK, MutatorInv, PhaseInv, Logging, Managed, Paused, Stopped
  <1>7. UsedInv'
    BY HolderIs DEF CopyChildRef, Marking, NonNull, writeVars, logVars, markVars, gcVars, Goto,
       HeapTypeOK, UsedInv, Used, PhaseInv
  <1>8. WriteInv'
    BY DEF CopyChildRef, Marking, NonNull, writeVars, logVars, markVars, gcVars, Goto, HeapTypeOK,
       LogTypeOK, WriteInv, Writing
  <1>9. SecuredInv'
    <2>1. \A x : x \in Secured' <=> x \in Secured \/ x \in NonNull(heap[s])
      BY SecuredIs, SecuredNext DEF CopyChildRef, writeVars, logVars, markVars, gcVars, Goto,
         HeapTypeOK
    <2>2. running' = running /\ enqueued' = enqueued /\ allocated' = allocated
      BY DEF CopyChildRef, writeVars, logVars, markVars, gcVars, Goto
    <2>3. running => heap[s] \in allocated \cup {Null}
      <3>1. Holder(s) \in Objects \cup {Null} /\ (running => garbage = {})
        BY HolderIs DEF PhaseInv, Logging
      <3> QED BY <3>1 DEF UsedInv, Used, HeapTypeOK
    <2> QED BY <2>1, <2>2, <2>3 DEF SecuredInv, NonNull
  <1>10. MarkInv'
    <2> SUFFICES ASSUME running' PROVE \E h \in [Slots -> Objects \cup {Null}] : SnapshotInv(h)'
      BY DEF MarkInv
    <2>1. running
      BY DEF CopyChildRef, Marking, NonNull, writeVars, logVars, markVars, gcVars, Goto
    <2>2. PICK h \in [Slots -> Objects \cup {Null}] : SnapshotInv(h)
      BY <2>1 DEF MarkInv
    <2>3. /\ Secured \subseteq Objects /\ Secured' \subseteq Objects /\ Secured \subseteq Secured'
          /\ marked \subseteq Secured /\ marked' \subseteq Secured'
      <3>1. /\ Secured \subseteq Objects /\ Secured' \subseteq Objects
        BY <2>1, <1>1, <1>9 DEF SecuredInv, HeapTypeOK
      <3>2. marked \subseteq Secured /\ marked' \subseteq Secured'
        BY SecuredIs, SecuredNext
      <3>3. ASSUME NEW x, x \in Secured
            PROVE  x \in Secured'
        BY <3>3, SecuredIs, SecuredNext DEF CopyChildRef, Marking, NonNull, writeVars, logVars,
           markVars, gcVars, Goto, HeapTypeOK, LogTypeOK
      <3> QED BY <3>1, <3>2, <3>3
    <2>4. \A C \in SUBSET Objects :
             Covers(h, marked', Secured', pending', C) => Covers(h, marked, Secured, pending, C)
      <3> SUFFICES ASSUME NEW C \in SUBSET Objects, Covers(h, marked', Secured', pending', C)
                   PROVE  Covers(h, marked, Secured, pending, C)
        OBVIOUS
      <3>1. marked' = marked /\ pending' = pending \ {s} /\ s \in pending
        BY DEF CopyChildRef, writeVars, logVars, markVars, gcVars, Goto
      <3>2. Secured' \subseteq C
        BY DEF Covers
      <3>3. h[s] \in C \cup {Null}
        <4>1. heap[s] = h[s] \/ h[s] \in Secured \cup {Null}
          BY <3>1, <2>2 DEF SnapshotInv, UnreadInv, Unread
        <4>2. heap[s] \in Secured' \cup {Null}
          BY SecuredNext DEF CopyChildRef, NonNull
        <4> QED BY <4>1, <4>2, <3>2, <2>3
      <3>4. ASSUME NEW s1 \in Slots, s1 \in pending \/ Holder(s1) \in C \ marked
            PROVE  h[s1] \in C \cup {Null}
        <4>1. CASE s1 = s BY <4>1, <3>3
        <4>2. CASE s1 # s BY <4>2, <3>1, <3>4 DEF Covers
        <4> QED BY <4>1, <4>2
      <3> QED BY <3>2, <3>4, <2>3 DEF Covers
    <2>5. /\ Kept(h) \subseteq Kept(h)' /\ Kept(h)' \subseteq Objects
          /\ Covers(h, marked', Secured', pending', Kept(h)') /\ Secured \subseteq Kept(h)
      <3>1. Kept(h) \subseteq Kept(h)' /\ Kept(h)' \subseteq Objects
        BY <2>4, FoundGrows DEF Kept, Found
      <3>2. Covers(h, marked', Secured', pending', Kept(h)')
        BY <2>3, FoundCovers DEF Kept
      <3>3. Covers(h, marked, Secured, pending, Kept(h))
        BY <2>3, FoundCovers DEF Kept
      <3> QED BY <3>1, <3>2, <3>3 DEF Covers
    <2>6. HeapInv(h)'
      BY <2>2 DEF SnapshotInv, HeapInv, CopyChildRef, Marking, NonNull, writeVars, logVars,
         markVars, gcVars, Goto
    <2>7. \A s1 \in Slots :
           Holder(s1) \in Kept(h)' \cup {Null}
              => heap'[s1] \in Kept(h)' \cup {Null}
      <3> SUFFICES ASSUME NEW s1 \in Slots, Holder(s1) \in Kept(h)' \cup {Null}
                   PROVE  heap'[s1] \in Kept(h)' \cup {Null}
        OBVIOUS
      <3>1. heap' = heap /\ marked' \subseteq Secured
        BY SecuredIs DEF CopyChildRef, Marking, NonNull, writeVars, logVars, markVars, gcVars,
           Goto
      <3>2. CASE Holder(s1) \in Kept(h) \cup {Null}
        BY <3>1, <3>2, <2>2, <2>5 DEF SnapshotInv, HeldInv
      <3>3. CASE Holder(s1) \notin Kept(h) \cup {Null}
        <4>1. Holder(s1) \in Objects \ Kept(h) /\ Holder(s1) \in Kept(h)' \ marked'
          BY <3>1, <3>3, <2>3, <2>5, HolderIs
        <4>2. heap[s1] = h[s1]
          BY <4>1, <2>2 DEF SnapshotInv, UntouchedInv
        <4>3. h[s1] \in Kept(h)' \cup {Null}
          BY <4>1, <2>5 DEF Covers
        <4> QED BY <4>2, <4>3, <3>1
      <3> QED BY <3>2, <3>3
    <2>8. HeldInv(h)'
      BY <2>2, <2>5, <2>7 DEF SnapshotInv, HeldInv, CopyChildRef, Marking, NonNull, writeVars,
         logVars, markVars, gcVars, Goto, HeapTypeOK
    <2>9. UntouchedInv(h)'
      BY <2>2, <2>5 DEF SnapshotInv, UntouchedInv, CopyChildRef, Marking, NonNull, writeVars,
         logVars, markVars, gcVars, Goto
    <2>10. UnreadInv(h)'
      BY <2>2, <2>3 DEF SnapshotInv, UnreadInv, Unread, CopyChildRef, Marking, NonNull, writeVars,
         logVars, markVars, gcVars, Goto
    <2>11. BarrierInv(h)'
      BY <2>2, <2>3 DEF SnapshotInv, BarrierInv, Unread, Writing, CopyChildRef, Marking, NonNull,
         writeVars, logVars, markVars, gcVars, Goto, HeapTypeOK, LogTypeOK
    <2> QED BY <2>6, <2>8, <2>9, <2>10, <2>11 DEF SnapshotInv
  <1> QED BY <1>1, <1>2, <1>3, <1>4, <1>5, <1>6, <1>7, <1>8, <1>9, <1>10

\* The GC thread only changes its label.
LEMMA WaitFinishStep ==
    ASSUME IInv, ~ExitGap, WaitFinish
    PROVE  IInv'
  <1> USE MarkAssumption DEF IInv, TypeOK
  <1>1. HeapTypeOK'
    BY DEF WaitFinish, writeVars, logVars, markVars, gcVars, Goto, HeapTypeOK, MutatorPcs, Managed
  <1>2. LogTypeOK'
    BY DEF WaitFinish, writeVars, logVars, markVars, gcVars, Goto, LogTypeOK, HeapTypeOK
  <1>3. MarkTypeOK'
    BY DEF WaitFinish, writeVars, logVars, markVars, gcVars, Goto, MarkTypeOK, HeapTypeOK,
       LogTypeOK, GCPcs, kReMarkRounds
  <1>4. NodeInv'
    BY DEF WaitFinish, writeVars, logVars, markVars, gcVars, Goto, NodeInv, LogTypeOK
  <1>5. PhaseInv'
    BY DEF WaitFinish, writeVars, logVars, markVars, gcVars, Goto, PhaseInv, Logging, MutatorInv,
       Stopped
  <1>6. MutatorInv'
    BY DEF WaitFinish, writeVars, logVars, markVars, gcVars, Goto, HeapTypeOK, LogTypeOK,
       MarkTypeOK, MutatorInv, PhaseInv, Logging, Managed, Paused, Stopped
  <1>7. UsedInv'
    BY HolderIs DEF WaitFinish, writeVars, logVars, markVars, gcVars, Goto, HeapTypeOK, UsedInv,
       Used, PhaseInv
  <1>8. WriteInv'
    BY DEF WaitFinish, writeVars, logVars, markVars, gcVars, Goto, HeapTypeOK, LogTypeOK,
       WriteInv, Writing
  <1>9. SecuredInv'
    BY SecuredIs, SecuredNext DEF WaitFinish, writeVars, logVars, markVars, gcVars, Goto,
       SecuredInv, PhaseInv, HeapTypeOK, LogTypeOK
  <1>10. MarkInv'
    <2> SUFFICES ASSUME running' PROVE \E h \in [Slots -> Objects \cup {Null}] : SnapshotInv(h)'
      BY DEF MarkInv
    <2>1. running
      BY DEF WaitFinish, writeVars, logVars, markVars, gcVars, Goto
    <2>2. PICK h \in [Slots -> Objects \cup {Null}] : SnapshotInv(h)
      BY <2>1 DEF MarkInv
    <2>3. Secured' = Secured
      <3>1. \A x : x \in Secured' <=> x \in Secured
        BY SecuredIs, SecuredNext DEF WaitFinish, writeVars, logVars, markVars, gcVars, Goto,
           HeapTypeOK, LogTypeOK
      <3> QED BY <3>1
    <2>4. Kept(h)' = Kept(h)
      BY <2>3 DEF Kept, WaitFinish, writeVars, logVars, markVars, gcVars, Goto
    <2>5. HeapInv(h)'
      BY <2>2 DEF SnapshotInv, HeapInv, WaitFinish, writeVars, logVars, markVars, gcVars, Goto
    <2>6. HeldInv(h)'
      BY <2>2, <2>4 DEF SnapshotInv, HeldInv, WaitFinish, writeVars, logVars, markVars, gcVars,
         Goto, HeapTypeOK
    <2>7. UntouchedInv(h)'
      BY <2>2, <2>4 DEF SnapshotInv, UntouchedInv, WaitFinish, writeVars, logVars, markVars,
         gcVars, Goto
    <2>8. UnreadInv(h)'
      BY <2>2, <2>3 DEF SnapshotInv, UnreadInv, Unread, WaitFinish, writeVars, logVars, markVars,
         gcVars, Goto
    <2>9. BarrierInv(h)'
      BY <2>2, <2>3 DEF SnapshotInv, BarrierInv, Unread, Writing, WaitFinish, writeVars, logVars,
         markVars, gcVars, Goto, HeapTypeOK, LogTypeOK
    <2> QED BY <2>5, <2>6, <2>7, <2>8, <2>9 DEF SnapshotInv
  <1> QED BY <1>1, <1>2, <1>3, <1>4, <1>5, <1>6, <1>7, <1>8, <1>9, <1>10

\* All stacks are scanned from here on.
LEMMA WaitForScansStep ==
    ASSUME IInv, ~ExitGap, WaitForScans
    PROVE  IInv'
  <1> USE MarkAssumption DEF IInv, TypeOK
  <1>1. HeapTypeOK'
    BY DEF WaitForScans, writeVars, logVars, markVars, gcVars, Goto, HeapTypeOK, MutatorPcs,
       Managed
  <1>2. LogTypeOK'
    BY DEF WaitForScans, writeVars, logVars, markVars, gcVars, Goto, LogTypeOK, HeapTypeOK
  <1>3. MarkTypeOK'
    BY DEF WaitForScans, writeVars, logVars, markVars, gcVars, Goto, MarkTypeOK, HeapTypeOK,
       LogTypeOK, GCPcs, kReMarkRounds
  <1>4. NodeInv'
    BY DEF WaitForScans, writeVars, logVars, markVars, gcVars, Goto, NodeInv, LogTypeOK
  <1>5. PhaseInv'
    BY DEF WaitForScans, writeVars, logVars, markVars, gcVars, Goto, PhaseInv, Logging,
       MutatorInv, Stopped
  <1>6. MutatorInv'
    BY DEF WaitForScans, writeVars, logVars, markVars, gcVars, Goto, HeapTypeOK, LogTypeOK,
       MarkTypeOK, MutatorInv, PhaseInv, Logging, Managed, Paused, Stopped
  <1>7. UsedInv'
    BY HolderIs DEF WaitForScans, writeVars, logVars, markVars, gcVars, Goto, HeapTypeOK, UsedInv,
       Used, PhaseInv
  <1>8. WriteInv'
    BY DEF WaitForScans, writeVars, logVars, markVars, gcVars, Goto, HeapTypeOK, LogTypeOK,
       WriteInv, Writing
  <1>9. SecuredInv'
    BY SecuredIs, SecuredNext DEF WaitForScans, writeVars, logVars, markVars, gcVars, Goto,
       SecuredInv, PhaseInv, HeapTypeOK, LogTypeOK
  <1>10. MarkInv'
    <2> SUFFICES ASSUME running' PROVE \E h \in [Slots -> Objects \cup {Null}] : SnapshotInv(h)'
      BY DEF MarkInv
    <2>1. running
      BY DEF WaitForScans, writeVars, logVars, markVars, gcVars, Goto
    <2>2. PICK h \in [Slots -> Objects \cup {Null}] : SnapshotInv(h)
      BY <2>1 DEF MarkInv
    <2>3. Secured' = Secured
      <3>1. \A x : x \in Secured' <=> x \in Secured
        BY SecuredIs, SecuredNext DEF WaitForScans, writeVars, logVars, markVars, gcVars, Goto,
           HeapTypeOK, LogTypeOK
      <3> QED BY <3>1
    <2>4. Kept(h)' = Kept(h)
      BY <2>3 DEF Kept, WaitForScans, writeVars, logVars, markVars, gcVars, Goto
    <2>5. HeapInv(h)'
      BY <2>2 DEF SnapshotInv, HeapInv, WaitForScans, writeVars, logVars, markVars, gcVars, Goto
    <2>6. HeldInv(h)'
      BY <2>2, <2>4 DEF SnapshotInv, HeldInv, WaitForScans, writeVars, logVars, markVars, gcVars,
         Goto, HeapTypeOK
    <2>7. UntouchedInv(h)'
      BY <2>2, <2>4 DEF SnapshotInv, UntouchedInv, WaitForScans, writeVars, logVars, markVars,
         gcVars, Goto
    <2>8. UnreadInv(h)'
      BY <2>2, <2>3 DEF SnapshotInv, UnreadInv, Unread, WaitForScans, writeVars, logVars,
         markVars, gcVars, Goto
    <2>9. BarrierInv(h)'
      BY <2>2, <2>3 DEF SnapshotInv, BarrierInv, Unread, Writing, WaitForScans, writeVars,
         logVars, markVars, gcVars, Goto, HeapTypeOK, LogTypeOK
    <2> QED BY <2>5, <2>6, <2>7, <2>8, <2>9 DEF SnapshotInv
  <1> QED BY <1>1, <1>2, <1>3, <1>4, <1>5, <1>6, <1>7, <1>8, <1>9, <1>10

\* The retired objects go to the work stacks.
LEMMA ConcurrentReMarkStep ==
    ASSUME IInv, ~ExitGap, ConcurrentReMark
    PROVE  IInv'
  <1> USE MarkAssumption DEF IInv, TypeOK
  <1>1. HeapTypeOK'
    BY DEF ConcurrentReMark, writeVars, logVars, markVars, gcVars, Goto, HeapTypeOK, MutatorPcs,
       Managed
  <1>2. LogTypeOK'
    BY DEF ConcurrentReMark, writeVars, logVars, markVars, gcVars, Goto, LogTypeOK, HeapTypeOK
  <1>3. MarkTypeOK'
    BY DEF ConcurrentReMark, writeVars, logVars, markVars, gcVars, Goto, MarkTypeOK, HeapTypeOK,
       LogTypeOK, GCPcs, kReMarkRounds
  <1>4. NodeInv'
    BY DEF ConcurrentReMark, writeVars, logVars, markVars, gcVars, Goto, NodeInv, LogTypeOK
  <1>5. PhaseInv'
    BY DEF ConcurrentReMark, writeVars, logVars, markVars, gcVars, Goto, PhaseInv, Logging,
       MutatorInv, Stopped
  <1>6. MutatorInv'
    BY DEF ConcurrentReMark, writeVars, logVars, markVars, gcVars, Goto, HeapTypeOK, LogTypeOK,
       MarkTypeOK, MutatorInv, PhaseInv, Logging, Managed, Paused, Stopped
  <1>7. UsedInv'
    BY HolderIs DEF ConcurrentReMark, writeVars, logVars, markVars, gcVars, Goto, HeapTypeOK,
       UsedInv, Used, PhaseInv
  <1>8. WriteInv'
    BY DEF ConcurrentReMark, writeVars, logVars, markVars, gcVars, Goto, HeapTypeOK, LogTypeOK,
       WriteInv, Writing
  <1>9. SecuredInv'
    BY SecuredIs, SecuredNext DEF ConcurrentReMark, writeVars, logVars, markVars, gcVars, Goto,
       SecuredInv, PhaseInv, HeapTypeOK, LogTypeOK
  <1>10. MarkInv'
    <2> SUFFICES ASSUME running' PROVE \E h \in [Slots -> Objects \cup {Null}] : SnapshotInv(h)'
      BY DEF MarkInv
    <2>1. running
      BY DEF ConcurrentReMark, writeVars, logVars, markVars, gcVars, Goto
    <2>2. PICK h \in [Slots -> Objects \cup {Null}] : SnapshotInv(h)
      BY <2>1 DEF MarkInv
    <2>3. Secured' = Secured
      <3>1. \A x : x \in Secured' <=> x \in Secured
        BY SecuredIs, SecuredNext DEF ConcurrentReMark, writeVars, logVars, markVars, gcVars,
           Goto, HeapTypeOK, LogTypeOK
      <3> QED BY <3>1
    <2>4. Kept(h)' = Kept(h)
      BY <2>3 DEF Kept, ConcurrentReMark, writeVars, logVars, markVars, gcVars, Goto
    <2>5. HeapInv(h)'
      BY <2>2 DEF SnapshotInv, HeapInv, ConcurrentReMark, writeVars, logVars, markVars, gcVars,
         Goto
    <2>6. HeldInv(h)'
      BY <2>2, <2>4 DEF SnapshotInv, HeldInv, ConcurrentReMark, writeVars, logVars, markVars,
         gcVars, Goto, HeapTypeOK
    <2>7. UntouchedInv(h)'
      BY <2>2, <2>4 DEF SnapshotInv, UntouchedInv, ConcurrentReMark, writeVars, logVars, markVars,
         gcVars, Goto
    <2>8. UnreadInv(h)'
      BY <2>2, <2>3 DEF SnapshotInv, UnreadInv, Unread, ConcurrentReMark, writeVars, logVars,
         markVars, gcVars, Goto
    <2>9. BarrierInv(h)'
      BY <2>2, <2>3 DEF SnapshotInv, BarrierInv, Unread, Writing, ConcurrentReMark, writeVars,
         logVars, markVars, gcVars, Goto, HeapTypeOK, LogTypeOK
    <2> QED BY <2>5, <2>6, <2>7, <2>8, <2>9 DEF SnapshotInv
  <1> QED BY <1>1, <1>2, <1>3, <1>4, <1>5, <1>6, <1>7, <1>8, <1>9, <1>10

\* In the second pause all nodes go to the work stacks: no mutator that has
\* one is out of the list, which is what ExitGap would break.
LEMMA ConcurrentMarkCleanupStep ==
    ASSUME IInv, ~ExitGap, ConcurrentMarkCleanup
    PROVE  IInv'
  <1> USE MarkAssumption DEF IInv, TypeOK
  <1>p. /\ gpc = "stw2" /\ running /\ \A m \in Mutators : pc[m] \in Paused
        /\ \A m \in Mutators : m \notin MutatorList => node[m] = {} /\ ~armed[m]
    BY DEF ConcurrentMarkCleanup, WorldCanStop, Paused, PhaseInv, MutatorInv, Logging, MutatorList
  <1>q. \A m \in Mutators : node'[m] = {}
    BY <1>p DEF ConcurrentMarkCleanup, ResetNodes
  <1>1. HeapTypeOK'
    BY DEF ConcurrentMarkCleanup, WorldCanStop, MutatorList, ResetNodes, writeVars, logVars,
       markVars, gcVars, Goto, HeapTypeOK, MutatorPcs, Managed
  <1>2. LogTypeOK'
    <2>1. armed' \in [Mutators -> BOOLEAN]
      <3>1. armed' = [x \in Mutators |-> x \notin MutatorList /\ armed[x]]
        BY DEF ConcurrentMarkCleanup
      <3> QED BY <3>1
    <2>2. node' \in [Mutators -> SUBSET Objects] /\ retired' = {}
      BY <1>q DEF ConcurrentMarkCleanup, ResetNodes
    <2>3. \A m \in Mutators : Cardinality(node'[m]) <= NodeSize
      BY <1>q, FS_EmptySet
    <2> QED BY <2>1, <2>2, <2>3 DEF ConcurrentMarkCleanup, writeVars, LogTypeOK
  <1>3. MarkTypeOK'
    BY DEF ConcurrentMarkCleanup, WorldCanStop, MutatorList, ResetNodes, writeVars, logVars,
       markVars, gcVars, Goto, MarkTypeOK, HeapTypeOK, LogTypeOK, GCPcs, kReMarkRounds
  <1>4. NodeInv'
    BY <1>q, FS_EmptySet DEF NodeInv
  <1>5. PhaseInv'
    BY DEF ConcurrentMarkCleanup, WorldCanStop, MutatorList, ResetNodes, writeVars, logVars,
       markVars, gcVars, Goto, PhaseInv, Logging, MutatorInv, Stopped
  <1>6. MutatorInv'
    BY DEF ConcurrentMarkCleanup, WorldCanStop, MutatorList, ResetNodes, writeVars, logVars,
       markVars, gcVars, Goto, HeapTypeOK, LogTypeOK, MarkTypeOK, MutatorInv, PhaseInv, Logging,
       Managed, Paused, Stopped
  <1>7. UsedInv'
    BY HolderIs DEF ConcurrentMarkCleanup, WorldCanStop, MutatorList, ResetNodes, writeVars,
       logVars, markVars, gcVars, Goto, HeapTypeOK, UsedInv, Used, PhaseInv
  <1>8. WriteInv'
    BY DEF ConcurrentMarkCleanup, WorldCanStop, MutatorList, ResetNodes, writeVars, logVars,
       markVars, gcVars, Goto, HeapTypeOK, LogTypeOK, WriteInv, Writing
  <1>9. SecuredInv'
    BY SecuredIs, SecuredNext DEF ConcurrentMarkCleanup, WorldCanStop, MutatorList, ResetNodes,
       writeVars, logVars, markVars, gcVars, Goto, SecuredInv, PhaseInv, HeapTypeOK, LogTypeOK
  <1>10. MarkInv'
    <2> SUFFICES ASSUME running' PROVE \E h \in [Slots -> Objects \cup {Null}] : SnapshotInv(h)'
      BY DEF MarkInv
    <2>1. running
      BY DEF ConcurrentMarkCleanup, WorldCanStop, MutatorList, ResetNodes, writeVars, logVars,
         markVars, gcVars, Goto
    <2>2. PICK h \in [Slots -> Objects \cup {Null}] : SnapshotInv(h)
      BY <2>1 DEF MarkInv
    <2>3. Secured' = Secured
      <3>1. \A x : x \in Secured' <=> x \in Secured
        BY SecuredIs, SecuredNext DEF ConcurrentMarkCleanup, WorldCanStop, MutatorList,
           ResetNodes, writeVars, logVars, markVars, gcVars, Goto, HeapTypeOK, LogTypeOK
      <3> QED BY <3>1
    <2>4. Kept(h)' = Kept(h)
      BY <2>3 DEF Kept, ConcurrentMarkCleanup, WorldCanStop, MutatorList, ResetNodes, writeVars,
         logVars, markVars, gcVars, Goto
    <2>5. HeapInv(h)'
      BY <2>2 DEF SnapshotInv, HeapInv, ConcurrentMarkCleanup, WorldCanStop, MutatorList,
         ResetNodes, writeVars, logVars, markVars, gcVars, Goto
    <2>6. HeldInv(h)'
      BY <2>2, <2>4 DEF SnapshotInv, HeldInv, ConcurrentMarkCleanup, WorldCanStop, MutatorList,
         ResetNodes, writeVars, logVars, markVars, gcVars, Goto, HeapTypeOK
    <2>7. UntouchedInv(h)'
      BY <2>2, <2>4 DEF SnapshotInv, UntouchedInv, ConcurrentMarkCleanup, WorldCanStop,
         MutatorList, ResetNodes, writeVars, logVars, markVars, gcVars, Goto
    <2>8. UnreadInv(h)'
      BY <2>2, <2>3 DEF SnapshotInv, UnreadInv, Unread, ConcurrentMarkCleanup, WorldCanStop,
         MutatorList, ResetNodes, writeVars, logVars, markVars, gcVars, Goto
    <2>9. BarrierInv(h)'
      BY <2>2, <2>3 DEF SnapshotInv, BarrierInv, Unread, Writing, ConcurrentMarkCleanup,
         WorldCanStop, MutatorList, ResetNodes, writeVars, logVars, markVars, gcVars, Goto,
         HeapTypeOK, LogTypeOK
    <2> QED BY <2>5, <2>6, <2>7, <2>8, <2>9 DEF SnapshotInv
  <1> QED BY <1>1, <1>2, <1>3, <1>4, <1>5, <1>6, <1>7, <1>8, <1>9, <1>10

\* When nothing is left to do, the marked objects cover, and are all that is
\* kept: the unmarked ones are not in use.
LEMMA SweepPrepareStep ==
    ASSUME IInv, ~ExitGap, SweepPrepare
    PROVE  IInv'
  <1> USE MarkAssumption DEF IInv, TypeOK
  <1>1. HeapTypeOK'
    BY DEF SweepPrepare, writeVars, logVars, markVars, gcVars, Goto, HeapTypeOK, MutatorPcs,
       Managed
  <1>2. LogTypeOK'
    BY DEF SweepPrepare, writeVars, logVars, markVars, gcVars, Goto, LogTypeOK, HeapTypeOK
  <1>3. MarkTypeOK'
    BY DEF SweepPrepare, writeVars, logVars, markVars, gcVars, Goto, MarkTypeOK, HeapTypeOK,
       LogTypeOK, GCPcs, kReMarkRounds
  <1>4. NodeInv'
    BY DEF SweepPrepare, writeVars, logVars, markVars, gcVars, Goto, NodeInv, LogTypeOK
  <1>5. PhaseInv'
    BY DEF SweepPrepare, writeVars, logVars, markVars, gcVars, Goto, PhaseInv, Logging,
       MutatorInv, Stopped
  <1>6. MutatorInv'
    BY DEF SweepPrepare, writeVars, logVars, markVars, gcVars, Goto, HeapTypeOK, LogTypeOK,
       MarkTypeOK, MutatorInv, PhaseInv, Logging, Managed, Paused, Stopped
  <1>7. UsedInv'
    <2>1. /\ work = {} /\ pending = {} /\ retired = {} /\ toScan = {} /\ running
          /\ \A m \in Mutators : node[m] = {} /\ pc[m] # "push"
      BY DEF SweepPrepare, PhaseInv, MutatorInv, Logging, Paused
    <2>2. Secured = marked /\ marked \subseteq allocated
      <3>1. \A x : x \in Secured <=> x \in marked
        BY <2>1, SecuredIs
      <3> QED BY <3>1, <2>1 DEF SecuredInv
    <2>3. PICK h \in [Slots -> Objects \cup {Null}] : SnapshotInv(h)
      BY <2>1 DEF MarkInv
    <2>4. Kept(h) = marked
      <3>1. Covers(h, marked, marked, {}, marked)
        BY DEF Covers
      <3>2. Kept(h) = Found(h, marked, marked, {}) /\ marked \in SUBSET Objects
        BY <2>1, <2>2 DEF Kept, MarkTypeOK
      <3>3. Kept(h) \subseteq marked
        BY <3>1, <3>2, FoundLeast
      <3>4. marked \subseteq Kept(h)
        BY <3>2, FoundCovers DEF Covers
      <3> QED BY <3>3, <3>4
    <2>5. Used' = marked
      BY <2>2 DEF Used, SweepPrepare
    <2>6. heap' = heap /\ local' = local /\ allocated' = allocated
      BY DEF SweepPrepare
    <2>7. \A m \in Mutators : local[m] \subseteq marked
      BY <2>1, <2>3, <2>4 DEF SnapshotInv, HeldInv
    <2>8. \A s \in Slots : Holder(s) \in marked \cup {Null} => heap[s] \in marked \cup {Null}
      BY <2>3, <2>4 DEF SnapshotInv, HeldInv
    <2> QED BY <2>5, <2>6, <2>7, <2>8 DEF UsedInv
  <1>8. WriteInv'
    BY DEF SweepPrepare, writeVars, logVars, markVars, gcVars, Goto, HeapTypeOK, LogTypeOK,
       WriteInv, Writing
  <1>9. SecuredInv'
    <2>1. ~running'
      BY DEF SweepPrepare, PhaseInv, Logging
    <2> QED BY <2>1 DEF SecuredInv
  <1>10. MarkInv'
    <2>1. ~running'
      BY DEF SweepPrepare, PhaseInv, Logging
    <2> QED BY <2>1 DEF MarkInv
  <1> QED BY <1>1, <1>2, <1>3, <1>4, <1>5, <1>6, <1>7, <1>8, <1>9, <1>10

\* Nobody is armed, so that the log can be emptied.
LEMMA ConcurrentMSPostSTW2Step ==
    ASSUME IInv, ~ExitGap, ConcurrentMSPostSTW2
    PROVE  IInv'
  <1> USE MarkAssumption DEF IInv, TypeOK
  <1>1. HeapTypeOK'
    BY DEF ConcurrentMSPostSTW2, writeVars, logVars, markVars, gcVars, Goto, HeapTypeOK,
       MutatorPcs, Managed
  <1>2. LogTypeOK'
    BY DEF ConcurrentMSPostSTW2, writeVars, logVars, markVars, gcVars, Goto, LogTypeOK, HeapTypeOK
  <1>3. MarkTypeOK'
    BY DEF ConcurrentMSPostSTW2, writeVars, logVars, markVars, gcVars, Goto, MarkTypeOK,
       HeapTypeOK, LogTypeOK, GCPcs, kReMarkRounds
  <1>4. NodeInv'
    BY DEF ConcurrentMSPostSTW2, writeVars, logVars, markVars, gcVars, Goto, NodeInv, LogTypeOK
  <1>5. PhaseInv'
    BY DEF ConcurrentMSPostSTW2, writeVars, logVars, markVars, gcVars, Goto, PhaseInv, Logging,
       MutatorInv, Stopped
  <1>6. MutatorInv'
    BY DEF ConcurrentMSPostSTW2, writeVars, logVars, markVars, gcVars, Goto, HeapTypeOK,
       LogTypeOK, MarkTypeOK, MutatorInv, PhaseInv, Logging, Managed, Paused, Stopped
  <1>7. UsedInv'
    BY HolderIs DEF ConcurrentMSPostSTW2, writeVars, logVars, markVars, gcVars, Goto, HeapTypeOK,
       UsedInv, Used, PhaseInv
  <1>8. WriteInv'
    BY DEF ConcurrentMSPostSTW2, writeVars, logVars, markVars, gcVars, Goto, HeapTypeOK,
       LogTypeOK, WriteInv, Writing
  <1>9. SecuredInv'
    <2>1. ~running'
      BY DEF ConcurrentMSPostSTW2, PhaseInv, Logging
    <2> QED BY <2>1 DEF SecuredInv
  <1>10. MarkInv'
    <2>1. ~running'
      BY DEF ConcurrentMSPostSTW2, PhaseInv, Logging
    <2> QED BY <2>1 DEF MarkInv
  <1> QED BY <1>1, <1>2, <1>3, <1>4, <1>5, <1>6, <1>7, <1>8, <1>9, <1>10

\* No field of an object in use refers to what is freed.
LEMMA ConcurrentSweepStep ==
    ASSUME IInv, ~ExitGap, ConcurrentSweep
    PROVE  IInv'
  <1> USE MarkAssumption DEF IInv, TypeOK
  <1>1. HeapTypeOK'
    BY DEF ConcurrentSweep, writeVars, logVars, markVars, gcVars, Goto, HeapTypeOK, MutatorPcs,
       Managed
  <1>2. LogTypeOK'
    BY DEF ConcurrentSweep, writeVars, logVars, markVars, gcVars, Goto, LogTypeOK, HeapTypeOK
  <1>3. MarkTypeOK'
    BY DEF ConcurrentSweep, writeVars, logVars, markVars, gcVars, Goto, MarkTypeOK, HeapTypeOK,
       LogTypeOK, GCPcs, kReMarkRounds
  <1>4. NodeInv'
    BY DEF ConcurrentSweep, writeVars, logVars, markVars, gcVars, Goto, NodeInv, LogTypeOK
  <1>5. PhaseInv'
    BY DEF ConcurrentSweep, writeVars, logVars, markVars, gcVars, Goto, PhaseInv, Logging,
       MutatorInv, Stopped
  <1>6. MutatorInv'
    BY DEF ConcurrentSweep, writeVars, logVars, markVars, gcVars, Goto, HeapTypeOK, LogTypeOK,
       MarkTypeOK, MutatorInv, PhaseInv, Logging, Managed, Paused, Stopped
  <1>7. UsedInv'
    BY HolderIs DEF ConcurrentSweep, writeVars, logVars, markVars, gcVars, Goto, HeapTypeOK,
       UsedInv, Used, PhaseInv
  <1>8. WriteInv'
    <2>1. \A m \in Mutators : pc[m] \notin {"should", "push"}
      BY DEF ConcurrentSweep, MutatorInv, Logging
    <2> QED BY <2>1 DEF ConcurrentSweep, writeVars, WriteInv
  <1>9. SecuredInv'
    <2>1. ~running'
      BY DEF ConcurrentSweep, PhaseInv, Logging
    <2> QED BY <2>1 DEF SecuredInv
  <1>10. MarkInv'
    <2>1. ~running'
      BY DEF ConcurrentSweep, PhaseInv, Logging
    <2> QED BY <2>1 DEF MarkInv
  <1> QED BY <1>1, <1>2, <1>3, <1>4, <1>5, <1>6, <1>7, <1>8, <1>9, <1>10

\* The invariant holds in the initial states.
LEMMA InitStep == Init => IInv
  <1> SUFFICES ASSUME Init PROVE IInv
    OBVIOUS
  <1> USE MarkAssumption
  <1>1. HeapTypeOK
    BY DEF Init, HeapTypeOK, MutatorPcs, Managed
  <1>2. LogTypeOK
    BY FS_EmptySet DEF Init, LogTypeOK
  <1>3. MarkTypeOK
    <2>1. running \in BOOLEAN
      BY Zenon DEF Init
    <2> QED BY <2>1 DEF Init, MarkTypeOK, GCPcs, kReMarkRounds
  <1>4. NodeInv
    BY FS_EmptySet DEF Init, NodeInv
  <1>5. PhaseInv
    BY DEF Init, PhaseInv, Logging
  <1>6. MutatorInv
    BY DEF Init, MutatorInv, Logging, Managed, Paused
  <1>7. UsedInv
    <2>1. Used = allocated
      BY DEF Init, Used
    <2>2. \A s \in Slots : heap[s] \in allocated \cup {Null}
      BY DEF Init
    <2>3. ASSUME NEW s \in Slots, Holder(s) \in Objects \ allocated
          PROVE  heap[s] = Null
      <3>1. (Objects \ allocated) \in SUBSET Objects
        OBVIOUS
      <3>2. s \in (Objects \ allocated) \X Fields
        BY <2>3, <3>1, HolderIs
      <3> QED BY <3>2 DEF Init
    <2>4. \A m \in Mutators : local[m] \subseteq allocated
      BY DEF Init
    <2> QED BY <2>1, <2>2, <2>3, <2>4 DEF UsedInv
  <1>8. WriteInv
    BY DEF Init, WriteInv, Writing
  <1>9. SecuredInv /\ MarkInv
    BY DEF Init, SecuredInv, MarkInv
  <1> QED BY <1>1, <1>2, <1>3, <1>4, <1>5, <1>6, <1>7, <1>8, <1>9 DEF IInv, TypeOK

\* It is about the variables only.
LEMMA StutterStep == ASSUME IInv, UNCHANGED vars PROVE IInv'
  <1> USE DEF vars, writeVars, logVars, markVars, gcVars
  <1>1. TypeOK'
    BY DEF IInv, TypeOK, HeapTypeOK, LogTypeOK, MarkTypeOK
  <1>2. NodeInv' /\ PhaseInv' /\ MutatorInv'
    BY DEF IInv, NodeInv, PhaseInv, MutatorInv, Logging
  <1>3. UsedInv' /\ WriteInv'
    BY DEF IInv, UsedInv, Used, WriteInv
  <1>4. Secured' = Secured
    <2>1. \A x : x \in Secured' <=> x \in Secured
      BY SecuredIs, SecuredNext
    <2> QED BY <2>1
  <1>5. SecuredInv'
    BY <1>4 DEF IInv, SecuredInv
  <1>6. MarkInv'
    <2>1. ASSUME NEW h, SnapshotInv(h) PROVE SnapshotInv(h)'
      <3>1. Kept(h)' = Kept(h)
        BY <1>4 DEF Kept
      <3>2. HeapInv(h)'
        BY <2>1 DEF SnapshotInv, HeapInv
      <3>3. HeldInv(h)'
        BY <2>1, <3>1 DEF SnapshotInv, HeldInv
      <3>4. UntouchedInv(h)'
        BY <2>1, <3>1 DEF SnapshotInv, UntouchedInv
      <3>5. UnreadInv(h)'
        BY <2>1, <1>4 DEF SnapshotInv, UnreadInv, Unread
      <3>6. BarrierInv(h)'
        BY <2>1, <1>4 DEF SnapshotInv, BarrierInv, Unread
      <3> QED BY <3>2, <3>3, <3>4, <3>5, <3>6 DEF SnapshotInv
    <2> QED BY <2>1 DEF IInv, MarkInv
  <1> QED BY <1>1, <1>2, <1>3, <1>5, <1>6 DEF IInv

\* Every step keeps it.
LEMMA NextStep == ASSUME ~ExitGap, IInv, [Next]_vars PROVE IInv'
  <1>1. ASSUME GCSteps PROVE IInv'
    <2>1. CASE ConcurrentMSPreSTW1
      BY <2>1, ConcurrentMSPreSTW1Step
    <2>2. CASE ConcurrentMarkPrepare
      BY <2>2, ConcurrentMarkPrepareStep
    <2>3. ASSUME NEW m \in Mutators, ConcurrentStackScan(m) PROVE IInv'
      BY <2>3, ConcurrentStackScanStep
    <2>4. ASSUME NEW o \in Objects, MarkObject(o) PROVE IInv'
      BY <2>4, MarkObjectStep
    <2>5. ASSUME NEW s \in Slots, CopyChildRef(s) PROVE IInv'
      BY <2>5, CopyChildRefStep
    <2>6. CASE WaitFinish
      BY <2>6, WaitFinishStep
    <2>7. CASE WaitForScans
      BY <2>7, WaitForScansStep
    <2>8. CASE ConcurrentReMark
      BY <2>8, ConcurrentReMarkStep
    <2>9. CASE ConcurrentMarkCleanup
      BY <2>9, ConcurrentMarkCleanupStep
    <2>10. CASE SweepPrepare
      BY <2>10, SweepPrepareStep
    <2>11. CASE ConcurrentMSPostSTW2
      BY <2>11, ConcurrentMSPostSTW2Step
    <2>12. CASE ConcurrentSweep
      BY <2>12, ConcurrentSweepStep
    <2> QED BY <1>1, <2>1, <2>2, <2>3, <2>4, <2>5, <2>6, <2>7, <2>8, <2>9, <2>10, <2>11, <2>12 DEF
       GCSteps
  <1>2. ASSUME NEW m \in Mutators, MutatorSteps(m) PROVE IInv'
    <2>1. CASE Attach(m)
      BY <2>1, AttachStep
    <2>2. CASE EnterSaferegion(m)
      BY <2>2, EnterSaferegionStep
    <2>3. CASE LeaveSaferegion(m)
      BY <2>3, LeaveSaferegionStep
    <2>4. CASE MutatorScan(m)
      BY <2>4, MutatorScanStep
    <2>5. CASE ClearStackInfo(m)
      BY <2>5, ClearStackInfoStep
    <2>6. CASE RemoveMutator(m)
      BY <2>6, RemoveMutatorStep
    <2>7. CASE DeleteMutator(m)
      BY <2>7, DeleteMutatorStep
    <2>8. ASSUME NEW o \in Objects, NewObject(m, o) PROVE IInv'
      BY <2>8, NewObjectStep
    <2>9. ASSUME NEW o \in Objects, DropReference(m, o) PROVE IInv'
      BY <2>9, DropReferenceStep
    <2>10. ASSUME NEW s \in Slots, LoadField(m, s) PROVE IInv'
      BY <2>10, LoadFieldStep
    <2>11. ASSUME NEW s \in Slots,
           NEW v \in Objects \cup {Null}, SatbWriteBarrier(m, s, v) PROVE IInv'
      BY <2>11, SatbWriteBarrierStep
    <2>12. CASE ShouldEnqueue(m)
      BY <2>12, ShouldEnqueueStep
    <2>13. CASE PushIntoSatbBuffer(m)
      BY <2>13, PushIntoSatbBufferStep
    <2>14. CASE StoreField(m)
      BY <2>14, StoreFieldStep
    <2>15. CASE CompareFails(m)
      BY <2>15, CompareFailsStep
    <2> QED BY <1>2, <2>1, <2>2, <2>3, <2>4, <2>5, <2>6, <2>7, <2>8, <2>9, <2>10, <2>11, <2>12,
       <2>13, <2>14, <2>15 DEF MutatorSteps
  <1>3. CASE UNCHANGED vars
    BY <1>3, StutterStep
  <1> QED BY <1>1, <1>2, <1>3 DEF Next

\* The invariant holds in every state, unless a pause can fall between
\* FiniYieldpoint() and ~Mutator().
THEOREM ConcurrentMarkInvariant == ~ExitGap => (Spec => []IInv)
  <1> SUFFICES ASSUME ~ExitGap PROVE Spec => []IInv
    OBVIOUS
  <1>1. Init => IInv
    BY InitStep
  <1>2. IInv /\ [Next]_vars => IInv'
    BY NextStep
  <1> QED BY <1>1, <1>2, PTL DEF Spec

-----------------------------------------------------------------------------
\* A field of an object of X is a pair of it and the name of the field.
LEMMA FieldOf ==
    ASSUME NEW s \in Slots, NEW X \in SUBSET Objects, Holder(s) \in X
    PROVE  \E o \in X, f \in Fields : s = <<o, f>>
  <1>1. s \in X \X Fields
    BY HolderIs
  <1> QED BY <1>1

LEMMA FieldIs ==
    ASSUME NEW o \in Objects, NEW f \in Fields
    PROVE  <<o, f>> \in Slots /\ Holder(<<o, f>>) = o
  BY MarkAssumption DEF Slots, Holder

\* What is reachable contains the roots and what its fields refer to.
LEMMA ReachableClosed ==
    ASSUME NEW h \in [Slots -> Objects \cup {Null}], NEW R
    PROVE  /\ \A o \in Objects : o \in R => o \in Reachable(h, R)
           /\ \A s \in Slots :
                 Holder(s) \in Reachable(h, R) => h[s] \in Reachable(h, R) \cup {Null}
  <1>1. \A o \in Objects : o \in R => o \in Reachable(h, R)
    BY DEF Reachable
  <1>2. ASSUME NEW s \in Slots, Holder(s) \in Reachable(h, R), h[s] # Null
        PROVE  h[s] \in Reachable(h, R)
    <2>1. ASSUME NEW C \in SUBSET Objects, R \subseteq C, Closed(h, C)
          PROVE  h[s] \in C
      <3>1. Holder(s) \in C
        BY <1>2, <2>1 DEF Reachable
      <3>2. PICK o \in C, f \in Fields : s = <<o, f>>
        BY <3>1, FieldOf
      <3>3. h[<<o, f>>] \in C \cup {Null}
        BY <2>1, <3>2 DEF Closed
      <3> QED BY <3>2, <3>3, <1>2
    <2>2. h[s] \in Objects
      BY <1>2
    <2> QED BY <2>1, <2>2 DEF Reachable
  <1> QED BY <1>1, <1>2

\* It is the least such set.
LEMMA ReachableLeast ==
    ASSUME NEW h, NEW R, NEW C \in SUBSET Objects, R \subseteq C,
           \A s \in Slots : Holder(s) \in C => h[s] \in C \cup {Null}
    PROVE  Reachable(h, R) \subseteq C
  <1>1. ASSUME NEW o \in C, NEW f \in Fields
        PROVE  h[<<o, f>>] \in C \cup {Null}
    <2>1. <<o, f>> \in Slots /\ Holder(<<o, f>>) = o
      BY FieldIs
    <2> QED BY <2>1
  <1>2. Closed(h, C)
    BY <1>1 DEF Closed
  <1> QED BY <1>2 DEF Reachable

\* Every variable has its type, and no SATB node holds more objects than it
\* has room for, whatever its size (EnsureGoodNode).
THEOREM ConcurrentMarkTypeOK == ~ExitGap => (Spec => []TypeOK)
  <1>1. IInv => TypeOK
    BY DEF IInv
  <1> QED BY <1>1, ConcurrentMarkInvariant, PTL

\* While marking runs, what a scanned mutator holds, and what fields that
\* marking will not read again refer to, is marked or will still be found:
\* what has been found covers what is kept of the heap of the first pause.
LEMMA HiddenStep == IInv => NothingHidden
  <1> SUFFICES ASSUME IInv, running
               PROVE  /\ \A m \in Mutators \ toScan :
                            local[m] \subseteq marked \cup Reachable(heap, Grey)
                      /\ \A s \in (Statics \cup (marked \X Fields)) \ pending :
                            NonNull(heap[s]) \subseteq marked \cup Reachable(heap, Grey)
    BY DEF NothingHidden
  <1> USE DEF IInv, TypeOK
  <1> DEFINE R == Reachable(heap, Grey)
             C == marked \cup R
  <1>1. PICK h \in [Slots -> Objects \cup {Null}] : SnapshotInv(h)
    BY DEF MarkInv
  <1>2. /\ Secured \subseteq Objects /\ marked \subseteq Secured
        /\ heap \in [Slots -> Objects \cup {Null}]
    BY SecuredIs DEF SecuredInv, HeapTypeOK
  <1>3. /\ \A o \in Objects : o \in Grey => o \in R
        /\ \A s \in Slots : Holder(s) \in R => heap[s] \in R \cup {Null}
    BY <1>2, ReachableClosed
  <1>4. R \subseteq Objects
    BY DEF Reachable
  <1> HIDE DEF R
  <1>5. Secured \subseteq C
    BY <1>2, <1>3 DEF Secured, Grey
  <1>6. ASSUME NEW s \in Slots, s \in pending \/ Holder(s) \in C \ marked
        PROVE  h[s] \in C \cup {Null}
    <2>1. heap[s] \in C \cup {Null}
      <3>1. CASE s \in pending
        <4>1. heap[s] # Null => heap[s] \in Grey
          BY <3>1 DEF Grey
        <4> QED BY <4>1, <1>2, <1>3
      <3>2. CASE Holder(s) \in C \ marked
        BY <3>2, <1>3
      <3> QED BY <3>1, <3>2, <1>6
    <2>2. Unread(s)
      BY <1>6, <1>4 DEF Unread
    <2>3. heap[s] = h[s] \/ h[s] \in Secured \cup {Null}
      BY <2>2, <1>1 DEF SnapshotInv, UnreadInv
    <2> QED BY <2>1, <2>3, <1>5
  <1>7. Kept(h) \subseteq C
    <2>1. Covers(h, marked, Secured, pending, C)
      BY <1>5, <1>6 DEF Covers
    <2>2. C \in SUBSET Objects
      BY <1>4 DEF MarkTypeOK
    <2> QED BY <2>1, <2>2, FoundLeast DEF Kept
  <1>8. marked \subseteq Kept(h)
    BY <1>2, FoundCovers DEF Kept, Covers
  <1>9. ASSUME NEW s \in (Statics \cup (marked \X Fields)) \ pending
        PROVE  NonNull(heap[s]) \subseteq C
    <2>1. s \in Slots
      BY DEF Slots, MarkTypeOK
    <2>2. Holder(s) \in marked \cup {Null}
      BY <2>1, HolderIs DEF MarkTypeOK
    <2>3. heap[s] \in Kept(h) \cup {Null}
      BY <2>1, <2>2, <1>1, <1>8 DEF SnapshotInv, HeldInv
    <2> QED BY <2>3, <1>7 DEF NonNull
  <1>10. \A m \in Mutators \ toScan : local[m] \subseteq C
    BY <1>1, <1>7 DEF SnapshotInv, HeldInv
  <1> QED BY <1>9, <1>10 DEF R

\* No mutator can hide an object behind the back of the marking
\* (SatbWriteBarrier), for every heap, every number of mutators and every
\* order of their writes.
THEOREM ConcurrentMarkNothingHidden == ~ExitGap => (Spec => []NothingHidden)
  BY HiddenStep, ConcurrentMarkInvariant, PTL

\* The objects in use are closed under references and contain all roots, so
\* that nothing the sweep frees is reachable.
LEMMA GarbageStep == IInv => NoLiveGarbage
  <1> SUFFICES ASSUME IInv
               PROVE  garbage \cap Reachable(heap, StaticRefs(heap)
                                                     \cup UNION {local[m] : m \in Mutators}) = {}
    BY DEF NoLiveGarbage
  <1> DEFINE Roots == StaticRefs(heap) \cup UNION {local[m] : m \in Mutators}
  <1>1. Roots \subseteq Used
    <2>1. StaticRefs(heap) \subseteq Used
      <3>1. ASSUME NEW s \in Statics PROVE heap[s] \in Used \cup {Null}
        <4>1. s \in Slots BY DEF Slots
        <4>2. Holder(s) = Null BY <4>1, HolderIs
        <4> QED BY <4>1, <4>2 DEF IInv, UsedInv
      <3> QED BY <3>1 DEF StaticRefs
    <2>2. \A m \in Mutators : local[m] \subseteq Used
      BY DEF IInv, UsedInv
    <2> QED BY <2>1, <2>2
  <1> HIDE DEF Roots
  <1>2. Used \in SUBSET Objects
    BY DEF IInv, TypeOK, HeapTypeOK, Used
  <1>3. \A s \in Slots : Holder(s) \in Used => heap[s] \in Used \cup {Null}
    BY DEF IInv, UsedInv
  <1>4. Reachable(heap, Roots) \subseteq Used
    BY <1>1, <1>2, <1>3, ReachableLeast
  <1>5. garbage \cap Reachable(heap, Roots) = {}
    BY <1>4 DEF Used
  <1> QED BY <1>5 DEF Roots

\* No object that the sweep is about to free is reachable for a mutator
\* (ConcurrentMarkAndSweep), when no pause falls into a mutator's exit.
THEOREM ConcurrentMarkNoLiveGarbage == ~ExitGap => (Spec => []NoLiveGarbage)
  BY GarbageStep, ConcurrentMarkInvariant, PTL
=============================================================================
