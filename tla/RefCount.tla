------------------------------ MODULE RefCount ------------------------------
(***************************************************************************)
(* Reference counting of one object (compiler-rt: rc_inline.h,             *)
(* collector_naiverc.cpp, rc_reference_processor.cpp, rp_base.cpp).        *)
(*                                                                         *)
(* The header of an object has three counts: strong references; resurrect- *)
(* able weak ones, from WeakReference and SoftReference, whose get() makes *)
(* strong ones of them; and weak ones, from PhantomReference, plus one that*)
(* the object has itself as long as it is not "weak collected".  Mutators  *)
(* and the reference processor (RP) change all of them in one              *)
(* compare-and-swap, and whoever brings the counts down goes on to release *)
(* the object or to queue it for its finalizer.                            *)
(*                                                                         *)
(* The object has no references of its own.  It may be stored in one       *)
(* volatile field and be the referent of one WeakReference and one         *)
(* PhantomReference at a time.                                             *)
(***************************************************************************)
EXTENDS Integers, FiniteSets

CONSTANTS
    Threads,                \* mutators
    RP,                     \* the thread of the reference processor
    MaxHeld,                \* bound on the references in locals, beyond which none is loaded or copied
    kRCBitsMsb,             \* strong counts from here on are not changed any more
    kMaxWeakRC, kMaxResurrectWeakRC  \* weak counts that are not changed any more

Actors == Threads \cup {RP}

ASSUME RefCountAssumption ==
    /\ IsFiniteSet(Threads) /\ RP \notin Threads
    /\ Actors \cap {"null", "obj"} = {}
    /\ MaxHeld \in Nat \ {0} /\ kRCBitsMsb \in Nat \ {0, 1}
    /\ kMaxWeakRC \in Nat \ {0, 1} /\ kMaxResurrectWeakRC \in Nat \ {0}

Referents == {"weak", "phantom"}
Slots == {"field"} \cup Referents

VARIABLES
    header,     \* [strong, resurrect, weak, collected]: the RC header
    finalizable, enqueued,  \* bits of the GC header
    queued,     \* is the object in a list of finalizables?
    slot,       \* what each slot holds: "null", "obj" or the thread that has locked it
    active,     \* the "recently used" bit of the WeakReference
    held,       \* strong references in the locals of each thread
    pc, arg,    \* where each thread is, and the slot it works on
    cont,       \* where it goes on after a release
    ran,        \* has finalize() been called?
    freed       \* how often the object was freed

vars == <<header, finalizable, enqueued, queued, slot, active, held, pc, arg, cont, ran, freed>>

Init ==
    /\ header = [strong |-> 1, resurrect |-> 0, weak |-> 1, collected |-> FALSE]
    /\ finalizable \in BOOLEAN
    /\ enqueued = FALSE /\ queued = FALSE
    /\ slot = [k \in Slots |-> "null"]
    /\ active = FALSE
    /\ \E t \in Threads : held = [a \in Actors |-> IF a = t THEN 1 ELSE 0]
    /\ pc = [a \in Actors |-> "idle"]
    /\ arg = [a \in Actors |-> "field"]
    /\ cont = [a \in Actors |-> "idle"]
    /\ ran = FALSE /\ freed = 0

-----------------------------------------------------------------------------
(* Thread a goes to l, working on slot k, and to next after that.  What an  *)
(* idle thread did before is forgotten.                                     *)

Step(a, l, k, next) ==
    /\ pc' = [pc EXCEPT ![a] = l]
    /\ arg' = [arg EXCEPT ![a] = IF l = "idle" THEN "field" ELSE k]
    /\ cont' = [cont EXCEPT ![a] = IF l = "idle" THEN "idle" ELSE next]

Goto(a, l) == Step(a, l, arg[a], cont[a])

-----------------------------------------------------------------------------
(* The header operations of rc_inline.h; each is one compare-and-swap.     *)

SkipRC(h) == h.strong >= kRCBitsMsb

Add(h, s, w, r) ==
    [h EXCEPT !.strong = @ + s,
              !.weak = IF @ = kMaxWeakRC THEN @ ELSE @ + w,
              !.resurrect = IF @ = kMaxResurrectWeakRC THEN @ ELSE @ + r]

AtomicUpdateRC(s, w, r) == IF SkipRC(header) THEN header ELSE Add(header, s, w, r)

TotalRC(h) == <<h.strong, h.resurrect, h.weak>>

\* What a decrement that gives header h leaves to be done.
ReleaseState(h) ==
    CASE h.collected /\ TotalRC(h) = <<0, 0, 0>> -> "release"
      [] ~h.collected /\ TotalRC(h) = <<0, 0, 1>> -> "release"
      [] ~h.collected /\ TotalRC(h) # <<0, 0, 1>> /\ h.strong = 0 /\ h.resurrect = 0 -> "collected"
      [] OTHER -> "keep"

\* AtomicDecRCAndCheckRelease() by a, which then does what it has to and goes
\* on at next.
Dec(a, s, w, r, next) ==
    LET h == Add(header, s, w, r)
        todo == IF SkipRC(header) THEN "keep" ELSE ReleaseState(h)
    IN
    /\ header' = IF SkipRC(header) THEN header
                 ELSE [h EXCEPT !.collected = @ \/ todo = "collected"]
    /\ Step(a, IF todo = "keep" THEN next ELSE todo, arg[a], next)

DecReferent(a, k, next) ==
    IF k = "weak" THEN Dec(a, 0, 0, -1, next) ELSE Dec(a, 0, -1, 0, next)

-----------------------------------------------------------------------------
(* Releasing the object                                                    *)

IsObjResurrectable == finalizable /\ ~enqueued

\* ReleaseObject(): CheckAndAddFinalizable() or FreeObject().
Release(a) ==
    /\ pc[a] = "release"
    /\ IF IsObjResurrectable
       THEN Goto(a, "add_finalizable") /\ UNCHANGED freed
       ELSE Goto(a, cont[a]) /\ freed' = freed + 1
    /\ UNCHANGED <<header, finalizable, enqueued, queued, slot, active, held, ran>>

\* Mutant: a finalizable object gives up its own weak count as well.
OwnCountDroppedAlways == TRUE

OwnCountDropped == ~IsObjResurrectable

\* kCollectedWeak: the object gives up its own weak count, unless it is to be
\* finalized first.
CollectedWeak(a) ==
    /\ pc[a] = "collected"
    /\ IF OwnCountDropped
       THEN Dec(a, 0, -1, 0, cont[a])
       ELSE Goto(a, "add_finalizable") /\ UNCHANGED header
    /\ UNCHANGED <<finalizable, enqueued, queued, slot, active, held, ran, freed>>

\* PreAddFinalizables(): the list gets a reference ...
AddFinalizable(a) ==
    /\ pc[a] = "add_finalizable"
    /\ header' = AtomicUpdateRC(1, 0, 0)
    /\ Goto(a, "push_finalizable")
    /\ UNCHANGED <<finalizable, enqueued, queued, slot, active, held, ran, freed>>

\* ... and then the object, under finalizersLock.
PushFinalizable(a) ==
    /\ pc[a] = "push_finalizable"
    /\ enqueued' = TRUE /\ queued' = TRUE
    /\ Goto(a, cont[a])
    /\ UNCHANGED <<header, finalizable, slot, active, held, ran, freed>>

-----------------------------------------------------------------------------
(* Mutators.  finalize() is Java code as well: it may store the object.    *)

Locals == UNION {{a} \X (1 .. held[a]) : a \in Actors}

InLocals == Cardinality(Locals)

\* IncRef(), for a copy of a local reference.
IncRef(t) ==
    /\ pc[t] = "idle" /\ held[t] > 0 /\ InLocals < MaxHeld
    /\ header' = AtomicUpdateRC(1, 0, 0)
    /\ held' = [held EXCEPT ![t] = @ + 1]
    /\ UNCHANGED <<finalizable, enqueued, queued, slot, active, pc, arg, cont, ran, freed>>

\* DecRef(), when a local reference dies.
DecRef(t) ==
    /\ pc[t] = "idle" /\ held[t] > 0
    /\ held' = [held EXCEPT ![t] = @ - 1]
    /\ Dec(t, -1, 0, 0, "idle")
    /\ UNCHANGED <<finalizable, enqueued, queued, slot, active, ran, freed>>

\* LoadRefVolatile(): the compare-and-swap of the field to the thread's mark.
LockSlot(a, k) ==
    /\ slot[k] = "obj"
    /\ slot' = [slot EXCEPT ![k] = a]
    /\ Step(a, "locked", k, "idle")

LoadRefVolatile(t) ==
    /\ pc[t] = "idle" /\ InLocals < MaxHeld
    /\ \E k \in {"field", "weak"} :
          /\ LockSlot(t, k)
          /\ active' = (active \/ k = "weak")
    /\ UNCHANGED <<header, finalizable, enqueued, queued, held, ran, freed>>

\* Mutant: get() does not look at the collected bit.
MayGetAlways(k) == TRUE

MayGet(k) == k = "field" \/ ~header.collected

\* IncRefInline(), or AtomicIncLoadWeak() for a referent.
IncLocked(a) ==
    /\ pc[a] = "locked"
    /\ IF MayGet(arg[a])
       THEN /\ header' = AtomicUpdateRC(1, 0, 0)
            /\ held' = [held EXCEPT ![a] = @ + 1]
       ELSE UNCHANGED <<header, held>>
    /\ Goto(a, "unlock")
    /\ UNCHANGED <<finalizable, enqueued, queued, slot, active, ran, freed>>

Unlock(a) ==
    /\ pc[a] = "unlock"
    /\ slot' = [slot EXCEPT ![arg[a]] = "obj"]
    /\ Goto(a, CASE a # RP -> "idle"
                 [] a = RP /\ held[RP] = 0 -> "empty"
                 [] OTHER -> "process")
    /\ UNCHANGED <<header, finalizable, enqueued, queued, active, held, ran, freed>>

\* WriteRefFieldVolatile() of the object: count first ...
WriteObj(a) ==
    /\ \/ a # RP /\ pc[a] = "idle" /\ held[a] > 0 /\ Step(a, "write_obj", "field", "idle")
       \/ a = RP /\ pc[a] = "finalize" /\ Step(a, "write_obj", "field", "finalized")
    /\ header' = AtomicUpdateRC(1, 0, 0)
    /\ UNCHANGED <<finalizable, enqueued, queued, slot, active, held, ran, freed>>

WriteNull(t) ==
    /\ pc[t] = "idle" /\ slot["field"] # "null"
    /\ Step(t, "write_null", "field", "idle")
    /\ UNCHANGED <<header, finalizable, enqueued, queued, slot, active, held, ran, freed>>

\* ... then swap, when the field is not locked, and count the old value down.
WriteSwap(a) ==
    /\ pc[a] \in {"write_obj", "write_null"}
    /\ slot["field"] \in {"null", "obj"}
    /\ slot' = [slot EXCEPT !["field"] = IF pc[a] = "write_obj" THEN "obj" ELSE "null"]
    /\ Goto(a, IF slot["field"] = "obj" THEN "dec_old" ELSE cont[a])
    /\ UNCHANGED <<header, finalizable, enqueued, queued, active, held, ran, freed>>

DecOld(a) ==
    /\ pc[a] = "dec_old"
    /\ Dec(a, -1, 0, 0, cont[a])
    /\ UNCHANGED <<finalizable, enqueued, queued, slot, active, held, ran, freed>>

\* The constructor of a Reference stores its referent like any field ...
NewReference(t) ==
    /\ pc[t] = "idle" /\ held[t] > 0
    /\ \E k \in Referents :
          /\ slot[k] = "null"
          /\ \A a \in Actors : pc[a] = "write_referent" => arg[a] # k
          /\ Step(t, "write_referent", k, "idle")
    /\ header' = AtomicUpdateRC(1, 0, 0)
    /\ UNCHANGED <<finalizable, enqueued, queued, slot, active, held, ran, freed>>

\* ... and then calls MCC_WriteReferent(), which makes the reference weak and
\* hands the Reference to the reference processor.
WriteReferent(t) ==
    /\ pc[t] = "write_referent"
    /\ header' = IF arg[t] = "weak" THEN AtomicUpdateRC(-1, 0, 1) ELSE AtomicUpdateRC(-1, 1, 0)
    /\ slot' = [slot EXCEPT ![arg[t]] = "obj"]
    /\ Goto(t, "idle")
    /\ UNCHANGED <<finalizable, enqueued, queued, active, held, ran, freed>>

\* MRT_ReferenceClearReferent(), for Reference.clear(), or by the RP thread when
\* the Reference itself is dead: swap, then count down.
ClearReferent(a) ==
    /\ pc[a] = "idle"
    /\ \E k \in Referents :
          /\ slot[k] = "obj"
          /\ slot' = [slot EXCEPT ![k] = "null"]
          /\ Step(a, "dec_referent", k, "idle")
    /\ UNCHANGED <<header, finalizable, enqueued, queued, active, held, ran, freed>>

DecCleared(a) ==
    /\ pc[a] = "dec_referent"
    /\ DecReferent(a, arg[a], cont[a])
    /\ UNCHANGED <<finalizable, enqueued, queued, slot, active, held, ran, freed>>

-----------------------------------------------------------------------------
(* The reference processor, on one Reference at a time.                    *)

\* ProcessRef() loads the referent as get() does.
RpLoad(k) ==
    /\ pc[RP] = "idle"
    /\ LockSlot(RP, k)
    /\ UNCHANGED <<header, finalizable, enqueued, queued, active, held, ran, freed>>

\* A Reference of the young queue that was used of late is left for this time.
RpSkipActive ==
    /\ pc[RP] = "process" /\ arg[RP] = "weak" /\ active
    /\ active' = FALSE
    /\ Goto(RP, "drop")
    /\ UNCHANGED <<header, finalizable, enqueued, queued, slot, held, ran, freed>>

\* Mutant: the reference processor forgets that it has a reference itself.
WeakCollectableNoDelta(h) == ~h.collected /\ h.strong = 0

WeakCollectable(h) == ~h.collected /\ h.strong = 1

\* WeakRCCollection(): IsWeakCollected(), then AtomicCheckWeakCollectable().
RpCollect ==
    /\ pc[RP] = "process"
    /\ header' = [header EXCEPT !.collected = @ \/ WeakCollectable(header)]
    /\ Goto(RP, CASE header.collected -> "clear"
                  [] ~header.collected /\ WeakCollectable(header) -> "weak_release"
                  [] OTHER -> "drop")
    /\ UNCHANGED <<finalizable, enqueued, queued, slot, active, held, ran, freed>>

\* The object goes to its finalizer, or gives up its own weak count.
RpWeakRelease ==
    /\ pc[RP] = "weak_release"
    /\ IF finalizable
       THEN Step(RP, "add_finalizable", arg[RP], "clear") /\ UNCHANGED header
       ELSE Dec(RP, 0, -1, 0, "clear")
    /\ UNCHANGED <<finalizable, enqueued, queued, slot, active, held, ran, freed>>

\* ProcessEmptyRef(), when the load gave null, reads the referent of a
\* PhantomReference without locking it ...
RpEmpty ==
    /\ pc[RP] = "empty"
    /\ Goto(RP, IF arg[RP] = "phantom" /\ slot["phantom"] # "null" THEN "check" ELSE "clear")
    /\ UNCHANGED <<header, finalizable, enqueued, queued, slot, active, held, ran, freed>>

\* ... and then its GC header, whatever is there when it was freed meanwhile.
RpCheckEmpty ==
    /\ pc[RP] = "check"
    /\ \/ Goto(RP, "idle") /\ (finalizable \/ freed > 0)
       \/ Goto(RP, "clear") /\ (~finalizable \/ freed > 0)
    /\ UNCHANGED <<header, finalizable, enqueued, queued, slot, active, held, ran, freed>>

\* TryClearReferent(), with a reference to the object: a PhantomReference waits
\* for the finalizer.  MRT_ReferenceClearReferent() swaps the field, when it is
\* not locked.
RpClear ==
    /\ pc[RP] = "clear"
    /\ LET k == arg[RP]
           waits == held[RP] > 0 /\ k = "phantom" /\ finalizable
       IN  \/ /\ slot[k] = "null" \/ waits
              /\ Goto(RP, "drop")
              /\ UNCHANGED slot
           \/ /\ slot[k] = "obj" /\ ~waits
              /\ slot' = [slot EXCEPT ![k] = "null"]
              /\ Step(RP, "dec_referent", k, "drop")
    /\ UNCHANGED <<header, finalizable, enqueued, queued, active, held, ran, freed>>

\* The handle of ProcessRef(), if the load gave one, goes out of scope.
RpDrop ==
    /\ pc[RP] = "drop"
    /\ IF held[RP] = 0
       THEN Goto(RP, "idle") /\ UNCHANGED header
       ELSE Dec(RP, -1, 0, 0, "idle")
    /\ held' = [held EXCEPT ![RP] = 0]
    /\ UNCHANGED <<finalizable, enqueued, queued, slot, active, ran, freed>>

-----------------------------------------------------------------------------
(* Finalization                                                            *)

\* ProcessFinalizables() swaps the lists and calls finalize(), which may
\* WriteObj(RP).  The reference of the list stays until PostFinalizable().
RpFinalize ==
    /\ pc[RP] = "idle" /\ queued
    /\ queued' = FALSE /\ ran' = TRUE
    /\ Goto(RP, "finalize")
    /\ UNCHANGED <<header, finalizable, enqueued, slot, active, held, freed>>

\* finalize() has returned; ClearObjFinalizable().
RpFinalized ==
    /\ pc[RP] \in {"finalize", "finalized"}
    /\ finalizable' = FALSE /\ enqueued' = FALSE
    /\ Goto(RP, "post_finalizable")
    /\ UNCHANGED <<header, queued, slot, active, held, ran, freed>>

\* Mutant: PostFinalizable() looks at the strong count alone.
OnlyListLeftStrong(h) == h.strong = 1

OnlyListLeft(h) == TotalRC(h) = <<1, 0, 1>>

\* PostFinalizable(): release at once, or give up the own weak count of a weak
\* collected object, and then the reference of the list.
RpPostFinalizable ==
    /\ pc[RP] = "post_finalizable"
    /\ CASE header.collected /\ OnlyListLeft(header) ->
              Step(RP, "release", arg[RP], "idle") /\ UNCHANGED header
         [] header.collected /\ ~OnlyListLeft(header) -> Dec(RP, 0, -1, 0, "dec_list")
         [] OTHER -> Goto(RP, "dec_list") /\ UNCHANGED header
    /\ UNCHANGED <<finalizable, enqueued, queued, slot, active, held, ran, freed>>

RpDecList ==
    /\ pc[RP] = "dec_list"
    /\ Dec(RP, -1, 0, 0, "idle")
    /\ UNCHANGED <<finalizable, enqueued, queued, slot, active, held, ran, freed>>

-----------------------------------------------------------------------------
\* The steps of an operation that has begun.
Busy(a) ==
    \/ Release(a) \/ CollectedWeak(a) \/ AddFinalizable(a) \/ PushFinalizable(a)
    \/ IncLocked(a) \/ Unlock(a)
    \/ WriteSwap(a) \/ DecOld(a) \/ DecCleared(a)

Mutator(t) ==
    \/ IncRef(t) \/ DecRef(t) \/ LoadRefVolatile(t)
    \/ WriteObj(t) \/ WriteNull(t)
    \/ NewReference(t) \/ WriteReferent(t) \/ ClearReferent(t)

ReferenceProcessor ==
    \/ \E k \in Referents : RpLoad(k)
    \/ RpSkipActive \/ RpCollect \/ RpWeakRelease
    \/ RpEmpty \/ RpCheckEmpty \/ RpClear \/ RpDrop
    \/ RpFinalize \/ WriteObj(RP) \/ ClearReferent(RP)
    \/ RpFinalized \/ RpPostFinalizable \/ RpDecList

Next ==
    \/ \E a \in Actors : Busy(a)
    \/ \E t \in Threads : Mutator(t)
    \/ ReferenceProcessor

Spec == Init /\ [][Next]_vars

-----------------------------------------------------------------------------
(* Properties                                                              *)

Labels == {"idle", "release", "collected", "add_finalizable", "push_finalizable",
           "locked", "unlock", "write_obj", "write_null", "dec_old",
           "write_referent", "dec_referent", "process", "weak_release", "clear",
           "empty", "check", "drop", "finalize", "finalized", "post_finalizable", "dec_list"}

TypeOK ==
    /\ header \in [strong : 0 .. kRCBitsMsb, resurrect : 0 .. kMaxResurrectWeakRC,
                   weak : 0 .. kMaxWeakRC, collected : BOOLEAN]
    /\ finalizable \in BOOLEAN /\ enqueued \in BOOLEAN /\ queued \in BOOLEAN
    /\ slot \in [Slots -> {"null", "obj"} \cup Actors] /\ active \in BOOLEAN
    /\ held \in [Actors -> Nat]
    /\ pc \in [Actors -> Labels] /\ cont \in [Actors -> Labels] /\ arg \in [Actors -> Slots]
    /\ ran \in BOOLEAN /\ freed \in Nat

(* The references there are to the object: in locals and fields, in the list *)
(* of finalizables, and those that an operation has counted up and not yet   *)
(* stored, or taken out of a field and not yet counted down.                 *)

B2N(b) == IF b THEN 1 ELSE 0

At(ls) == Cardinality({a \in Actors : pc[a] \in ls})

InFinalizer ==
    \/ pc[RP] \in {"finalize", "finalized", "post_finalizable", "dec_list"}
    \/ pc[RP] \in {"write_obj", "dec_old"}

StrongRefs ==
    InLocals + B2N(slot["field"] # "null")
    + At({"write_obj", "dec_old", "write_referent", "push_finalizable"})
    + B2N(queued) + B2N(InFinalizer)

ReferentRefs(k) ==
    B2N(slot[k] # "null") + Cardinality({a \in Actors : pc[a] = "dec_referent" /\ arg[a] = k})

OwnRef ==
    B2N(\/ ~header.collected \/ finalizable
        \/ pc[RP] = "post_finalizable"
        \/ \E a \in Actors : pc[a] \in {"collected", "weak_release"})

Saturated ==
    \/ header.strong = kRCBitsMsb
    \/ header.weak = kMaxWeakRC \/ header.resurrect = kMaxResurrectWeakRC

\* The object is freed once, and then nobody can reach it: no local, no field, no
\* list has it and nobody is about to change its header.  (ProcessEmptyRef() may
\* still read its finalizable bit, and that of the reused memory.)
NoUseAfterFree ==
    /\ freed <= 1
    /\ freed = 1 => /\ StrongRefs = 0
                    /\ \A k \in Referents : ReferentRefs(k) = 0
                    /\ \A t \in Threads : pc[t] \in {"idle", "write_null"}
                    /\ pc[RP] \in {"idle", "write_null", "empty", "check", "clear", "drop"}

\* The counts of the header are exactly the references there are, whatever
\* operations are under way (unless a count has become sticky, or the object is
\* being released by PostFinalizable() with the count of the list still in it).
CountsExact ==
    (freed = 0 /\ ~Saturated /\ pc[RP] # "release") =>
        /\ header.strong = StrongRefs
        /\ header.resurrect = ReferentRefs("weak")
        /\ header.weak = ReferentRefs("phantom") + OwnRef

MutatorsHaveIt == slot["field"] # "null" \/ \E t \in Threads : held[t] > 0

\* Once weak references to the object are invalidated, no mutator has it and none
\* gets it again, except through finalize().
CollectedIsDead == (header.collected /\ ~ran) => ~MutatorsHaveIt

\* rc_inline.h: "clear weak collected bit: object is resurrected".  An object that
\* finalize() has brought back is an object like any other: weak references to it
\* can be used.
ResurrectedIsGettable == (MutatorsHaveIt /\ pc[RP] = "idle") => ~header.collected

Lost == ~MutatorsHaveIt /\ ~Saturated /\ \A t \in Threads : pc[t] = "idle"

\* An object that the mutators have lost for good is freed in the end, whatever
\* its weak references and its finalizer.
LostIsFreed == <>[]Lost => <>(freed > 0)

-----------------------------------------------------------------------------
(* A thread goes on with what it has begun.  The reference processor goes    *)
(* through all queues of references and the finalizables in every iteration. *)

Fairness ==
    /\ \A a \in Actors : WF_vars(Busy(a))
    /\ \A t \in Threads : WF_vars(WriteReferent(t))
    /\ \A k \in Referents : SF_vars(RpLoad(k))
    /\ SF_vars(RpFinalize)
    /\ WF_vars(RpCollect \/ RpWeakRelease \/ RpEmpty \/ RpCheckEmpty \/ RpClear \/ RpDrop)
    /\ WF_vars(RpFinalized \/ RpPostFinalizable \/ RpDecList)

LiveSpec == Spec /\ Fairness

=============================================================================
