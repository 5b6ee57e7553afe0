--------------------------- MODULE RefCountProofs ---------------------------
(***************************************************************************)
(* Proofs about RefCount, for any finite set of mutators, any bound on the *)
(* references in locals and any limits of the three counts, also those at  *)
(* which a count becomes sticky while operations are under way.            *)
(*                                                                         *)
(* The properties are not inductive: whoever brings the counts down        *)
(* decides in one compare-and-swap what is left to be done and does it     *)
(* later, without a look at what others have done to the object since.     *)
(* IInv says why it may: from then on nobody but that thread can reach the *)
(* object (LastInv), until it is freed or its finalizer has it.            *)
(***************************************************************************)
EXTENDS RefCount, FiniteSetTheorems, TLAPS

\* What a thread does that has found that the object is not used any more.
Last == {"release", "collected", "weak_release", "add_finalizable", "push_finalizable"}

\* Operations that have a strong reference of their own.
Ops == {"write_obj", "dec_old", "write_referent"}

MutatorLabels == {"idle", "release", "collected", "add_finalizable", "push_finalizable",
                  "locked", "unlock", "write_obj", "write_null", "dec_old",
                  "write_referent", "dec_referent"}

\* Operations that have a strong reference, or are handing one to the list.
Owned == Ops \cup {"push_finalizable"}

\* The threads that have cleared slot k and count down for it.
Clearing(k) == Cardinality({a \in Actors : pc[a] = "dec_referent" /\ arg[a] = k})

Header == [strong : 0 .. kRCBitsMsb, resurrect : 0 .. kMaxResurrectWeakRC,
           weak : 0 .. kMaxWeakRC, collected : BOOLEAN]

Finalizing == {"finalize", "finalized", "write_obj", "dec_old"}

\* A locked slot belongs to the thread that is at it.
LockInv ==
    /\ \A a \in Actors : pc[a] \in {"locked", "unlock"} => slot[arg[a]] = a
    /\ \A k \in Slots : slot[k] \in Actors
          => pc[slot[k]] \in {"locked", "unlock"} /\ arg[slot[k]] = k

\* Mutators go back to idle after a release, and one Reference is constructed
\* only once.
MutatorInv ==
    /\ \A t \in Threads : pc[t] \in MutatorLabels /\ cont[t] = "idle"
    /\ \A a \in Actors : pc[a] \in {"write_referent", "dec_referent"} => arg[a] \in Referents
    /\ \A a, b \in Actors :
          pc[a] = "write_referent" => /\ slot[arg[a]] = "null"
                                      /\ pc[b] = "write_referent" /\ arg[a] = arg[b] => a = b

\* The reference processor has a reference of its own from ProcessRef()'s load
\* to the end of its handle.
RpInv ==
    /\ pc[RP] \notin {"write_null", "write_referent"}
    /\ pc[RP] \in {"locked", "unlock", "process", "empty", "check", "clear", "weak_release"}
          => arg[RP] \in Referents
    /\ cont[RP] = "clear" => arg[RP] \in Referents
    /\ pc[RP] \in {"write_obj", "dec_old"} => cont[RP] = "finalized"
    /\ pc[RP] \in {"release", "collected"} => cont[RP] \in {"idle", "drop"}
    /\ pc[RP] \in {"add_finalizable", "push_finalizable"}
          => \/ cont[RP] \in {"idle", "drop"} /\ held[RP] = 0
             \/ cont[RP] = "clear" /\ held[RP] = 1
    /\ pc[RP] = "dec_referent" => cont[RP] = "drop" \/ (cont[RP] = "idle" /\ held[RP] = 0)
    /\ held[RP] \in {0, 1}
    /\ pc[RP] \in {"process", "weak_release"} => held[RP] = 1
    /\ held[RP] = 1 => pc[RP] \in {"unlock", "process", "weak_release", "add_finalizable",
                                   "push_finalizable", "clear", "dec_referent", "drop"}

\* The object is enqueued from PreAddFinalizables() until finalize() has returned.
FinalInv ==
    /\ enqueued <=> queued \/ pc[RP] \in Finalizing
    /\ enqueued => finalizable
    /\ ~(queued /\ InFinalizer)
    /\ InFinalizer => ran
    /\ pc[RP] \in {"post_finalizable", "dec_list"} => ~finalizable

NoMutator ==
    slot["field"] = "null" /\ \A t \in Threads : held[t] = 0 /\ pc[t] \notin Ops

Gone ==
    (\A k \in Slots : slot[k] = "null") /\ \A a \in Actors : pc[a] # "dec_referent"

\* Who has a weak collected object can only be its finalizer.
DeadInv == header.collected /\ ~ran => NoMutator

\* When thread a has found that the object is not used any more, nobody else
\* finds that as well, and nobody gets a reference to it.
Alone(a) ==
    /\ freed = 0 /\ NoMutator /\ ~enqueued /\ ~InFinalizer
    /\ \A b \in Actors : pc[b] \in Last => a = b
    /\ a # RP => held[RP] = 0
    /\ pc[a] = "release" \/ ~header.collected => Gone
    /\ pc[a] \in {"add_finalizable", "push_finalizable"} => finalizable
    /\ pc[a] \in {"collected", "weak_release"} => header.collected

LastInv == \A a \in Actors : pc[a] \in Last => Alone(a)

FreedInv ==
    /\ freed \in {0, 1}
    /\ freed = 1 => /\ NoMutator /\ Gone /\ ~queued /\ held[RP] = 0
                    /\ \A t \in Threads : pc[t] \in {"idle", "write_null"}
                    /\ pc[RP] \in {"idle", "empty", "check", "clear", "drop"}

\* PostFinalizable() releases the object with the reference of the list.
Releasing == pc[RP] = "release" /\ ~finalizable

\* A count of h that is not sticky is exact, also when others are, if there are S,
\* R and W references.
Counted(h, S, R, W) ==
    h.strong < kRCBitsMsb =>
        /\ h.strong = S
        /\ h.resurrect < kMaxResurrectWeakRC => h.resurrect = R
        /\ h.weak < kMaxWeakRC => h.weak = W

CountInv ==
    freed = 0 /\ ~Releasing =>
        Counted(header, StrongRefs, ReferentRefs("weak"), ReferentRefs("phantom") + OwnRef)

IInv ==
    /\ TypeOK /\ IsFiniteSet(Locals) /\ LockInv /\ MutatorInv /\ RpInv /\ FinalInv
    /\ DeadInv /\ LastInv /\ FreedInv /\ CountInv

-----------------------------------------------------------------------------
(* What the proofs of the steps need of it.                                *)

Facts ==
    /\ header \in Header /\ held \in [Actors -> Nat] /\ freed \in Nat
    /\ pc \in [Actors -> Labels] /\ arg \in [Actors -> Slots] /\ cont \in [Actors -> Labels]
    /\ slot \in [Slots -> {"null", "obj"} \cup Actors] /\ IsFiniteSet(Locals)
    /\ RP \in Actors /\ Threads \subseteq Actors /\ \A b \in Actors : b \in Threads <=> b # RP
    /\ "null" \notin Actors /\ "obj" \notin Actors
    /\ LockInv /\ MutatorInv /\ RpInv /\ FinalInv /\ DeadInv /\ LastInv /\ FreedInv /\ CountInv

Bits ==
    /\ finalizable \in BOOLEAN /\ enqueued \in BOOLEAN /\ queued \in BOOLEAN
    /\ active \in BOOLEAN /\ ran \in BOOLEAN

\* What StrongRefs, ReferentRefs() and OwnRef are made of, ...
Sums ==
    /\ InLocals \in Nat /\ At(Owned) \in Nat
    /\ Clearing("weak") \in Nat /\ Clearing("phantom") \in Nat
    /\ StrongRefs = InLocals + B2N(slot["field"] # "null") + At(Owned)
                       + B2N(queued) + B2N(InFinalizer)
    /\ ReferentRefs("weak") = B2N(slot["weak"] # "null") + Clearing("weak")
    /\ ReferentRefs("phantom") = B2N(slot["phantom"] # "null") + Clearing("phantom")
    /\ OwnRef \in {0, 1}

\* ... and when a part is 0.
Zeros ==
    /\ InLocals = 0 <=> \A b \in Actors : held[b] = 0
    /\ At(Owned) = 0 <=> \A b \in Actors : pc[b] \notin Owned
    /\ Clearing("weak") = 0
          <=> \A b \in Actors : ~(pc[b] = "dec_referent" /\ arg[b] = "weak")
    /\ Clearing("phantom") = 0
          <=> \A b \in Actors : ~(pc[b] = "dec_referent" /\ arg[b] = "phantom")

\* Step(a, l, k, next), label by label ...
Moved(a, l, k, next) ==
    /\ pc' \in [Actors -> Labels] /\ arg' \in [Actors -> Slots] /\ cont' \in [Actors -> Labels]
    /\ pc'[a] = l
    /\ arg'[a] = (IF l = "idle" THEN "field" ELSE k)
    /\ cont'[a] = (IF l = "idle" THEN "idle" ELSE next)
    /\ \A b \in Actors : b # a => pc'[b] = pc[b] /\ arg'[b] = arg[b] /\ cont'[b] = cont[b]

\* ... and what it does to the parts of the sums.
Recounted(a, l, k) ==
    /\ At(Owned)' = At(Owned) + B2N(l \in Owned) - B2N(pc[a] \in Owned)
    /\ Clearing("weak")' = Clearing("weak") + B2N(l = "dec_referent" /\ k = "weak")
                              - B2N(pc[a] = "dec_referent" /\ arg[a] = "weak")
    /\ Clearing("phantom")' = Clearing("phantom") + B2N(l = "dec_referent" /\ k = "phantom")
                                 - B2N(pc[a] = "dec_referent" /\ arg[a] = "phantom")

\* s, w and r references more are not less than none.
CanAdd(s, w, r) ==
    /\ StrongRefs + s \in Nat /\ ReferentRefs("weak") + r \in Nat
    /\ ReferentRefs("phantom") + OwnRef + w \in Nat

\* The next header counts s, w and r references more.
CountedNext(s, w, r) ==
    /\ header' \in Header
    /\ Counted(header', StrongRefs + s, ReferentRefs("weak") + r,
               ReferentRefs("phantom") + OwnRef + w)

\* There are s, w and r references more.
Balanced(s, w, r) ==
    /\ StrongRefs' = StrongRefs + s
    /\ ReferentRefs("weak")' = ReferentRefs("weak") + r
    /\ ReferentRefs("phantom")' + OwnRef' = ReferentRefs("phantom") + OwnRef + w

\* Dec(a, s, w, r, next) went to l.
Decided(a, l, s, w, r, next) ==
    /\ Step(a, l, arg[a], next)
    /\ header.collected => header'.collected
    /\ header'.collected => header.collected \/ l = "collected"
    /\ l = "release" => /\ StrongRefs + s = 0 /\ ReferentRefs("weak") + r = 0
                        /\ ReferentRefs("phantom") + OwnRef + w
                              = IF header.collected THEN 0 ELSE 1
    /\ l = "collected" => /\ StrongRefs + s = 0 /\ ReferentRefs("weak") + r = 0
                          /\ ~header.collected /\ header'.collected

\* Nobody has a strong reference, or one to come by.
NothingLeft ==
    /\ NoMutator /\ ~queued /\ ~InFinalizer /\ slot["weak"] = "null"
    /\ \A b \in Actors : held[b] = 0 /\ pc[b] \notin Owned

-----------------------------------------------------------------------------
(* Counting.                                                               *)

\* Two sets that differ in one element at most.
LEMMA Differ ==
    ASSUME NEW A, NEW B, NEW x, IsFiniteSet(A), \A y : y # x => (y \in A <=> y \in B)
    PROVE  /\ IsFiniteSet(B)
           /\ Cardinality(A) \in Nat /\ Cardinality(B) \in Nat
           /\ Cardinality(B) = Cardinality(A) + B2N(x \in B) - B2N(x \in A)
  <1> DEFINE C == A \ {x}
  <1>1. IsFiniteSet(C) /\ Cardinality(A) \in Nat
    BY FS_RemoveElement, FS_CardinalityType
  <1>2. Cardinality(C) = Cardinality(A) - B2N(x \in A)
    <2>1. Cardinality(C) = IF x \in A THEN Cardinality(A) - 1 ELSE Cardinality(A)
      BY FS_RemoveElement
    <2> QED BY <1>1, <2>1 DEF B2N
  <1>3. CASE x \in B
    <2>1. B = C \cup {x}
      BY <1>3
    <2>2. x \notin C
      OBVIOUS
    <2> HIDE DEF C
    <2>3. IsFiniteSet(B) /\ Cardinality(B) = Cardinality(C) + 1
      BY <1>1, <2>1, <2>2, FS_AddElement
    <2> QED BY <1>1, <1>2, <1>3, <2>3, FS_CardinalityType DEF B2N
  <1>4. CASE x \notin B
    <2>1. B = C
      BY <1>4
    <2> HIDE DEF C
    <2> QED BY <1>1, <1>2, <1>4, <2>1, FS_CardinalityType DEF B2N
  <1> QED BY <1>3, <1>4

\* A finite set has no elements exactly if there are none to be counted.
LEMMA NoElements ==
    ASSUME NEW A, IsFiniteSet(A)
    PROVE  Cardinality(A) \in Nat /\ (Cardinality(A) = 0 <=> A = {})
  BY FS_CardinalityType, FS_EmptySet

LEMMA ActorsFinite == IsFiniteSet(Actors)
  BY RefCountAssumption, FS_AddElement DEF Actors

LEMMA SubActors ==
    ASSUME NEW A, A \subseteq Actors
    PROVE  IsFiniteSet(A)
  BY ActorsFinite, FS_Subset

\* The threads at some labels, when one goes to another label.
LEMMA AtStep ==
    ASSUME NEW p, NEW q, NEW ls, NEW a \in Actors, \A b \in Actors : b # a => q[b] = p[b]
    PROVE  Cardinality({b \in Actors : q[b] \in ls})
              = Cardinality({b \in Actors : p[b] \in ls}) + B2N(q[a] \in ls) - B2N(p[a] \in ls)
  <1> DEFINE A == {b \in Actors : p[b] \in ls}
             B == {b \in Actors : q[b] \in ls}
  <1>1. IsFiniteSet(A)
    BY SubActors
  <1>2. \A b : b # a => (b \in A <=> b \in B)
    OBVIOUS
  <1>3. (a \in A <=> p[a] \in ls) /\ (a \in B <=> q[a] \in ls)
    OBVIOUS
  <1> HIDE DEF A, B
  <1>4. Cardinality(B) = Cardinality(A) + B2N(a \in B) - B2N(a \in A)
    BY <1>1, <1>2, Differ
  <1>5. Cardinality(B) = Cardinality(A) + B2N(q[a] \in ls) - B2N(p[a] \in ls)
    BY <1>3, <1>4 DEF B2N
  <1> QED BY <1>5 DEF A, B

\* One more reference in the locals of a thread, and (read backwards) one less.
LEMMA LocalsStep ==
    ASSUME NEW f, NEW g, NEW a \in Actors,
           f \in [Actors -> Nat], g \in [Actors -> Nat], g = [f EXCEPT ![a] = f[a] + 1]
    PROVE  LET L(h) == UNION {{b} \X (1 .. h[b]) : b \in Actors}
           IN  /\ IsFiniteSet(L(f)) <=> IsFiniteSet(L(g))
               /\ IsFiniteSet(L(f)) => /\ Cardinality(L(f)) \in Nat
                                       /\ Cardinality(L(g)) = Cardinality(L(f)) + 1
  <1> DEFINE A == UNION {{b} \X (1 .. f[b]) : b \in Actors}
             B == UNION {{b} \X (1 .. g[b]) : b \in Actors}
             x == <<a, f[a] + 1>>
  <1>1. \A y : y \in A <=> \E b \in Actors : \E n \in 1 .. f[b] : y = <<b, n>>
    OBVIOUS
  <1>2. \A y : y \in B <=> \E b \in Actors : \E n \in 1 .. g[b] : y = <<b, n>>
    OBVIOUS
  <1> HIDE DEF A, B
  <1>3. x \in B /\ x \notin A
    BY <1>1, <1>2
  <1>4. ASSUME NEW y, y # x PROVE y \in A <=> y \in B
    <2>1. ASSUME NEW b \in Actors, NEW n, y = <<b, n>> PROVE n \in 1 .. f[b] <=> n \in 1 .. g[b]
      <3>1. CASE b = a
        <4>1. n # f[a] + 1
          BY <1>4, <2>1, <3>1
        <4> QED BY <3>1, <4>1
      <3>2. CASE b # a
        BY <3>2
      <3> QED BY <3>1, <3>2
    <2> QED BY <1>1, <1>2, <2>1
  <1> HIDE DEF x
  <1>5. IsFiniteSet(A) <=> IsFiniteSet(B)
    BY <1>4, Differ
  <1>6. IsFiniteSet(A) => /\ Cardinality(A) \in Nat
                          /\ Cardinality(B) = Cardinality(A) + 1
    BY <1>3, <1>4, Differ DEF B2N
  <1> QED BY <1>5, <1>6 DEF A, B

\* No thread has a reference in its locals, or is at some labels, exactly if they
\* are none to be counted.
LEMMA NoLocals ==
    ASSUME NEW f, f \in [Actors -> Nat]
    PROVE  LET L == UNION {{b} \X (1 .. f[b]) : b \in Actors}
           IN  IsFiniteSet(L) => /\ Cardinality(L) \in Nat
                                 /\ Cardinality(L) = 0 <=> \A b \in Actors : f[b] = 0
  <1> DEFINE L == UNION {{b} \X (1 .. f[b]) : b \in Actors}
  <1>1. \A b \in Actors : \A n \in 1 .. f[b] : <<b, n>> \in L
    OBVIOUS
  <1>2. \A y \in L : \E b \in Actors : 1 .. f[b] # {}
    OBVIOUS
  <1> HIDE DEF L
  <1>3. ASSUME L = {}, NEW b \in Actors PROVE f[b] = 0
    <2>1. 1 \notin 1 .. f[b]
      BY <1>1, <1>3
    <2> QED BY <2>1
  <1>4. ASSUME \A b \in Actors : f[b] = 0 PROVE L = {}
    BY <1>2, <1>4
  <1>5. IsFiniteSet(L) => /\ Cardinality(L) \in Nat
                          /\ Cardinality(L) = 0 <=> \A b \in Actors : f[b] = 0
    BY <1>3, <1>4, NoElements
  <1> QED BY <1>5 DEF L

\* The only reference in locals is that of a.
LEMMA OneLocal ==
    ASSUME NEW f, f \in [Actors -> Nat], NEW a \in Actors, f[a] # 0
    PROVE  LET L == UNION {{b} \X (1 .. f[b]) : b \in Actors}
           IN  IsFiniteSet(L) /\ Cardinality(L) = 1
                  => \A b \in Actors : b # a => f[b] = 0
  <1> DEFINE L == UNION {{b} \X (1 .. f[b]) : b \in Actors}
  <1>1. \A b \in Actors : f[b] # 0 => <<b, 1>> \in L
    OBVIOUS
  <1> HIDE DEF L
  <1>2. ASSUME IsFiniteSet(L), Cardinality(L) = 1, NEW b \in Actors, f[b] # 0 PROVE b = a
    <2>1. PICK x : L = {x}
      BY <1>2, FS_Singleton
    <2>2. <<a, 1>> = <<b, 1>>
      BY <1>1, <1>2, <2>1
    <2> QED BY <2>2
  <1>3. IsFiniteSet(L) /\ Cardinality(L) = 1 => \A b \in Actors : b # a => f[b] = 0
    BY <1>2
  <1> QED BY <1>3 DEF L

LEMMA NoneAt ==
    ASSUME NEW p, NEW ls
    PROVE  LET A == {b \in Actors : p[b] \in ls}
           IN  Cardinality(A) \in Nat /\ (Cardinality(A) = 0 <=> \A b \in Actors : p[b] \notin ls)
  <1> DEFINE A == {b \in Actors : p[b] \in ls}
  <1>1. IsFiniteSet(A)
    BY SubActors
  <1>2. A = {} <=> \A b \in Actors : p[b] \notin ls
    OBVIOUS
  <1> HIDE DEF A
  <1>3. Cardinality(A) \in Nat /\ (Cardinality(A) = 0 <=> \A b \in Actors : p[b] \notin ls)
    BY <1>1, <1>2, NoElements
  <1> QED BY <1>3 DEF A

LEMMA NoneClearing ==
    ASSUME NEW p, NEW g, NEW k
    PROVE  LET A == {b \in Actors : p[b] = "dec_referent" /\ g[b] = k}
           IN  /\ Cardinality(A) \in Nat
               /\ Cardinality(A) = 0
                     <=> \A b \in Actors : ~(p[b] = "dec_referent" /\ g[b] = k)
  <1> DEFINE A == {b \in Actors : p[b] = "dec_referent" /\ g[b] = k}
  <1>1. IsFiniteSet(A)
    BY SubActors
  <1>2. A = {} <=> \A b \in Actors : ~(p[b] = "dec_referent" /\ g[b] = k)
    OBVIOUS
  <1> HIDE DEF A
  <1>3. /\ Cardinality(A) \in Nat
        /\ Cardinality(A) = 0 <=> \A b \in Actors : ~(p[b] = "dec_referent" /\ g[b] = k)
    BY <1>1, <1>2, NoElements
  <1> QED BY <1>3 DEF A

-----------------------------------------------------------------------------
(* The header operations, on any header.                                   *)

\* What Add() gives, field by field.
LEMMA AddFields ==
    ASSUME NEW h \in Header, NEW s, NEW w, NEW r
    PROVE  /\ Add(h, s, w, r).strong = h.strong + s
           /\ Add(h, s, w, r).weak = IF h.weak = kMaxWeakRC THEN h.weak ELSE h.weak + w
           /\ Add(h, s, w, r).resurrect
                 = IF h.resurrect = kMaxResurrectWeakRC THEN h.resurrect ELSE h.resurrect + r
           /\ Add(h, s, w, r).collected = h.collected
           /\ Add(h, s, w, r) = [strong |-> Add(h, s, w, r).strong,
                                 resurrect |-> Add(h, s, w, r).resurrect,
                                 weak |-> Add(h, s, w, r).weak,
                                 collected |-> h.collected]
  <1> DEFINE g == Add(h, s, w, r)
  <1>1. h = [strong |-> h.strong, resurrect |-> h.resurrect, weak |-> h.weak,
             collected |-> h.collected]
    BY DEF Header
  <1>2. g = [h EXCEPT !.strong = h.strong + s,
                      !.weak = IF h.weak = kMaxWeakRC THEN h.weak ELSE h.weak + w,
                      !.resurrect = IF h.resurrect = kMaxResurrectWeakRC THEN h.resurrect
                                    ELSE h.resurrect + r]
    BY DEF Add
  <1>3. g = [strong |-> h.strong + s,
             resurrect |-> IF h.resurrect = kMaxResurrectWeakRC THEN h.resurrect
                           ELSE h.resurrect + r,
             weak |-> IF h.weak = kMaxWeakRC THEN h.weak ELSE h.weak + w,
             collected |-> h.collected]
    BY <1>1, <1>2
  <1> HIDE DEF g
  <1>4. /\ g.strong = h.strong + s
        /\ g.weak = IF h.weak = kMaxWeakRC THEN h.weak ELSE h.weak + w
        /\ g.resurrect = IF h.resurrect = kMaxResurrectWeakRC THEN h.resurrect ELSE h.resurrect + r
        /\ g.collected = h.collected
    BY <1>3
  <1>5. g = [strong |-> g.strong, resurrect |-> g.resurrect, weak |-> g.weak,
             collected |-> h.collected]
    BY <1>3, <1>4
  <1> QED BY <1>4, <1>5 DEF g

\* An update keeps the counts exact that are not sticky, and within their limits.
LEMMA UpdateCounted ==
    ASSUME NEW h \in Header, NEW s \in {-1, 0, 1}, NEW w \in {-1, 0, 1}, NEW r \in {-1, 0, 1},
           NEW S \in Nat, NEW R \in Nat, NEW W \in Nat, Counted(h, S, R, W),
           S + s \in Nat, R + r \in Nat, W + w \in Nat, h.strong < kRCBitsMsb
    PROVE  Add(h, s, w, r) \in Header /\ Counted(Add(h, s, w, r), S + s, R + r, W + w)
  <1> DEFINE g == Add(h, s, w, r)
  <1>1. /\ h.strong \in 0 .. kRCBitsMsb /\ h.resurrect \in 0 .. kMaxResurrectWeakRC
        /\ h.weak \in 0 .. kMaxWeakRC /\ h.collected \in BOOLEAN
    BY DEF Header
  <1>2. /\ g.strong = h.strong + s
        /\ g.weak = IF h.weak = kMaxWeakRC THEN h.weak ELSE h.weak + w
        /\ g.resurrect = IF h.resurrect = kMaxResurrectWeakRC THEN h.resurrect ELSE h.resurrect + r
        /\ g = [strong |-> g.strong, resurrect |-> g.resurrect, weak |-> g.weak,
                collected |-> h.collected]
    BY AddFields
  <1> HIDE DEF g
  <1>3. h.strong = S
    BY DEF Counted
  <1>4. g.strong \in 0 .. kRCBitsMsb
    BY <1>1, <1>2, <1>3, RefCountAssumption
  <1>5. g.resurrect \in 0 .. kMaxResurrectWeakRC
                /\ (g.resurrect < kMaxResurrectWeakRC => g.resurrect = R + r)
    BY <1>1, <1>2, RefCountAssumption DEF Counted
  <1>6. g.weak \in 0 .. kMaxWeakRC /\ (g.weak < kMaxWeakRC => g.weak = W + w)
    BY <1>1, <1>2, RefCountAssumption DEF Counted
  <1>7. g \in Header
    BY <1>1, <1>2, <1>4, <1>5, <1>6 DEF Header
  <1>8. Counted(g, S + s, R + r, W + w)
    BY <1>2, <1>3, <1>5, <1>6 DEF Counted
  <1> QED BY <1>7, <1>8 DEF g

\* AtomicUpdateRC() keeps the counts exact.
LEMMA AtomicUpdateCounted ==
    ASSUME header \in Header,
           NEW s \in {-1, 0, 1}, NEW w \in {-1, 0, 1}, NEW r \in {-1, 0, 1},
           NEW S \in Nat, NEW R \in Nat, NEW W \in Nat, Counted(header, S, R, W),
           S + s \in Nat, R + r \in Nat, W + w \in Nat
    PROVE  /\ AtomicUpdateRC(s, w, r) \in Header
           /\ Counted(AtomicUpdateRC(s, w, r), S + s, R + r, W + w)
           /\ AtomicUpdateRC(s, w, r).collected = header.collected
  <1>1. header.strong \in 0 .. kRCBitsMsb
    BY DEF Header
  <1>2. CASE header.strong < kRCBitsMsb
    <2>1. AtomicUpdateRC(s, w, r) = Add(header, s, w, r)
      BY <1>1, <1>2, RefCountAssumption DEF AtomicUpdateRC, SkipRC
    <2>2. Add(header, s, w, r).collected = header.collected
      BY AddFields
    <2>3. Add(header, s, w, r) \in Header /\ Counted(Add(header, s, w, r), S + s, R + r, W + w)
      BY <1>2, UpdateCounted, ZenonT(40)
    <2> QED BY <2>1, <2>2, <2>3
  <1>3. CASE ~(header.strong < kRCBitsMsb)
    <2>1. AtomicUpdateRC(s, w, r) = header
      BY <1>1, <1>3, RefCountAssumption DEF AtomicUpdateRC, SkipRC
    <2>2. Counted(header, S + s, R + r, W + w)
      BY <1>3 DEF Counted
    <2> QED BY <2>1, <2>2
  <1> QED BY <1>2, <1>3

\* AtomicDecRCAndCheckRelease() keeps the counts exact, and goes on to release the
\* object only when there are no references that can reach it any more.
LEMMA DecEffect ==
    ASSUME header \in Header, NEW a \in Actors,
           NEW s \in {-1, 0}, NEW w \in {-1, 0}, NEW r \in {-1, 0},
           NEW next, next \notin {"release", "collected"},
           NEW S \in Nat, NEW R \in Nat, NEW W \in Nat, Counted(header, S, R, W),
           S + s \in Nat, R + r \in Nat, W + w \in Nat, Dec(a, s, w, r, next)
    PROVE  /\ header' \in Header
           /\ Counted(header', S + s, R + r, W + w)
           /\ \E l \in {next, "release", "collected"} :
                 /\ Step(a, l, arg[a], next)
                 /\ header'.collected <=> header.collected \/ l = "collected"
                 /\ l = "release" => /\ S + s = 0 /\ R + r = 0
                                     /\ W + w = IF header.collected THEN 0 ELSE 1
                 /\ l = "collected" => /\ S + s = 0 /\ R + r = 0
                                       /\ ~header.collected
  <1>1. header.strong \in 0 .. kRCBitsMsb /\ header.collected \in BOOLEAN
    BY DEF Header
  <1>2. CASE ~(header.strong < kRCBitsMsb)
    <2>1. SkipRC(header)
      BY <1>1, <1>2, RefCountAssumption DEF SkipRC
    <2>2. header' = header /\ Step(a, next, arg[a], next)
      BY <2>1 DEF Dec
    <2>3. Counted(header, S + s, R + r, W + w)
      BY <1>2 DEF Counted
    <2> QED BY <2>2, <2>3
  <1>3. CASE header.strong < kRCBitsMsb
    <2> DEFINE h == Add(header, s, w, r)
               todo == ReleaseState(h)
    <2>1. ~SkipRC(header)
      BY <1>1, <1>3, RefCountAssumption DEF SkipRC
    <2>2. /\ header' = [h EXCEPT !.collected = h.collected \/ todo = "collected"]
          /\ Step(a, IF todo = "keep" THEN next ELSE todo, arg[a], next)
      BY <2>1 DEF Dec
    <2>3. h \in Header /\ Counted(h, S + s, R + r, W + w) /\ h.collected = header.collected
      BY <1>3, UpdateCounted, AddFields
    <2>4. todo \in {"keep", "release", "collected"}
      BY DEF ReleaseState
    <2>5. /\ h.strong \in Nat /\ h.resurrect \in Nat /\ h.weak \in Nat /\ h.collected \in BOOLEAN
      BY <2>3, RefCountAssumption DEF Header
    <2>6. todo = "release" => /\ h.strong = 0 /\ h.resurrect = 0
                              /\ h.weak = IF h.collected THEN 0 ELSE 1
      BY <2>5 DEF ReleaseState, TotalRC
    <2>7. todo = "collected" => ~h.collected /\ h.strong = 0 /\ h.resurrect = 0
      BY <2>5 DEF ReleaseState, TotalRC
    <2> HIDE DEF h, todo
    <2>8. h.strong = 0 /\ h.resurrect = 0 => S + s = 0 /\ R + r = 0
      BY <2>3, RefCountAssumption DEF Counted
    <2>9. h.strong = 0 /\ h.weak \in {0, 1} => W + w = h.weak
      BY <2>3, RefCountAssumption DEF Counted
    <2>10. /\ header' \in Header
           /\ header'.strong = h.strong /\ header'.resurrect = h.resurrect
           /\ header'.weak = h.weak
           /\ header'.collected <=> header.collected \/ todo = "collected"
      BY <2>2, <2>3 DEF Header
    <2>11. Counted(header', S + s, R + r, W + w)
      BY <2>3, <2>10 DEF Counted
    <2>12. todo = "release" => W + w = IF header.collected THEN 0 ELSE 1
      BY <2>3, <2>5, <2>6, <2>9
    <2>13. CASE todo = "keep"
      BY <2>2, <2>10, <2>11, <2>13
    <2>14. CASE todo # "keep"
      <3>1. /\ Step(a, todo, arg[a], next)
            /\ header'.collected <=> header.collected \/ todo = "collected"
            /\ todo = "release" => /\ S + s = 0 /\ R + r = 0
                                   /\ W + w = IF header.collected THEN 0 ELSE 1
            /\ todo = "collected" => S + s = 0 /\ R + r = 0 /\ ~header.collected
        BY <2>2, <2>3, <2>6, <2>7, <2>8, <2>10, <2>12, <2>14
      <3> QED BY <2>4, <2>10, <2>11, <2>14, <3>1
    <2> QED BY <2>13, <2>14
  <1> QED BY <1>2, <1>3

-----------------------------------------------------------------------------
(* The parts of the counts, in a state and after a step.                   *)

\* What StrongRefs and ReferentRefs() are made of.
LEMMA CountParts ==
    ASSUME TypeOK, IsFiniteSet(Locals)
    PROVE  Sums /\ Zeros
  <1>1. InLocals \in Nat /\ (InLocals = 0 <=> \A b \in Actors : held[b] = 0)
    BY NoLocals DEF TypeOK, InLocals, Locals
  <1>2. At(Owned) \in Nat /\ (At(Owned) = 0 <=> \A b \in Actors : pc[b] \notin Owned)
    BY NoneAt DEF At
  <1>3. ASSUME NEW k \in Referents
        PROVE  /\ Clearing(k) \in Nat
               /\ Clearing(k) = 0 <=> \A b \in Actors : ~(pc[b] = "dec_referent" /\ arg[b] = k)
    BY NoneClearing DEF Clearing
  <1>4. \A k \in Referents : ReferentRefs(k) = B2N(slot[k] # "null") + Clearing(k)
    BY DEF ReferentRefs, Clearing
  <1>5. Owned = {"write_obj", "dec_old", "write_referent", "push_finalizable"}
    BY DEF Owned, Ops
  <1>6. StrongRefs = InLocals + B2N(slot["field"] # "null") + At(Owned)
                        + B2N(queued) + B2N(InFinalizer)
    BY <1>5 DEF StrongRefs
  <1> QED BY <1>1, <1>2, <1>3, <1>4, <1>6 DEF Sums, Zeros, OwnRef, B2N, Referents

\* A thread that goes to another label, with what it has counted.
LEMMA StepEffect ==
    ASSUME TypeOK, NEW a \in Actors, NEW l \in Labels, NEW k \in Slots, NEW next \in Labels,
           Step(a, l, k, next)
    PROVE  Moved(a, l, k, next) /\ Recounted(a, l, k)
  <1> DEFINE m == IF l = "idle" THEN "field" ELSE k
  <1>1. /\ pc \in [Actors -> Labels] /\ arg \in [Actors -> Slots] /\ cont \in [Actors -> Labels]
    BY DEF TypeOK
  <1>2. /\ pc' = [pc EXCEPT ![a] = l] /\ arg' = [arg EXCEPT ![a] = m]
        /\ cont' = [cont EXCEPT ![a] = IF l = "idle" THEN "idle" ELSE next]
    BY DEF Step
  <1>3. m \in Slots /\ "idle" \in Labels
    BY DEF Slots, Labels
  <1>4. l = "dec_referent" => m = k
    OBVIOUS
  <1>5. m = IF l = "idle" THEN "field" ELSE k
    OBVIOUS
  <1> HIDE DEF m
  <1>6. /\ pc'[a] = l /\ arg'[a] = m
        /\ cont'[a] = (IF l = "idle" THEN "idle" ELSE next)
        /\ \A b \in Actors : b # a => pc'[b] = pc[b] /\ arg'[b] = arg[b] /\ cont'[b] = cont[b]
    BY <1>1, <1>2
  <1>7. At(Owned)' = At(Owned) + B2N(l \in Owned) - B2N(pc[a] \in Owned)
    <2>1. Cardinality({b \in Actors : pc'[b] \in Owned})
             = Cardinality({b \in Actors : pc[b] \in Owned})
                  + B2N(pc'[a] \in Owned) - B2N(pc[a] \in Owned)
      BY <1>6, AtStep
    <2>2. At(Owned)' = At(Owned) + B2N(pc'[a] \in Owned) - B2N(pc[a] \in Owned)
      BY <2>1 DEF At, Owned, Ops
    <2> QED BY <1>6, <2>2
  <1>8. ASSUME NEW j
        PROVE  Clearing(j)' = Clearing(j) + B2N(l = "dec_referent" /\ k = j)
                                  - B2N(pc[a] = "dec_referent" /\ arg[a] = j)
    <2> DEFINE A == {b \in Actors : pc[b] = "dec_referent" /\ arg[b] = j}
               B == {b \in Actors : pc'[b] = "dec_referent" /\ arg'[b] = j}
    <2>1. IsFiniteSet(A)
      BY SubActors
    <2>2. \A b : b # a => (b \in A <=> b \in B)
      BY <1>6
    <2>3. /\ a \in A <=> pc[a] = "dec_referent" /\ arg[a] = j
          /\ a \in B <=> l = "dec_referent" /\ k = j
      BY <1>4, <1>6
    <2>4. Clearing(j) = Cardinality(A) /\ Clearing(j)' = Cardinality(B)
      BY DEF Clearing
    <2> HIDE DEF A, B
    <2>5. Cardinality(B) = Cardinality(A) + B2N(a \in B) - B2N(a \in A)
      BY <2>1, <2>2, Differ
    <2> QED BY <2>3, <2>4, <2>5 DEF B2N
  <1>9. /\ pc' \in [Actors -> Labels] /\ arg' \in [Actors -> Slots]
         /\ cont' \in [Actors -> Labels]
    BY <1>1, <1>2, <1>3
  <1> QED BY <1>5, <1>6, <1>7, <1>8, <1>9 DEF Moved, Recounted

\* Locals that do not change, gain a reference or lose one.
LEMMA LocalsEffect ==
    ASSUME held \in [Actors -> Nat], held' \in [Actors -> Nat], IsFiniteSet(Locals)
    PROVE  /\ held' = held => IsFiniteSet(Locals') /\ InLocals' = InLocals
           /\ \A a \in Actors :
                 held' = [held EXCEPT ![a] = @ + 1]
                    => IsFiniteSet(Locals') /\ InLocals' = InLocals + 1
           /\ \A a \in Actors :
                 held[a] > 0 /\ held' = [held EXCEPT ![a] = @ - 1]
                    => IsFiniteSet(Locals') /\ InLocals' = InLocals - 1
  <1>1. ASSUME held' = held PROVE IsFiniteSet(Locals') /\ InLocals' = InLocals
    BY <1>1 DEF Locals, InLocals
  <1>2. ASSUME NEW a \in Actors, held' = [held EXCEPT ![a] = @ + 1]
        PROVE  IsFiniteSet(Locals') /\ InLocals' = InLocals + 1
    <2>1. held' = [held EXCEPT ![a] = held[a] + 1]
      BY <1>2
    <2> QED BY <2>1, LocalsStep DEF Locals, InLocals
  <1>3. ASSUME NEW a \in Actors, held[a] > 0, held' = [held EXCEPT ![a] = @ - 1]
        PROVE  IsFiniteSet(Locals') /\ InLocals' = InLocals - 1
    <2> DEFINE g == [held' EXCEPT ![a] = held'[a] + 1]
    <2>1. held'[a] + 1 = held[a]
      BY <1>3
    <2>2. g \in [Actors -> Nat] /\ \A b \in Actors : g[b] = held[b]
      BY <1>3, <2>1
    <2> HIDE DEF g
    <2>3. g = held
      BY <2>2
    <2>4. held = [held' EXCEPT ![a] = held'[a] + 1]
      BY <2>3 DEF g
    <2>5. /\ IsFiniteSet(Locals) <=> IsFiniteSet(Locals')
          /\ IsFiniteSet(Locals') => InLocals' \in Nat /\ InLocals = InLocals' + 1
      BY <2>4, LocalsStep DEF Locals, InLocals
    <2> QED BY <2>5
  <1> QED BY <1>1, <1>2, <1>3

\* The same in the next state.
LEMMA NextParts ==
    ASSUME held' \in [Actors -> Nat], IsFiniteSet(Locals')
    PROVE  Sums' /\ Zeros'
  <1>1. InLocals' \in Nat /\ (InLocals' = 0 <=> \A b \in Actors : held'[b] = 0)
    BY NoLocals DEF InLocals, Locals
  <1>2. At(Owned)' \in Nat /\ (At(Owned)' = 0 <=> \A b \in Actors : pc'[b] \notin Owned)
    BY NoneAt DEF At, Owned, Ops
  <1>3. ASSUME NEW k \in Referents
        PROVE  /\ Clearing(k)' \in Nat
               /\ Clearing(k)' = 0
                     <=> \A b \in Actors : ~(pc'[b] = "dec_referent" /\ arg'[b] = k)
    BY NoneClearing DEF Clearing
  <1>4. \A k \in Referents : ReferentRefs(k)' = B2N(slot'[k] # "null") + Clearing(k)'
    BY DEF ReferentRefs, Clearing
  <1>5. Owned = {"write_obj", "dec_old", "write_referent", "push_finalizable"}
    BY DEF Owned, Ops
  <1>6. StrongRefs' = InLocals' + B2N(slot'["field"] # "null") + At(Owned)'
                         + B2N(queued') + B2N(InFinalizer')
    BY <1>5 DEF StrongRefs, Owned, Ops
  <1> QED BY <1>1, <1>2, <1>3, <1>4, <1>6 DEF Sums, Zeros, OwnRef, B2N, Referents

-----------------------------------------------------------------------------
(* What the proofs of the steps start from, and come to.                   *)

LEMMA IInvFacts == IInv => Facts /\ Bits
  <1> SUFFICES ASSUME IInv PROVE Facts /\ Bits
    OBVIOUS
  <1>1. Facts
    BY RefCountAssumption DEF IInv, TypeOK, Header, Actors, Facts
  <1>2. Bits
    BY Zenon DEF IInv, TypeOK, Bits
  <1> QED BY <1>1, <1>2

\* AtomicUpdateRC() by one thread, as long as the object is not released.
LEMMA UpdateStep ==
    ASSUME IInv, freed = 0, ~Releasing,
           NEW s \in {-1, 0, 1}, NEW w \in {-1, 0, 1}, NEW r \in {-1, 0, 1},
           CanAdd(s, w, r),
           header' = AtomicUpdateRC(s, w, r)
    PROVE  CountedNext(s, w, r) /\ header'.collected = header.collected
  <1> DEFINE S == StrongRefs
             R == ReferentRefs("weak")
             W == ReferentRefs("phantom") + OwnRef
  <1>1. S \in Nat /\ R \in Nat /\ W \in Nat
    BY CountParts DEF IInv, Sums, B2N
  <1>2. S + s \in Nat /\ R + r \in Nat /\ W + w \in Nat
    BY DEF CanAdd
  <1>3. Counted(header, S, R, W) /\ header \in Header
    BY DEF IInv, TypeOK, Header, CountInv
  <1>4. s \in {-1, 0, 1} /\ w \in {-1, 0, 1} /\ r \in {-1, 0, 1}
    OBVIOUS
  <1> HIDE DEF S, R, W
  <1>5. /\ AtomicUpdateRC(s, w, r) \in Header
        /\ Counted(AtomicUpdateRC(s, w, r), S + s, R + r, W + w)
        /\ AtomicUpdateRC(s, w, r).collected = header.collected
    BY ONLY <1>1, <1>2, <1>3, <1>4, AtomicUpdateCounted, ZenonT(60)
  <1> QED BY <1>5 DEF S, R, W, CountedNext

\* AtomicDecRCAndCheckRelease() by a thread.
LEMMA DecStep ==
    ASSUME IInv, freed = 0, ~Releasing, NEW a \in Actors,
           NEW s \in {-1, 0}, NEW w \in {-1, 0}, NEW r \in {-1, 0},
           NEW next, next \notin {"release", "collected"},
           CanAdd(s, w, r),
           Dec(a, s, w, r, next)
    PROVE  /\ CountedNext(s, w, r)
           /\ \E l \in {next, "release", "collected"} : Decided(a, l, s, w, r, next)
  <1> DEFINE S == StrongRefs
             R == ReferentRefs("weak")
             W == ReferentRefs("phantom") + OwnRef
  <1>1. S \in Nat /\ R \in Nat /\ W \in Nat
    BY CountParts DEF IInv, Sums, B2N
  <1>2. S + s \in Nat /\ R + r \in Nat /\ W + w \in Nat
    BY DEF CanAdd
  <1>3. Counted(header, S, R, W) /\ header \in Header
    BY DEF IInv, TypeOK, Header, CountInv
  <1>4. /\ a \in Actors /\ Dec(a, s, w, r, next) /\ next \notin {"release", "collected"}
        /\ s \in {-1, 0} /\ w \in {-1, 0} /\ r \in {-1, 0}
    OBVIOUS
  <1> HIDE DEF S, R, W
  <1>5. /\ header' \in Header
        /\ Counted(header', S + s, R + r, W + w)
        /\ \E l \in {next, "release", "collected"} :
              /\ Step(a, l, arg[a], next)
              /\ header'.collected <=> header.collected \/ l = "collected"
              /\ l = "release" => /\ S + s = 0 /\ R + r = 0
                                  /\ W + w = IF header.collected THEN 0 ELSE 1
              /\ l = "collected" => S + s = 0 /\ R + r = 0 /\ ~header.collected
    BY ONLY <1>1, <1>2, <1>3, <1>4, DecEffect, SMTT(40)
  <1>6. CountedNext(s, w, r)
    BY <1>5 DEF S, R, W, CountedNext
  <1>7. PICK l \in {next, "release", "collected"} :
              /\ Step(a, l, arg[a], next)
              /\ header'.collected <=> header.collected \/ l = "collected"
              /\ l = "release" => /\ S + s = 0 /\ R + r = 0
                                  /\ W + w = IF header.collected THEN 0 ELSE 1
              /\ l = "collected" => S + s = 0 /\ R + r = 0 /\ ~header.collected
    BY <1>5
  <1>8. /\ header.collected => header'.collected
        /\ header'.collected => header.collected \/ l = "collected"
        /\ l = "collected" => ~header.collected /\ header'.collected
    BY <1>7, Zenon
  <1>9. Decided(a, l, s, w, r, next)
    BY <1>7, <1>8 DEF S, R, W, Decided
  <1> QED BY <1>6, <1>9

\* After an operation the header has what there is.
LEMMA CountsKept ==
    ASSUME NEW s, NEW w, NEW r, Balanced(s, w, r), CountedNext(s, w, r)
    PROVE  CountInv'
  BY DEF Balanced, CountedNext, CountInv

\* When a count down leaves something to be done, nothing is left: the counts say
\* so, and they are exact in what they say then.
LEMMA NothingLeftStep ==
    ASSUME IInv, NEW a \in Actors, NEW l \in {"release", "collected"}, NEW next,
           NEW s, NEW w, NEW r,
           Decided(a, l, s, w, r, next), Moved(a, l, arg[a], next), Balanced(s, w, r),
           Sums', Zeros'
    PROVE  NothingLeft' /\ (l = "release" => Gone')
  <1>1. /\ ~queued' /\ ~InFinalizer' /\ slot'["weak"] = "null" /\ slot'["field"] = "null"
        /\ \A b \in Actors : held'[b] = 0 /\ pc'[b] \notin Owned
        /\ \A b \in Actors : ~(pc'[b] = "dec_referent" /\ arg'[b] = "weak")
    <2>1. StrongRefs' = 0 /\ ReferentRefs("weak")' = 0
      BY DEF Decided, Balanced
    <2>2. /\ B2N(slot'["field"] # "null") \in {0, 1} /\ B2N(queued') \in {0, 1}
          /\ B2N(InFinalizer') \in {0, 1} /\ B2N(slot'["weak"] # "null") \in {0, 1}
      BY DEF B2N
    <2>3. /\ InLocals' = 0 /\ At(Owned)' = 0 /\ B2N(slot'["field"] # "null") = 0
          /\ B2N(queued') = 0 /\ B2N(InFinalizer') = 0
      BY <2>1, <2>2 DEF Sums
    <2>4. Clearing("weak")' = 0 /\ B2N(slot'["weak"] # "null") = 0
      BY <2>1, <2>2 DEF Sums
    <2> QED BY <2>3, <2>4 DEF B2N, Zeros
  <1>2. NoMutator'
    BY <1>1 DEF NoMutator, Owned, Actors
  <1>3. ASSUME l = "release" PROVE Gone'
    <2>1. OwnRef' = IF header'.collected THEN OwnRef' ELSE 1
      BY DEF OwnRef, B2N
    <2>2. ReferentRefs("phantom")' + OwnRef' = IF header.collected THEN 0 ELSE 1
      BY <1>3 DEF Decided, Balanced
    <2>3. header.collected <=> header'.collected
      BY <1>3, Zenon DEF Decided
    <2>4. B2N(slot'["phantom"] # "null") \in {0, 1}
      BY DEF B2N
    <2>5. Clearing("phantom")' = 0 /\ B2N(slot'["phantom"] # "null") = 0
      BY <2>1, <2>2, <2>3, <2>4 DEF Sums
    <2>6. slot'["phantom"] = "null" /\ \A j \in Slots : slot'[j] = "null"
      BY <1>1, <2>5 DEF B2N, Slots, Referents
    <2>7. \A b \in Actors : pc'[b] = "dec_referent" => arg'[b] \in Referents
      BY <1>3 DEF Moved, IInv, MutatorInv
    <2> QED BY <1>1, <2>5, <2>6, <2>7 DEF Gone, Zeros, Referents
  <1> QED BY <1>1, <1>2, <1>3 DEF NothingLeft

-----------------------------------------------------------------------------
(* One lemma per action, or per case of it.  Its first steps say what the   *)
(* action does to the labels, to the header and to the counts; then comes   *)
(* one step per part of IInv.                                               *)

\* Release(), when the object is to be finalized.
LEMMA ReleaseFinalizable ==
    ASSUME IInv, NEW a \in Actors, Release(a), IsObjResurrectable
    PROVE  IInv'
  <1>1. Facts /\ a \in Actors
    BY IInvFacts DEF Actors
  <1>2. Bits
    BY IInvFacts
  <1>3. /\ pc[a] = "release" /\ finalizable /\ ~enqueued
        /\ header' = header /\ finalizable' = finalizable /\ enqueued' = enqueued
        /\ queued' = queued /\ slot' = slot /\ active' = active /\ held' = held
        /\ ran' = ran /\ freed' = freed
        /\ Step(a, "add_finalizable", arg[a], cont[a])
    BY DEF Release, IsObjResurrectable, Goto
  <1>4. IsFiniteSet(Locals') /\ held' \in [Actors -> Nat] /\ InLocals' = InLocals
    <2>1. held' \in [Actors -> Nat]
      BY <1>1, <1>3 DEF Facts
    <2>2. a \in Actors /\ held \in [Actors -> Nat] /\ IsFiniteSet(Locals)
      BY <1>1 DEF Facts
    <2>3. held' = held
      BY <1>3
    <2> QED BY <2>1, <2>2, <2>3, LocalsEffect
  <1>5. Sums /\ Zeros
    BY <1>1, CountParts DEF IInv, Facts
  <1>6. Sums' /\ Zeros'
    BY <1>4, NextParts
  <1>7. Moved(a, "add_finalizable", arg[a], cont[a]) /\ Recounted(a, "add_finalizable", arg[a])
    <2>1. "add_finalizable" \in Labels /\ arg[a] \in Slots /\ cont[a] \in Labels
      BY <1>1, <1>3 DEF Labels, Slots, Referents, Facts
    <2> QED BY <2>1, <1>1, <1>3, StepEffect DEF IInv
  <1>8. StrongRefs' = StrongRefs
    BY <1>1, <1>3, <1>4, <1>5, <1>6, <1>7 DEF B2N, InFinalizer, Owned, Ops, RpInv, FinalInv,
       Finalizing, MutatorInv, Facts, Sums, Moved, Recounted
  <1>9. ReferentRefs("weak")' = ReferentRefs("weak")
    BY <1>1, <1>3, <1>5, <1>6, <1>7 DEF B2N, MutatorInv, Slots, Referents, Facts, Sums, Moved,
       Recounted
  <1>10. ReferentRefs("phantom")' = ReferentRefs("phantom")
    BY <1>1, <1>3, <1>5, <1>6, <1>7 DEF B2N, MutatorInv, Slots, Referents, Facts, Sums, Moved,
       Recounted
  <1>11. OwnRef' = OwnRef
    BY <1>1, <1>2, <1>3, <1>7 DEF B2N, OwnRef, Facts, Bits, Moved
  <1>12. Bits'
    BY <1>2, <1>3, Zenon DEF Bits
  <1>13. TypeOK'
    BY <1>1, <1>4, <1>12, <1>3, <1>7 DEF TypeOK, Header, Slots, Referents, Facts, Bits, Moved
  <1>14. LockInv'
    BY <1>1, <1>2, <1>3, <1>7 DEF LockInv, Facts, Bits, Moved
  <1>15. MutatorInv'
    <2>1. \A s \in Threads : pc'[s] \in MutatorLabels /\ cont'[s] = "idle"
      BY <1>1, <1>3, <1>7 DEF MutatorInv, MutatorLabels, Facts, Moved
    <2>2. \A b \in Actors : pc'[b] \in {"write_referent", "dec_referent"} => arg'[b] \in Referents
      BY <1>1, <1>3, <1>7 DEF MutatorInv, RpInv, Facts, Moved
    <2>3. \A b, d \in Actors :
             pc'[b] = "write_referent"
                => /\ slot'[arg'[b]] = "null"
                   /\ pc'[d] = "write_referent" /\ arg'[b] = arg'[d] => b = d
      BY <1>1, <1>3, <1>7 DEF MutatorInv, Referents, Slots, Facts, Moved
    <2> QED BY <2>1, <2>2, <2>3 DEF MutatorInv
  <1>16. RpInv'
    BY <1>1, <1>2, <1>3, <1>7 DEF RpInv, Facts, Bits, Moved
  <1>17. FinalInv'
    BY <1>1, <1>2, <1>3, <1>7 DEF FinalInv, Finalizing, InFinalizer, Facts, Bits, Moved
  <1>18. DeadInv'
    BY <1>1, <1>2, <1>3, <1>7 DEF DeadInv, NoMutator, Ops, Facts, Bits, Moved
  <1>19. LastInv'
    <2> SUFFICES ASSUME NEW b \in Actors, pc'[b] \in Last PROVE Alone(b)'
      BY DEF LastInv
    <2>1. CASE b = a
      BY <2>1, <1>1, <1>2, <1>3, <1>7 DEF LastInv, Alone, Last, NoMutator, Gone, InFinalizer, Ops,
         Facts, Bits, Moved
    <2>2. CASE b # a
      BY <2>2, <1>1, <1>2, <1>3, <1>7 DEF LastInv, Alone, Last, NoMutator, Gone, InFinalizer, Ops,
         Facts, Bits, Moved
    <2> QED BY <2>1, <2>2
  <1>20. FreedInv'
    BY <1>1, <1>2, <1>3, <1>7 DEF FreedInv, NoMutator, Gone, Ops, Last, Facts, Bits, Moved
  <1>21. CountInv'
    BY <1>1, <1>3, <1>7, <1>8, <1>9, <1>10, <1>11 DEF CountInv, Releasing, Facts, Moved
  <1> QED BY <1>4, <1>13, <1>14, <1>15, <1>16, <1>17, <1>18, <1>19, <1>20, <1>21 DEF IInv

\* Release(), when the object is freed.
LEMMA ReleaseFrees ==
    ASSUME IInv, NEW a \in Actors, Release(a), ~IsObjResurrectable
    PROVE  IInv'
  <1>1. Facts /\ a \in Actors
    BY IInvFacts DEF Actors
  <1>2. Bits
    BY IInvFacts
  <1>3. PICK l \in {"idle", "drop"} :
           /\ pc[a] = "release" /\ (~finalizable \/ enqueued)
           /\ header' = header /\ finalizable' = finalizable /\ enqueued' = enqueued
           /\ queued' = queued /\ slot' = slot /\ active' = active /\ held' = held
           /\ ran' = ran /\ freed' = freed + 1
           /\ Step(a, l, arg[a], cont[a])
           /\ (a # RP => l = "idle") /\ held[RP] = 0
    BY <1>1 DEF Release, IsObjResurrectable, Goto, MutatorInv, RpInv, LastInv, Alone, Last, Facts
  <1>4. IsFiniteSet(Locals') /\ held' \in [Actors -> Nat] /\ InLocals' = InLocals
    <2>1. held' \in [Actors -> Nat]
      BY <1>1, <1>3 DEF Facts
    <2>2. a \in Actors /\ held \in [Actors -> Nat] /\ IsFiniteSet(Locals)
      BY <1>1 DEF Facts
    <2>3. held' = held
      BY <1>3
    <2> QED BY <2>1, <2>2, <2>3, LocalsEffect
  <1>5. Sums /\ Zeros
    BY <1>1, CountParts DEF IInv, Facts
  <1>6. Sums' /\ Zeros'
    BY <1>4, NextParts
  <1>7. Moved(a, l, arg[a], cont[a]) /\ Recounted(a, l, arg[a])
    <2>1. l \in Labels /\ arg[a] \in Slots /\ cont[a] \in Labels
      BY <1>1, <1>3 DEF Labels, Slots, Referents, Facts
    <2> QED BY <2>1, <1>1, <1>3, StepEffect DEF IInv
  <1>8. StrongRefs' = StrongRefs
    BY <1>1, <1>3, <1>4, <1>5, <1>6, <1>7 DEF B2N, InFinalizer, Owned, Ops, RpInv, FinalInv,
       Finalizing, MutatorInv, Facts, Sums, Moved, Recounted
  <1>9. ReferentRefs("weak")' = ReferentRefs("weak")
    BY <1>1, <1>3, <1>5, <1>6, <1>7 DEF B2N, MutatorInv, Slots, Referents, Facts, Sums, Moved,
       Recounted
  <1>10. ReferentRefs("phantom")' = ReferentRefs("phantom")
    BY <1>1, <1>3, <1>5, <1>6, <1>7 DEF B2N, MutatorInv, Slots, Referents, Facts, Sums, Moved,
       Recounted
  <1>11. OwnRef' = OwnRef
    BY <1>1, <1>2, <1>3, <1>7 DEF B2N, OwnRef, Facts, Bits, Moved
  <1>12. Bits'
    BY <1>2, <1>3, Zenon DEF Bits
  <1>13. TypeOK'
    BY <1>1, <1>4, <1>12, <1>3, <1>7 DEF TypeOK, Header, Slots, Referents, Facts, Bits, Moved
  <1>14. LockInv'
    BY <1>1, <1>2, <1>3, <1>7 DEF LockInv, Facts, Bits, Moved
  <1>15. MutatorInv'
    <2>1. \A s \in Threads : pc'[s] \in MutatorLabels /\ cont'[s] = "idle"
      BY <1>1, <1>3, <1>7 DEF MutatorInv, MutatorLabels, Facts, Moved
    <2>2. \A b \in Actors : pc'[b] \in {"write_referent", "dec_referent"} => arg'[b] \in Referents
      BY <1>1, <1>3, <1>7 DEF MutatorInv, RpInv, Facts, Moved
    <2>3. \A b, d \in Actors :
             pc'[b] = "write_referent"
                => /\ slot'[arg'[b]] = "null"
                   /\ pc'[d] = "write_referent" /\ arg'[b] = arg'[d] => b = d
      BY <1>1, <1>3, <1>7 DEF MutatorInv, Referents, Slots, Facts, Moved
    <2> QED BY <2>1, <2>2, <2>3 DEF MutatorInv
  <1>16. RpInv'
    BY <1>1, <1>2, <1>3, <1>7 DEF RpInv, Facts, Bits, Moved
  <1>17. FinalInv'
    BY <1>1, <1>2, <1>3, <1>7 DEF FinalInv, Finalizing, InFinalizer, Facts, Bits, Moved
  <1>18. DeadInv'
    BY <1>1, <1>2, <1>3, <1>7 DEF DeadInv, NoMutator, Ops, Facts, Bits, Moved
  <1>19. LastInv'
    <2> SUFFICES ASSUME NEW b \in Actors, pc'[b] \in Last PROVE Alone(b)'
      BY DEF LastInv
    <2>1. CASE b = a
      BY <2>1, <1>1, <1>2, <1>3, <1>7 DEF LastInv, Alone, Last, NoMutator, Gone, InFinalizer, Ops,
         Facts, Bits, Moved
    <2>2. CASE b # a
      BY <2>2, <1>1, <1>2, <1>3, <1>7 DEF LastInv, Alone, Last, NoMutator, Gone, InFinalizer, Ops,
         Facts, Bits, Moved
    <2> QED BY <2>1, <2>2
  <1>20. FreedInv'
    <2>1. Alone(a) /\ freed' = 1
      BY <1>1, <1>3 DEF LastInv, Last, Alone, Facts
    <2>2. NoMutator' /\ Gone' /\ ~queued' /\ held'[RP] = 0
      BY <2>1, <1>1, <1>3, <1>7 DEF Alone, NoMutator, Gone, Ops, FinalInv, Facts, Moved
    <2>3. \A b \in Actors : pc[b] \notin {"locked", "unlock", "dec_referent"}
      BY <2>1, <1>1, <1>3 DEF Alone, Gone, LockInv, Facts
    <2>4. ASSUME NEW t \in Threads PROVE pc'[t] \in {"idle", "write_null"}
      <3>1. CASE t = a
        BY <3>1, <1>1, <1>3, <1>7 DEF Facts, Moved
      <3>2. CASE t # a
        <4>1. pc[t] \notin Last /\ pc[t] \notin Ops
          BY <2>1, <3>2, <1>1 DEF Alone, NoMutator, Facts
        <4> QED BY <2>3, <3>2, <4>1, <1>1, <1>7 DEF MutatorInv, MutatorLabels, Last, Ops, Facts,
           Moved
      <3> QED BY <3>1, <3>2
    <2>5. pc'[RP] \in {"idle", "empty", "check", "clear", "drop"}
      <3>1. CASE a = RP
        BY <3>1, <1>1, <1>3, <1>7 DEF Facts, Moved
      <3>2. CASE a # RP
        <4>1. pc[RP] \notin Last /\ ~InFinalizer /\ held[RP] = 0
          BY <2>1, <3>2, <1>1 DEF Alone, Facts
        <4>2. pc[RP] \notin {"process", "write_null", "write_referent"}
          BY <4>1, <1>1 DEF RpInv, Facts
        <4> QED BY <2>3, <3>2, <4>1, <4>2, <1>1, <1>7 DEF Labels, Last, InFinalizer, Facts, Moved
      <3> QED BY <3>1, <3>2
    <2> QED BY <2>1, <2>2, <2>4, <2>5 DEF FreedInv
  <1>21. CountInv'
    BY <1>1, <1>3, <1>7, <1>8, <1>9, <1>10, <1>11 DEF CountInv, Releasing, Facts, Moved
  <1> QED BY <1>4, <1>13, <1>14, <1>15, <1>16, <1>17, <1>18, <1>19, <1>20, <1>21 DEF IInv

\* IncRef().
LEMMA IncRefStep ==
    ASSUME IInv, NEW t \in Threads, IncRef(t)
    PROVE  IInv'
  <1>1. Facts /\ t \in Actors
    BY IInvFacts DEF Actors
  <1>2. Bits
    BY IInvFacts
  <1>3. /\ pc[t] = "idle" /\ held[t] > 0
        /\ finalizable' = finalizable /\ enqueued' = enqueued /\ queued' = queued
        /\ slot' = slot /\ active' = active /\ pc' = pc /\ arg' = arg /\ cont' = cont
        /\ ran' = ran /\ freed' = freed /\ held' = [held EXCEPT ![t] = @ + 1]
        /\ header' = AtomicUpdateRC(1, 0, 0)
    BY DEF IncRef
  <1>4. IsFiniteSet(Locals') /\ held' \in [Actors -> Nat] /\ InLocals' = InLocals + 1
    <2>1. held' \in [Actors -> Nat]
      BY <1>1, <1>3 DEF Facts
    <2>2. t \in Actors /\ held \in [Actors -> Nat] /\ IsFiniteSet(Locals)
      BY <1>1 DEF Facts
    <2>3. held' = [held EXCEPT ![t] = @ + 1]
      BY <1>3
    <2> QED BY <2>1, <2>2, <2>3, LocalsEffect
  <1>5. freed = 0 /\ ~Releasing
    BY <1>1, <1>2, <1>3 DEF Releasing, LockInv, LastInv, Alone, FreedInv, Last, NoMutator, Gone,
       InFinalizer, Ops, MutatorInv, RpInv, Facts, Bits
  <1>6. Sums /\ Zeros
    BY <1>1, CountParts DEF IInv, Facts
  <1>7. Sums' /\ Zeros'
    BY <1>4, NextParts
  <1>8. /\ pc' = pc /\ arg' = arg /\ cont' = cont
    BY <1>3
  <1>9. /\ At(Owned)' = At(Owned) /\ Clearing("weak")' = Clearing("weak")
        /\ Clearing("phantom")' = Clearing("phantom")
    BY <1>3 DEF At, Clearing, Owned, Ops
  <1>10. CanAdd(1, 0, 0)
    BY <1>1, <1>3, <1>6 DEF CanAdd, Owned, Ops, B2N, Facts, Sums, Zeros
  <1>11. CountedNext(1, 0, 0) /\ header'.collected = header.collected
    BY <1>3, <1>5, <1>10, UpdateStep
  <1>12. StrongRefs' = StrongRefs + 1
    BY <1>1, <1>3, <1>4, <1>6, <1>7, <1>8, <1>9 DEF B2N, InFinalizer, Owned, Ops, RpInv, FinalInv,
       Finalizing, MutatorInv, Facts, Sums
  <1>13. ReferentRefs("weak")' = ReferentRefs("weak")
    BY <1>1, <1>3, <1>6, <1>7, <1>8, <1>9 DEF B2N, MutatorInv, Slots, Referents, Facts, Sums
  <1>14. ReferentRefs("phantom")' = ReferentRefs("phantom")
    BY <1>1, <1>3, <1>6, <1>7, <1>8, <1>9 DEF B2N, MutatorInv, Slots, Referents, Facts, Sums
  <1>15. OwnRef' = OwnRef
    BY <1>1, <1>2, <1>3, <1>8, <1>11 DEF B2N, OwnRef, Facts, Bits, CountedNext
  <1>16. Balanced(1, 0, 0)
    <2>1. /\ StrongRefs \in Nat /\ ReferentRefs("weak") \in Nat
          /\ ReferentRefs("phantom") \in Nat /\ OwnRef \in Nat
      BY <1>6 DEF B2N, Sums
    <2> QED BY <2>1, <1>12, <1>13, <1>14, <1>15 DEF Balanced
  <1>17. Bits'
    BY <1>2, <1>3, Zenon DEF Bits
  <1>18. TypeOK'
    BY <1>1, <1>4, <1>17, <1>3, <1>8, <1>11 DEF TypeOK, Header, Slots, Referents, Facts, Bits,
       CountedNext
  <1>19. LockInv'
    BY <1>1, <1>2, <1>3, <1>8, <1>11 DEF LockInv, Facts, Bits, CountedNext
  <1>20. MutatorInv'
    <2>1. \A s \in Threads : pc'[s] \in MutatorLabels /\ cont'[s] = "idle"
      BY <1>1, <1>3, <1>8 DEF MutatorInv, MutatorLabels, Facts
    <2>2. \A b \in Actors : pc'[b] \in {"write_referent", "dec_referent"} => arg'[b] \in Referents
      BY <1>1, <1>3, <1>8 DEF MutatorInv, RpInv, Facts
    <2>3. \A b, d \in Actors :
             pc'[b] = "write_referent"
                => /\ slot'[arg'[b]] = "null"
                   /\ pc'[d] = "write_referent" /\ arg'[b] = arg'[d] => b = d
      BY <1>1, <1>3, <1>8 DEF MutatorInv, Referents, Slots, Facts
    <2> QED BY <2>1, <2>2, <2>3 DEF MutatorInv
  <1>21. RpInv'
    BY <1>1, <1>2, <1>3, <1>8, <1>11 DEF RpInv, Facts, Bits, CountedNext
  <1>22. FinalInv'
    BY <1>1, <1>2, <1>3, <1>8, <1>11 DEF FinalInv, Finalizing, InFinalizer, Facts, Bits,
       CountedNext
  <1>23. DeadInv'
    BY <1>1, <1>2, <1>3, <1>8, <1>11 DEF DeadInv, NoMutator, Ops, Facts, Bits, CountedNext
  <1>24. LastInv'
    BY <1>1, <1>2, <1>3, <1>8, <1>11, <1>5 DEF LastInv, Alone, Last, NoMutator, Gone, InFinalizer,
       Ops, Facts, Bits, CountedNext
  <1>25. FreedInv'
    BY <1>1, <1>2, <1>3, <1>8, <1>11, <1>5 DEF FreedInv, NoMutator, Gone, Ops, Last, Facts, Bits,
       CountedNext
  <1>26. CountInv'
    BY <1>11, <1>16, CountsKept
  <1> QED BY <1>4, <1>18, <1>19, <1>20, <1>21, <1>22, <1>23, <1>24, <1>25, <1>26 DEF IInv

\* DecRef().
LEMMA DecRefStep ==
    ASSUME IInv, NEW t \in Threads, DecRef(t)
    PROVE  IInv'
  <1>1. Facts /\ t \in Actors
    BY IInvFacts DEF Actors
  <1>2. Bits
    BY IInvFacts
  <1>3. /\ pc[t] = "idle" /\ held[t] > 0
        /\ finalizable' = finalizable /\ enqueued' = enqueued /\ queued' = queued
        /\ slot' = slot /\ active' = active /\ ran' = ran /\ freed' = freed
        /\ held' = [held EXCEPT ![t] = @ - 1]
        /\ Dec(t, -1, 0, 0, "idle")
    BY DEF DecRef
  <1>4. IsFiniteSet(Locals') /\ held' \in [Actors -> Nat] /\ InLocals' = InLocals - 1
    <2>1. held' \in [Actors -> Nat]
      BY <1>1, <1>3 DEF Facts
    <2>2. t \in Actors /\ held \in [Actors -> Nat] /\ IsFiniteSet(Locals)
      BY <1>1 DEF Facts
    <2>3. held[t] > 0 /\ held' = [held EXCEPT ![t] = @ - 1]
      BY <1>3
    <2> QED BY <2>1, <2>2, <2>3, LocalsEffect
  <1>5. freed = 0 /\ ~Releasing
    BY <1>1, <1>2, <1>3 DEF Releasing, LockInv, LastInv, Alone, FreedInv, Last, NoMutator, Gone,
       InFinalizer, Ops, MutatorInv, RpInv, Facts, Bits
  <1>6. Sums /\ Zeros
    BY <1>1, CountParts DEF IInv, Facts
  <1>7. Sums' /\ Zeros'
    BY <1>4, NextParts
  <1>8. CanAdd(-1, 0, 0)
    BY <1>1, <1>3, <1>6 DEF CanAdd, OwnRef, B2N, InFinalizer, Owned, Ops, Referents, Facts, Sums,
       Zeros
  <1>9. /\ CountedNext(-1, 0, 0)
        /\ \E l \in {"idle", "release", "collected"} : Decided(t, l, -1, 0, 0, "idle")
    <2>1. "idle" \notin {"release", "collected"}
      OBVIOUS
    <2>2. t \in Actors /\ Dec(t, -1, 0, 0, "idle")
      BY <1>1, <1>3
    <2> QED BY <2>1, <2>2, <1>5, <1>8, DecStep
  <1>10. PICK l \in {"idle", "release", "collected"} : Decided(t, l, -1, 0, 0, "idle")
    BY <1>9
  <1>11. /\ l \in {"idle", "release", "collected"}
         /\ header.collected => header'.collected
         /\ header'.collected => header.collected \/ l = "collected"
         /\ l = "collected" => ~header.collected /\ header'.collected
    BY <1>10, Zenon DEF Decided
  <1>12. Moved(t, l, arg[t], "idle") /\ Recounted(t, l, arg[t])
    <2>1. l \in Labels /\ arg[t] \in Slots /\ "idle" \in Labels
      BY <1>1, <1>3, <1>10 DEF Labels, Slots, Referents, Facts, Decided
    <2> QED BY <2>1, <1>1, <1>10, StepEffect DEF IInv, Decided
  <1>13. StrongRefs' = StrongRefs - 1
    BY <1>1, <1>3, <1>4, <1>6, <1>7, <1>12, <1>10 DEF B2N, InFinalizer, Owned, Ops, RpInv,
       FinalInv, Finalizing, MutatorInv, Facts, Sums, Moved, Recounted, Decided
  <1>14. ReferentRefs("weak")' = ReferentRefs("weak")
    BY <1>1, <1>3, <1>6, <1>7, <1>12, <1>10 DEF B2N, MutatorInv, Slots, Referents, Facts, Sums,
       Moved, Recounted, Decided
  <1>15. ReferentRefs("phantom")' = ReferentRefs("phantom")
    BY <1>1, <1>3, <1>6, <1>7, <1>12, <1>10 DEF B2N, MutatorInv, Slots, Referents, Facts, Sums,
       Moved, Recounted, Decided
  <1>16. OwnRef' = OwnRef
    <2>1. CASE l = "collected"
      BY <2>1, <1>1, <1>2, <1>3, <1>12, <1>11 DEF B2N, OwnRef, Facts, Bits, Moved
    <2>2. CASE l # "collected"
      <3>1. (\E b \in Actors : pc'[b] \in {"collected", "weak_release"})
               <=> (\E b \in Actors : pc[b] \in {"collected", "weak_release"})
        BY <2>2, <1>1, <1>3, <1>12, <1>11 DEF Facts, Moved
      <3>2. pc'[RP] = "post_finalizable" <=> pc[RP] = "post_finalizable"
        BY <2>2, <1>1, <1>3, <1>12, <1>11 DEF Facts, Moved
      <3>3. (~header'.collected <=> ~header.collected) /\ finalizable' = finalizable
        BY <2>2, <1>3, <1>11, Zenon
      <3> QED BY <3>1, <3>2, <3>3, Zenon DEF B2N, OwnRef
    <2> QED BY <2>1, <2>2
  <1>17. Balanced(-1, 0, 0)
    <2>1. /\ StrongRefs \in Nat /\ ReferentRefs("weak") \in Nat
          /\ ReferentRefs("phantom") \in Nat /\ OwnRef \in Nat
      BY <1>6 DEF B2N, Sums
    <2> QED BY <2>1, <1>13, <1>14, <1>15, <1>16 DEF Balanced
  <1>18. l # "idle" => NothingLeft' /\ (l = "release" => Gone')
    BY <1>1, <1>17, <1>10, <1>12, <1>7, NothingLeftStep
  <1>19. l # "idle" => \A b \in Actors : b # t => pc[b] \notin Last
    BY <1>1, <1>2, <1>3, <1>12, <1>10, <1>18, <1>7 DEF OwnRef, B2N, LastInv, Alone, Last,
       NoMutator, Gone, InFinalizer, Owned, Ops, MutatorInv, Facts, Bits, Moved, Decided,
       NothingLeft, Sums
  <1>20. Bits'
    BY <1>2, <1>3, Zenon DEF Bits
  <1>21. TypeOK'
    BY <1>1, <1>4, <1>20, <1>3, <1>12, <1>11, <1>9 DEF TypeOK, Header, Slots, Referents, Facts,
       Bits, Moved, CountedNext
  <1>22. LockInv'
    BY <1>1, <1>2, <1>3, <1>12, <1>11 DEF LockInv, Facts, Bits, Moved
  <1>23. MutatorInv'
    <2>1. \A s \in Threads : pc'[s] \in MutatorLabels /\ cont'[s] = "idle"
      BY <1>1, <1>3, <1>12, <1>11, <1>10 DEF MutatorInv, MutatorLabels, Facts, Moved
    <2>2. \A b \in Actors : pc'[b] \in {"write_referent", "dec_referent"} => arg'[b] \in Referents
      BY <1>1, <1>3, <1>12, <1>11, <1>10 DEF MutatorInv, RpInv, Facts, Moved
    <2>3. \A b, d \in Actors :
             pc'[b] = "write_referent"
                => /\ slot'[arg'[b]] = "null"
                   /\ pc'[d] = "write_referent" /\ arg'[b] = arg'[d] => b = d
      BY <1>1, <1>3, <1>12, <1>11, <1>10 DEF MutatorInv, Referents, Slots, Facts, Moved
    <2> QED BY <2>1, <2>2, <2>3 DEF MutatorInv
  <1>24. RpInv'
    BY <1>1, <1>2, <1>3, <1>12, <1>11 DEF RpInv, Facts, Bits, Moved
  <1>25. FinalInv'
    BY <1>1, <1>2, <1>3, <1>12, <1>11, <1>18 DEF FinalInv, Finalizing, InFinalizer, Facts, Bits,
       Moved, NothingLeft
  <1>26. DeadInv'
    <2>1. CASE l = "collected"
      BY <2>1, <1>3, <1>18, <1>11 DEF DeadInv, NothingLeft
    <2>2. CASE l # "collected"
      <3>1. header'.collected => header.collected
        BY <2>2, <1>11
      <3>2. NoMutator => NoMutator'
        BY <1>1, <1>3, <1>12, <1>11 DEF NoMutator, Ops, Facts, Moved
      <3> QED BY <3>1, <3>2, <1>1, <1>3 DEF DeadInv, Facts
    <2> QED BY <2>1, <2>2
  <1>27. LastInv'
    <2> SUFFICES ASSUME NEW b \in Actors, pc'[b] \in Last PROVE Alone(b)'
      BY DEF LastInv
    <2>1. CASE b = t
      BY <2>1, <1>1, <1>3, <1>12, <1>11, <1>10, <1>5, <1>18, <1>19, <1>25 DEF FinalInv,
         Finalizing, InFinalizer, Alone, Last, Facts, Moved, NothingLeft
    <2>2. CASE b # t
      BY <2>2, <1>1, <1>2, <1>3, <1>12, <1>11, <1>19, <1>5 DEF LastInv, Alone, Last, NoMutator,
         Gone, InFinalizer, Ops, Facts, Bits, Moved
    <2> QED BY <2>1, <2>2
  <1>28. FreedInv'
    BY <1>1, <1>2, <1>3, <1>12, <1>11, <1>18, <1>19, <1>5 DEF FreedInv, NoMutator, Gone, Ops,
       Last, Facts, Bits, Moved, NothingLeft
  <1>29. CountInv'
    BY <1>9, <1>17, CountsKept
  <1> QED BY <1>4, <1>21, <1>22, <1>23, <1>24, <1>25, <1>26, <1>27, <1>28, <1>29 DEF IInv

\* CollectedWeak(), when the object gives up its own weak count.
LEMMA CollectedWeakDec ==
    ASSUME IInv, NEW a \in Actors, CollectedWeak(a), OwnCountDropped
    PROVE  IInv'
  <1>1. Facts /\ a \in Actors
    BY IInvFacts DEF Actors
  <1>2. Bits
    BY IInvFacts
  <1>3. /\ pc[a] = "collected" /\ (~finalizable \/ enqueued)
        /\ cont[a] \in {"idle", "drop"} /\ (a # RP => cont[a] = "idle")
        /\ finalizable' = finalizable /\ enqueued' = enqueued /\ queued' = queued
        /\ slot' = slot /\ active' = active /\ held' = held /\ ran' = ran /\ freed' = freed
        /\ Dec(a, 0, -1, 0, cont[a])
    <2>1. cont[a] \in {"idle", "drop"} /\ (a # RP => cont[a] = "idle")
      BY <1>1 DEF CollectedWeak, MutatorInv, RpInv, Facts
    <2> QED BY <1>1, <2>1 DEF CollectedWeak, OwnCountDropped, IsObjResurrectable, Facts
  <1>4. IsFiniteSet(Locals') /\ held' \in [Actors -> Nat] /\ InLocals' = InLocals
    <2>1. held' \in [Actors -> Nat]
      BY <1>1, <1>3 DEF Facts
    <2>2. a \in Actors /\ held \in [Actors -> Nat] /\ IsFiniteSet(Locals)
      BY <1>1 DEF Facts
    <2>3. held' = held
      BY <1>3
    <2> QED BY <2>1, <2>2, <2>3, LocalsEffect
  <1>5. freed = 0 /\ ~Releasing
    BY <1>1, <1>2, <1>3 DEF Releasing, LockInv, LastInv, Alone, FreedInv, Last, NoMutator, Gone,
       InFinalizer, Ops, MutatorInv, RpInv, Facts, Bits
  <1>6. Sums /\ Zeros
    BY <1>1, CountParts DEF IInv, Facts
  <1>7. Sums' /\ Zeros'
    BY <1>4, NextParts
  <1>8. CanAdd(0, -1, 0)
    BY <1>1, <1>3, <1>6 DEF CanAdd, OwnRef, B2N, InFinalizer, Owned, Ops, Referents, Facts, Sums,
       Zeros
  <1>9. /\ CountedNext(0, -1, 0)
        /\ \E l \in {cont[a], "release", "collected"} : Decided(a, l, 0, -1, 0, cont[a])
    <2>1. cont[a] \notin {"release", "collected"}
      BY <1>3
    <2>2. a \in Actors /\ Dec(a, 0, -1, 0, cont[a])
      BY <1>1, <1>3
    <2> QED BY <2>1, <2>2, <1>5, <1>8, DecStep
  <1>10. PICK l \in {cont[a], "release", "collected"} : Decided(a, l, 0, -1, 0, cont[a])
    BY <1>9
  <1>11. /\ l \in {cont[a], "release", "collected"}
         /\ header.collected => header'.collected
         /\ header'.collected => header.collected \/ l = "collected"
         /\ l = "collected" => ~header.collected /\ header'.collected
    BY <1>10, Zenon DEF Decided
  <1>12. Moved(a, l, arg[a], cont[a]) /\ Recounted(a, l, arg[a])
    <2>1. l \in Labels /\ arg[a] \in Slots /\ cont[a] \in Labels
      BY <1>1, <1>3, <1>10 DEF Labels, Slots, Referents, Facts, Decided
    <2> QED BY <2>1, <1>1, <1>10, StepEffect DEF IInv, Decided
  <1>13. StrongRefs' = StrongRefs
    BY <1>1, <1>3, <1>4, <1>6, <1>7, <1>12, <1>10 DEF B2N, InFinalizer, Owned, Ops, RpInv,
       FinalInv, Finalizing, MutatorInv, Facts, Sums, Moved, Recounted, Decided
  <1>14. ReferentRefs("weak")' = ReferentRefs("weak")
    BY <1>1, <1>3, <1>6, <1>7, <1>12, <1>10 DEF B2N, MutatorInv, Slots, Referents, Facts, Sums,
       Moved, Recounted, Decided
  <1>15. ReferentRefs("phantom")' = ReferentRefs("phantom")
    BY <1>1, <1>3, <1>6, <1>7, <1>12, <1>10 DEF B2N, MutatorInv, Slots, Referents, Facts, Sums,
       Moved, Recounted, Decided
  <1>16. OwnRef' = OwnRef - 1
    <2>1. /\ ~finalizable /\ header.collected /\ ~InFinalizer
          /\ \A b \in Actors : pc[b] \in Last => a = b
      BY <1>1, <1>3 DEF LastInv, Alone, Last, FinalInv, Facts
    <2>2. OwnRef = 1
      BY <1>1, <1>3 DEF OwnRef, B2N, Facts
    <2>3. \A b \in Actors : pc'[b] \notin {"collected", "weak_release"}
      BY <2>1, <1>1, <1>3, <1>12, <1>11 DEF Last, Facts, Moved
    <2>4. pc'[RP] # "post_finalizable"
      BY <2>1, <1>1, <1>3, <1>12, <1>11 DEF InFinalizer, Facts, Moved
    <2>5. OwnRef' = 0
      BY <2>1, <2>3, <2>4, <1>3, <1>11 DEF OwnRef, B2N
    <2> QED BY <2>2, <2>5
  <1>17. Balanced(0, -1, 0)
    <2>1. /\ StrongRefs \in Nat /\ ReferentRefs("weak") \in Nat
          /\ ReferentRefs("phantom") \in Nat /\ OwnRef \in Nat
      BY <1>6 DEF B2N, Sums
    <2> QED BY <2>1, <1>13, <1>14, <1>15, <1>16 DEF Balanced
  <1>18. l # cont[a] => NothingLeft' /\ (l = "release" => Gone')
    BY <1>1, <1>17, <1>10, <1>12, <1>7, NothingLeftStep
  <1>19. l # cont[a] => \A b \in Actors : b # a => pc[b] \notin Last
    BY <1>1, <1>2, <1>3, <1>12, <1>10, <1>18, <1>7 DEF OwnRef, B2N, LastInv, Alone, Last,
       NoMutator, Gone, InFinalizer, Owned, Ops, MutatorInv, Facts, Bits, Moved, Decided,
       NothingLeft, Sums
  <1>20. Bits'
    BY <1>2, <1>3, Zenon DEF Bits
  <1>21. TypeOK'
    BY <1>1, <1>4, <1>20, <1>3, <1>12, <1>11, <1>9 DEF TypeOK, Header, Slots, Referents, Facts,
       Bits, Moved, CountedNext
  <1>22. LockInv'
    BY <1>1, <1>2, <1>3, <1>12, <1>11 DEF LockInv, Facts, Bits, Moved
  <1>23. MutatorInv'
    <2>1. \A s \in Threads : pc'[s] \in MutatorLabels /\ cont'[s] = "idle"
      BY <1>1, <1>3, <1>12, <1>11, <1>10 DEF MutatorInv, MutatorLabels, Facts, Moved
    <2>2. \A b \in Actors : pc'[b] \in {"write_referent", "dec_referent"} => arg'[b] \in Referents
      BY <1>1, <1>3, <1>12, <1>11, <1>10 DEF MutatorInv, RpInv, Facts, Moved
    <2>3. \A b, d \in Actors :
             pc'[b] = "write_referent"
                => /\ slot'[arg'[b]] = "null"
                   /\ pc'[d] = "write_referent" /\ arg'[b] = arg'[d] => b = d
      BY <1>1, <1>3, <1>12, <1>11, <1>10 DEF MutatorInv, Referents, Slots, Facts, Moved
    <2> QED BY <2>1, <2>2, <2>3 DEF MutatorInv
  <1>24. RpInv'
    BY <1>1, <1>2, <1>3, <1>12, <1>11 DEF RpInv, Facts, Bits, Moved
  <1>25. FinalInv'
    BY <1>1, <1>2, <1>3, <1>12, <1>11, <1>18 DEF FinalInv, Finalizing, InFinalizer, Facts, Bits,
       Moved, NothingLeft
  <1>26. DeadInv'
    <2>1. CASE l = "collected"
      BY <2>1, <1>3, <1>18, <1>11 DEF DeadInv, NothingLeft
    <2>2. CASE l # "collected"
      <3>1. header'.collected => header.collected
        BY <2>2, <1>11
      <3>2. NoMutator => NoMutator'
        BY <1>1, <1>3, <1>12, <1>11 DEF NoMutator, Ops, Facts, Moved
      <3> QED BY <3>1, <3>2, <1>1, <1>3 DEF DeadInv, Facts
    <2> QED BY <2>1, <2>2
  <1>27. LastInv'
    <2> SUFFICES ASSUME NEW b \in Actors, pc'[b] \in Last PROVE Alone(b)'
      BY DEF LastInv
    <2>1. CASE b = a
      BY <2>1, <1>1, <1>3, <1>12, <1>11, <1>10, <1>5, <1>18, <1>19, <1>25 DEF FinalInv,
         Finalizing, InFinalizer, Alone, Last, Facts, Moved, NothingLeft
    <2>2. CASE b # a
      BY <2>2, <1>1, <1>2, <1>3, <1>12, <1>11, <1>19, <1>5 DEF LastInv, Alone, Last, NoMutator,
         Gone, InFinalizer, Ops, Facts, Bits, Moved
    <2> QED BY <2>1, <2>2
  <1>28. FreedInv'
    BY <1>1, <1>2, <1>3, <1>12, <1>11, <1>18, <1>19, <1>5 DEF FreedInv, NoMutator, Gone, Ops,
       Last, Facts, Bits, Moved, NothingLeft
  <1>29. CountInv'
    BY <1>9, <1>17, CountsKept
  <1> QED BY <1>4, <1>21, <1>22, <1>23, <1>24, <1>25, <1>26, <1>27, <1>28, <1>29 DEF IInv

\* CollectedWeak(), when the object is to be finalized.
LEMMA CollectedWeakFinalizable ==
    ASSUME IInv, NEW a \in Actors, CollectedWeak(a), ~OwnCountDropped
    PROVE  IInv'
  <1>1. Facts /\ a \in Actors
    BY IInvFacts DEF Actors
  <1>2. Bits
    BY IInvFacts
  <1>3. /\ pc[a] = "collected" /\ finalizable /\ ~enqueued
        /\ header' = header /\ finalizable' = finalizable /\ enqueued' = enqueued
        /\ queued' = queued /\ slot' = slot /\ active' = active /\ held' = held
        /\ ran' = ran /\ freed' = freed
        /\ Step(a, "add_finalizable", arg[a], cont[a])
    BY DEF CollectedWeak, OwnCountDropped, IsObjResurrectable, Goto
  <1>4. IsFiniteSet(Locals') /\ held' \in [Actors -> Nat] /\ InLocals' = InLocals
    <2>1. held' \in [Actors -> Nat]
      BY <1>1, <1>3 DEF Facts
    <2>2. a \in Actors /\ held \in [Actors -> Nat] /\ IsFiniteSet(Locals)
      BY <1>1 DEF Facts
    <2>3. held' = held
      BY <1>3
    <2> QED BY <2>1, <2>2, <2>3, LocalsEffect
  <1>5. Sums /\ Zeros
    BY <1>1, CountParts DEF IInv, Facts
  <1>6. Sums' /\ Zeros'
    BY <1>4, NextParts
  <1>7. Moved(a, "add_finalizable", arg[a], cont[a]) /\ Recounted(a, "add_finalizable", arg[a])
    <2>1. "add_finalizable" \in Labels /\ arg[a] \in Slots /\ cont[a] \in Labels
      BY <1>1, <1>3 DEF Labels, Slots, Referents, Facts
    <2> QED BY <2>1, <1>1, <1>3, StepEffect DEF IInv
  <1>8. StrongRefs' = StrongRefs
    BY <1>1, <1>3, <1>4, <1>5, <1>6, <1>7 DEF B2N, InFinalizer, Owned, Ops, RpInv, FinalInv,
       Finalizing, MutatorInv, Facts, Sums, Moved, Recounted
  <1>9. ReferentRefs("weak")' = ReferentRefs("weak")
    BY <1>1, <1>3, <1>5, <1>6, <1>7 DEF B2N, MutatorInv, Slots, Referents, Facts, Sums, Moved,
       Recounted
  <1>10. ReferentRefs("phantom")' = ReferentRefs("phantom")
    BY <1>1, <1>3, <1>5, <1>6, <1>7 DEF B2N, MutatorInv, Slots, Referents, Facts, Sums, Moved,
       Recounted
  <1>11. OwnRef' = OwnRef
    BY <1>1, <1>2, <1>3, <1>7 DEF B2N, OwnRef, Facts, Bits, Moved
  <1>12. Bits'
    BY <1>2, <1>3, Zenon DEF Bits
  <1>13. TypeOK'
    BY <1>1, <1>4, <1>12, <1>3, <1>7 DEF TypeOK, Header, Slots, Referents, Facts, Bits, Moved
  <1>14. LockInv'
    BY <1>1, <1>2, <1>3, <1>7 DEF LockInv, Facts, Bits, Moved
  <1>15. MutatorInv'
    <2>1. \A s \in Threads : pc'[s] \in MutatorLabels /\ cont'[s] = "idle"
      BY <1>1, <1>3, <1>7 DEF MutatorInv, MutatorLabels, Facts, Moved
    <2>2. \A b \in Actors : pc'[b] \in {"write_referent", "dec_referent"} => arg'[b] \in Referents
      BY <1>1, <1>3, <1>7 DEF MutatorInv, RpInv, Facts, Moved
    <2>3. \A b, d \in Actors :
             pc'[b] = "write_referent"
                => /\ slot'[arg'[b]] = "null"
                   /\ pc'[d] = "write_referent" /\ arg'[b] = arg'[d] => b = d
      BY <1>1, <1>3, <1>7 DEF MutatorInv, Referents, Slots, Facts, Moved
    <2> QED BY <2>1, <2>2, <2>3 DEF MutatorInv
  <1>16. RpInv'
    BY <1>1, <1>2, <1>3, <1>7 DEF RpInv, Facts, Bits, Moved
  <1>17. FinalInv'
    BY <1>1, <1>2, <1>3, <1>7 DEF FinalInv, Finalizing, InFinalizer, Facts, Bits, Moved
  <1>18. DeadInv'
    BY <1>1, <1>2, <1>3, <1>7 DEF DeadInv, NoMutator, Ops, Facts, Bits, Moved
  <1>19. LastInv'
    <2> SUFFICES ASSUME NEW b \in Actors, pc'[b] \in Last PROVE Alone(b)'
      BY DEF LastInv
    <2>1. CASE b = a
      BY <2>1, <1>1, <1>2, <1>3, <1>7 DEF LastInv, Alone, Last, NoMutator, Gone, InFinalizer, Ops,
         Facts, Bits, Moved
    <2>2. CASE b # a
      BY <2>2, <1>1, <1>2, <1>3, <1>7 DEF LastInv, Alone, Last, NoMutator, Gone, InFinalizer, Ops,
         Facts, Bits, Moved
    <2> QED BY <2>1, <2>2
  <1>20. FreedInv'
    BY <1>1, <1>2, <1>3, <1>7 DEF FreedInv, NoMutator, Gone, Ops, Last, Facts, Bits, Moved
  <1>21. CountInv'
    BY <1>1, <1>3, <1>7, <1>8, <1>9, <1>10, <1>11 DEF CountInv, Releasing, Facts, Moved
  <1> QED BY <1>4, <1>13, <1>14, <1>15, <1>16, <1>17, <1>18, <1>19, <1>20, <1>21 DEF IInv

\* AddFinalizable().
LEMMA AddFinalizableStep ==
    ASSUME IInv, NEW a \in Actors, AddFinalizable(a)
    PROVE  IInv'
  <1>1. Facts /\ a \in Actors
    BY IInvFacts DEF Actors
  <1>2. Bits
    BY IInvFacts
  <1>3. /\ pc[a] = "add_finalizable"
        /\ finalizable' = finalizable /\ enqueued' = enqueued /\ queued' = queued
        /\ slot' = slot /\ active' = active /\ held' = held /\ ran' = ran /\ freed' = freed
        /\ header' = AtomicUpdateRC(1, 0, 0)
        /\ Step(a, "push_finalizable", arg[a], cont[a])
    BY DEF AddFinalizable, Goto
  <1>4. IsFiniteSet(Locals') /\ held' \in [Actors -> Nat] /\ InLocals' = InLocals
    <2>1. held' \in [Actors -> Nat]
      BY <1>1, <1>3 DEF Facts
    <2>2. a \in Actors /\ held \in [Actors -> Nat] /\ IsFiniteSet(Locals)
      BY <1>1 DEF Facts
    <2>3. held' = held
      BY <1>3
    <2> QED BY <2>1, <2>2, <2>3, LocalsEffect
  <1>5. freed = 0 /\ ~Releasing
    BY <1>1, <1>2, <1>3 DEF Releasing, LockInv, LastInv, Alone, FreedInv, Last, NoMutator, Gone,
       InFinalizer, Ops, MutatorInv, RpInv, Facts, Bits
  <1>6. Sums /\ Zeros
    BY <1>1, CountParts DEF IInv, Facts
  <1>7. Sums' /\ Zeros'
    BY <1>4, NextParts
  <1>8. Moved(a, "push_finalizable", arg[a], cont[a]) /\ Recounted(a, "push_finalizable", arg[a])
    <2>1. "push_finalizable" \in Labels /\ arg[a] \in Slots /\ cont[a] \in Labels
      BY <1>1, <1>3 DEF Labels, Slots, Referents, Facts
    <2> QED BY <2>1, <1>1, <1>3, StepEffect DEF IInv
  <1>9. CanAdd(1, 0, 0)
    BY <1>1, <1>3, <1>6 DEF CanAdd, Owned, Ops, B2N, Facts, Sums, Zeros
  <1>10. CountedNext(1, 0, 0) /\ header'.collected = header.collected
    BY <1>3, <1>5, <1>9, UpdateStep
  <1>11. StrongRefs' = StrongRefs + 1
    BY <1>1, <1>3, <1>4, <1>6, <1>7, <1>8 DEF B2N, InFinalizer, Owned, Ops, RpInv, FinalInv,
       Finalizing, MutatorInv, Facts, Sums, Moved, Recounted
  <1>12. ReferentRefs("weak")' = ReferentRefs("weak")
    BY <1>1, <1>3, <1>6, <1>7, <1>8 DEF B2N, MutatorInv, Slots, Referents, Facts, Sums, Moved,
       Recounted
  <1>13. ReferentRefs("phantom")' = ReferentRefs("phantom")
    BY <1>1, <1>3, <1>6, <1>7, <1>8 DEF B2N, MutatorInv, Slots, Referents, Facts, Sums, Moved,
       Recounted
  <1>14. OwnRef' = OwnRef
    BY <1>1, <1>2, <1>3, <1>8, <1>10 DEF B2N, OwnRef, Facts, Bits, Moved, CountedNext
  <1>15. Balanced(1, 0, 0)
    <2>1. /\ StrongRefs \in Nat /\ ReferentRefs("weak") \in Nat
          /\ ReferentRefs("phantom") \in Nat /\ OwnRef \in Nat
      BY <1>6 DEF B2N, Sums
    <2> QED BY <2>1, <1>11, <1>12, <1>13, <1>14 DEF Balanced
  <1>16. Bits'
    BY <1>2, <1>3, Zenon DEF Bits
  <1>17. TypeOK'
    BY <1>1, <1>4, <1>16, <1>3, <1>8, <1>10 DEF TypeOK, Header, Slots, Referents, Facts, Bits,
       Moved, CountedNext
  <1>18. LockInv'
    BY <1>1, <1>2, <1>3, <1>8, <1>10 DEF LockInv, Facts, Bits, Moved, CountedNext
  <1>19. MutatorInv'
    <2>1. \A s \in Threads : pc'[s] \in MutatorLabels /\ cont'[s] = "idle"
      BY <1>1, <1>3, <1>8 DEF MutatorInv, MutatorLabels, Facts, Moved
    <2>2. \A b \in Actors : pc'[b] \in {"write_referent", "dec_referent"} => arg'[b] \in Referents
      BY <1>1, <1>3, <1>8 DEF MutatorInv, RpInv, Facts, Moved
    <2>3. \A b, d \in Actors :
             pc'[b] = "write_referent"
                => /\ slot'[arg'[b]] = "null"
                   /\ pc'[d] = "write_referent" /\ arg'[b] = arg'[d] => b = d
      BY <1>1, <1>3, <1>8 DEF MutatorInv, Referents, Slots, Facts, Moved
    <2> QED BY <2>1, <2>2, <2>3 DEF MutatorInv
  <1>20. RpInv'
    BY <1>1, <1>2, <1>3, <1>8, <1>10 DEF RpInv, Facts, Bits, Moved, CountedNext
  <1>21. FinalInv'
    BY <1>1, <1>2, <1>3, <1>8, <1>10 DEF FinalInv, Finalizing, InFinalizer, Facts, Bits, Moved,
       CountedNext
  <1>22. DeadInv'
    BY <1>1, <1>2, <1>3, <1>8, <1>10 DEF DeadInv, NoMutator, Ops, Facts, Bits, Moved, CountedNext
  <1>23. LastInv'
    <2> SUFFICES ASSUME NEW b \in Actors, pc'[b] \in Last PROVE Alone(b)'
      BY DEF LastInv
    <2>1. CASE b = a
      BY <2>1, <1>1, <1>2, <1>3, <1>8, <1>10, <1>5 DEF LastInv, Alone, Last, NoMutator, Gone,
         InFinalizer, Ops, Facts, Bits, Moved, CountedNext
    <2>2. CASE b # a
      BY <2>2, <1>1, <1>2, <1>3, <1>8, <1>10, <1>5 DEF LastInv, Alone, Last, NoMutator, Gone,
         InFinalizer, Ops, Facts, Bits, Moved, CountedNext
    <2> QED BY <2>1, <2>2
  <1>24. FreedInv'
    BY <1>1, <1>2, <1>3, <1>8, <1>10, <1>5 DEF FreedInv, NoMutator, Gone, Ops, Last, Facts, Bits,
       Moved, CountedNext
  <1>25. CountInv'
    BY <1>10, <1>15, CountsKept
  <1> QED BY <1>4, <1>17, <1>18, <1>19, <1>20, <1>21, <1>22, <1>23, <1>24, <1>25 DEF IInv

\* PushFinalizable().
LEMMA PushFinalizableStep ==
    ASSUME IInv, NEW a \in Actors, PushFinalizable(a)
    PROVE  IInv'
  <1>1. Facts /\ a \in Actors
    BY IInvFacts DEF Actors
  <1>2. Bits
    BY IInvFacts
  <1>3. PICK l \in {"idle", "drop", "clear"} :
           /\ pc[a] = "push_finalizable" /\ finalizable /\ ~queued /\ ~InFinalizer
           /\ header' = header /\ finalizable' = finalizable /\ slot' = slot
           /\ active' = active /\ held' = held /\ ran' = ran /\ freed' = freed
           /\ enqueued' = TRUE /\ queued' = TRUE
           /\ Step(a, l, arg[a], cont[a])
           /\ l = cont[a] /\ (a # RP => l = "idle")
    BY <1>1 DEF PushFinalizable, Goto, MutatorInv, RpInv, LastInv, Alone, Last, FinalInv, Facts
  <1>4. IsFiniteSet(Locals') /\ held' \in [Actors -> Nat] /\ InLocals' = InLocals
    <2>1. held' \in [Actors -> Nat]
      BY <1>1, <1>3 DEF Facts
    <2>2. a \in Actors /\ held \in [Actors -> Nat] /\ IsFiniteSet(Locals)
      BY <1>1 DEF Facts
    <2>3. held' = held
      BY <1>3
    <2> QED BY <2>1, <2>2, <2>3, LocalsEffect
  <1>5. Sums /\ Zeros
    BY <1>1, CountParts DEF IInv, Facts
  <1>6. Sums' /\ Zeros'
    BY <1>4, NextParts
  <1>7. Moved(a, l, arg[a], cont[a]) /\ Recounted(a, l, arg[a])
    <2>1. l \in Labels /\ arg[a] \in Slots /\ cont[a] \in Labels
      BY <1>1, <1>3 DEF Labels, Slots, Referents, Facts
    <2> QED BY <2>1, <1>1, <1>3, StepEffect DEF IInv
  <1>8. StrongRefs' = StrongRefs
    BY <1>1, <1>3, <1>4, <1>5, <1>6, <1>7 DEF B2N, InFinalizer, Owned, Ops, RpInv, FinalInv,
       Finalizing, MutatorInv, Facts, Sums, Moved, Recounted
  <1>9. ReferentRefs("weak")' = ReferentRefs("weak")
    BY <1>1, <1>3, <1>5, <1>6, <1>7 DEF B2N, MutatorInv, Slots, Referents, Facts, Sums, Moved,
       Recounted
  <1>10. ReferentRefs("phantom")' = ReferentRefs("phantom")
    BY <1>1, <1>3, <1>5, <1>6, <1>7 DEF B2N, MutatorInv, Slots, Referents, Facts, Sums, Moved,
       Recounted
  <1>11. OwnRef' = OwnRef
    BY <1>1, <1>2, <1>3, <1>7 DEF B2N, OwnRef, Facts, Bits, Moved
  <1>12. Bits'
    BY <1>2, <1>3, Zenon DEF Bits
  <1>13. TypeOK'
    BY <1>1, <1>4, <1>12, <1>3, <1>7 DEF TypeOK, Header, Slots, Referents, Facts, Bits, Moved
  <1>14. LockInv'
    BY <1>1, <1>2, <1>3, <1>7 DEF LockInv, Facts, Bits, Moved
  <1>15. MutatorInv'
    <2>1. \A s \in Threads : pc'[s] \in MutatorLabels /\ cont'[s] = "idle"
      BY <1>1, <1>3, <1>7 DEF MutatorInv, MutatorLabels, Facts, Moved
    <2>2. \A b \in Actors : pc'[b] \in {"write_referent", "dec_referent"} => arg'[b] \in Referents
      BY <1>1, <1>3, <1>7 DEF MutatorInv, RpInv, Facts, Moved
    <2>3. \A b, d \in Actors :
             pc'[b] = "write_referent"
                => /\ slot'[arg'[b]] = "null"
                   /\ pc'[d] = "write_referent" /\ arg'[b] = arg'[d] => b = d
      BY <1>1, <1>3, <1>7 DEF MutatorInv, Referents, Slots, Facts, Moved
    <2> QED BY <2>1, <2>2, <2>3 DEF MutatorInv
  <1>16. RpInv'
    BY <1>1, <1>2, <1>3, <1>7 DEF RpInv, Facts, Bits, Moved
  <1>17. FinalInv'
    BY <1>1, <1>2, <1>3, <1>7 DEF FinalInv, Finalizing, InFinalizer, Facts, Bits, Moved
  <1>18. DeadInv'
    BY <1>1, <1>2, <1>3, <1>7 DEF DeadInv, NoMutator, Ops, Facts, Bits, Moved
  <1>19. LastInv'
    <2> SUFFICES ASSUME NEW b \in Actors, pc'[b] \in Last PROVE Alone(b)'
      BY DEF LastInv
    <2>1. CASE b = a
      BY <2>1, <1>1, <1>2, <1>3, <1>7 DEF LastInv, Alone, Last, NoMutator, Gone, InFinalizer, Ops,
         Facts, Bits, Moved
    <2>2. CASE b # a
      BY <2>2, <1>1, <1>2, <1>3, <1>7 DEF LastInv, Alone, Last, NoMutator, Gone, InFinalizer, Ops,
         Facts, Bits, Moved
    <2> QED BY <2>1, <2>2
  <1>20. FreedInv'
    BY <1>1, <1>2, <1>3, <1>7 DEF FreedInv, NoMutator, Gone, Ops, Last, Facts, Bits, Moved
  <1>21. CountInv'
    BY <1>1, <1>3, <1>7, <1>8, <1>9, <1>10, <1>11 DEF CountInv, Releasing, Facts, Moved
  <1> QED BY <1>4, <1>13, <1>14, <1>15, <1>16, <1>17, <1>18, <1>19, <1>20, <1>21 DEF IInv

\* LoadRefVolatile().
LEMMA LoadRefVolatileStep ==
    ASSUME IInv, NEW t \in Threads, LoadRefVolatile(t)
    PROVE  IInv'
  <1>1. Facts /\ t \in Actors
    BY IInvFacts DEF Actors
  <1>2. Bits
    BY IInvFacts
  <1>3. PICK k \in {"field", "weak"} :
           /\ pc[t] = "idle" /\ slot[k] = "obj"
           /\ header' = header /\ finalizable' = finalizable /\ enqueued' = enqueued
           /\ queued' = queued /\ held' = held /\ ran' = ran /\ freed' = freed
           /\ slot' = [slot EXCEPT ![k] = t] /\ active' = (active \/ k = "weak")
           /\ Step(t, "locked", k, "idle")
    BY DEF LoadRefVolatile, LockSlot
  <1>4. IsFiniteSet(Locals') /\ held' \in [Actors -> Nat] /\ InLocals' = InLocals
    <2>1. held' \in [Actors -> Nat]
      BY <1>1, <1>3 DEF Facts
    <2>2. t \in Actors /\ held \in [Actors -> Nat] /\ IsFiniteSet(Locals)
      BY <1>1 DEF Facts
    <2>3. held' = held
      BY <1>3
    <2> QED BY <2>1, <2>2, <2>3, LocalsEffect
  <1>5. Sums /\ Zeros
    BY <1>1, CountParts DEF IInv, Facts
  <1>6. Sums' /\ Zeros'
    BY <1>4, NextParts
  <1>7. Moved(t, "locked", k, "idle") /\ Recounted(t, "locked", k)
    <2>1. "locked" \in Labels /\ k \in Slots /\ "idle" \in Labels
      BY <1>1, <1>3 DEF Labels, Slots, Referents, Facts
    <2> QED BY <2>1, <1>1, <1>3, StepEffect DEF IInv
  <1>8. StrongRefs' = StrongRefs
    BY <1>1, <1>3, <1>4, <1>5, <1>6, <1>7 DEF B2N, InFinalizer, Owned, Ops, RpInv, FinalInv,
       Finalizing, MutatorInv, Facts, Sums, Moved, Recounted
  <1>9. ReferentRefs("weak")' = ReferentRefs("weak")
    BY <1>1, <1>3, <1>5, <1>6, <1>7 DEF B2N, MutatorInv, Slots, Referents, Facts, Sums, Moved,
       Recounted
  <1>10. ReferentRefs("phantom")' = ReferentRefs("phantom")
    BY <1>1, <1>3, <1>5, <1>6, <1>7 DEF B2N, MutatorInv, Slots, Referents, Facts, Sums, Moved,
       Recounted
  <1>11. OwnRef' = OwnRef
    BY <1>1, <1>2, <1>3, <1>7 DEF B2N, OwnRef, Facts, Bits, Moved
  <1>12. Bits'
    BY <1>2, <1>3, Zenon DEF Bits
  <1>13. TypeOK'
    BY <1>1, <1>4, <1>12, <1>3, <1>7 DEF TypeOK, Header, Slots, Referents, Facts, Bits, Moved
  <1>14. LockInv'
    BY <1>1, <1>2, <1>3, <1>7 DEF LockInv, Facts, Bits, Moved
  <1>15. MutatorInv'
    <2>1. \A s \in Threads : pc'[s] \in MutatorLabels /\ cont'[s] = "idle"
      BY <1>1, <1>3, <1>7 DEF MutatorInv, MutatorLabels, Facts, Moved
    <2>2. \A b \in Actors : pc'[b] \in {"write_referent", "dec_referent"} => arg'[b] \in Referents
      BY <1>1, <1>3, <1>7 DEF MutatorInv, RpInv, Facts, Moved
    <2>3. \A b, d \in Actors :
             pc'[b] = "write_referent"
                => /\ slot'[arg'[b]] = "null"
                   /\ pc'[d] = "write_referent" /\ arg'[b] = arg'[d] => b = d
      BY <1>1, <1>3, <1>7 DEF MutatorInv, Referents, Slots, Facts, Moved
    <2> QED BY <2>1, <2>2, <2>3 DEF MutatorInv
  <1>16. RpInv'
    BY <1>1, <1>2, <1>3, <1>7 DEF RpInv, Facts, Bits, Moved
  <1>17. FinalInv'
    BY <1>1, <1>2, <1>3, <1>7 DEF FinalInv, Finalizing, InFinalizer, Facts, Bits, Moved
  <1>18. DeadInv'
    BY <1>1, <1>2, <1>3, <1>7 DEF DeadInv, NoMutator, Ops, Facts, Bits, Moved
  <1>19. LastInv'
    <2> SUFFICES ASSUME NEW b \in Actors, pc'[b] \in Last PROVE Alone(b)'
      BY DEF LastInv
    <2>1. CASE b = t
      BY <2>1, <1>1, <1>2, <1>3, <1>7 DEF LastInv, Alone, Last, NoMutator, Gone, InFinalizer, Ops,
         Facts, Bits, Moved
    <2>2. CASE b # t
      BY <2>2, <1>1, <1>2, <1>3, <1>7 DEF LastInv, Alone, Last, NoMutator, Gone, InFinalizer, Ops,
         Facts, Bits, Moved
    <2> QED BY <2>1, <2>2
  <1>20. FreedInv'
    BY <1>1, <1>2, <1>3, <1>7 DEF FreedInv, NoMutator, Gone, Ops, Last, Facts, Bits, Moved
  <1>21. CountInv'
    BY <1>1, <1>3, <1>7, <1>8, <1>9, <1>10, <1>11 DEF CountInv, Releasing, Facts, Moved
  <1> QED BY <1>4, <1>13, <1>14, <1>15, <1>16, <1>17, <1>18, <1>19, <1>20, <1>21 DEF IInv

\* IncLocked(), when the load gives the object.
LEMMA IncLockedGets ==
    ASSUME IInv, NEW a \in Actors, IncLocked(a), MayGet(arg[a])
    PROVE  IInv'
  <1>1. Facts /\ a \in Actors
    BY IInvFacts DEF Actors
  <1>2. Bits
    BY IInvFacts
  <1>3. /\ pc[a] = "locked" /\ (arg[a] = "field" \/ ~header.collected) /\ slot[arg[a]] = a
        /\ finalizable' = finalizable /\ enqueued' = enqueued /\ queued' = queued
        /\ slot' = slot /\ active' = active /\ ran' = ran /\ freed' = freed
        /\ held' = [held EXCEPT ![a] = @ + 1]
        /\ header' = AtomicUpdateRC(1, 0, 0)
        /\ Step(a, "unlock", arg[a], cont[a])
    BY <1>1 DEF IncLocked, MayGet, Goto, LockInv, Facts
  <1>4. IsFiniteSet(Locals') /\ held' \in [Actors -> Nat] /\ InLocals' = InLocals + 1
    <2>1. held' \in [Actors -> Nat]
      BY <1>1, <1>3 DEF Facts
    <2>2. a \in Actors /\ held \in [Actors -> Nat] /\ IsFiniteSet(Locals)
      BY <1>1 DEF Facts
    <2>3. held' = [held EXCEPT ![a] = @ + 1]
      BY <1>3
    <2> QED BY <2>1, <2>2, <2>3, LocalsEffect
  <1>5. freed = 0 /\ ~Releasing
    BY <1>1, <1>2, <1>3 DEF Releasing, LockInv, LastInv, Alone, FreedInv, Last, NoMutator, Gone,
       InFinalizer, Ops, MutatorInv, RpInv, Facts, Bits
  <1>6. Sums /\ Zeros
    BY <1>1, CountParts DEF IInv, Facts
  <1>7. Sums' /\ Zeros'
    BY <1>4, NextParts
  <1>8. Moved(a, "unlock", arg[a], cont[a]) /\ Recounted(a, "unlock", arg[a])
    <2>1. "unlock" \in Labels /\ arg[a] \in Slots /\ cont[a] \in Labels
      BY <1>1, <1>3 DEF Labels, Slots, Referents, Facts
    <2> QED BY <2>1, <1>1, <1>3, StepEffect DEF IInv
  <1>9. CanAdd(1, 0, 0)
    BY <1>1, <1>3, <1>6 DEF CanAdd, Owned, Ops, B2N, Facts, Sums, Zeros
  <1>10. CountedNext(1, 0, 0) /\ header'.collected = header.collected
    BY <1>3, <1>5, <1>9, UpdateStep
  <1>11. StrongRefs' = StrongRefs + 1
    BY <1>1, <1>3, <1>4, <1>6, <1>7, <1>8 DEF B2N, InFinalizer, Owned, Ops, RpInv, FinalInv,
       Finalizing, MutatorInv, Facts, Sums, Moved, Recounted
  <1>12. ReferentRefs("weak")' = ReferentRefs("weak")
    BY <1>1, <1>3, <1>6, <1>7, <1>8 DEF B2N, MutatorInv, Slots, Referents, Facts, Sums, Moved,
       Recounted
  <1>13. ReferentRefs("phantom")' = ReferentRefs("phantom")
    BY <1>1, <1>3, <1>6, <1>7, <1>8 DEF B2N, MutatorInv, Slots, Referents, Facts, Sums, Moved,
       Recounted
  <1>14. OwnRef' = OwnRef
    BY <1>1, <1>2, <1>3, <1>8, <1>10 DEF B2N, OwnRef, Facts, Bits, Moved, CountedNext
  <1>15. Balanced(1, 0, 0)
    <2>1. /\ StrongRefs \in Nat /\ ReferentRefs("weak") \in Nat
          /\ ReferentRefs("phantom") \in Nat /\ OwnRef \in Nat
      BY <1>6 DEF B2N, Sums
    <2> QED BY <2>1, <1>11, <1>12, <1>13, <1>14 DEF Balanced
  <1>16. Bits'
    BY <1>2, <1>3, Zenon DEF Bits
  <1>17. TypeOK'
    BY <1>1, <1>4, <1>16, <1>3, <1>8, <1>10 DEF TypeOK, Header, Slots, Referents, Facts, Bits,
       Moved, CountedNext
  <1>18. LockInv'
    BY <1>1, <1>2, <1>3, <1>8, <1>10 DEF LockInv, Facts, Bits, Moved, CountedNext
  <1>19. MutatorInv'
    <2>1. \A s \in Threads : pc'[s] \in MutatorLabels /\ cont'[s] = "idle"
      BY <1>1, <1>3, <1>8 DEF MutatorInv, MutatorLabels, Facts, Moved
    <2>2. \A b \in Actors : pc'[b] \in {"write_referent", "dec_referent"} => arg'[b] \in Referents
      BY <1>1, <1>3, <1>8 DEF MutatorInv, RpInv, Facts, Moved
    <2>3. \A b, d \in Actors :
             pc'[b] = "write_referent"
                => /\ slot'[arg'[b]] = "null"
                   /\ pc'[d] = "write_referent" /\ arg'[b] = arg'[d] => b = d
      BY <1>1, <1>3, <1>8 DEF MutatorInv, Referents, Slots, Facts, Moved
    <2> QED BY <2>1, <2>2, <2>3 DEF MutatorInv
  <1>20. RpInv'
    BY <1>1, <1>2, <1>3, <1>8, <1>10 DEF RpInv, Facts, Bits, Moved, CountedNext
  <1>21. FinalInv'
    BY <1>1, <1>2, <1>3, <1>8, <1>10 DEF FinalInv, Finalizing, InFinalizer, Facts, Bits, Moved,
       CountedNext
  <1>22. DeadInv'
    BY <1>1, <1>2, <1>3, <1>8, <1>10 DEF DeadInv, NoMutator, Ops, Facts, Bits, Moved, CountedNext
  <1>23. LastInv'
    <2> SUFFICES ASSUME NEW b \in Actors, pc'[b] \in Last PROVE Alone(b)'
      BY DEF LastInv
    <2>1. CASE b = a
      BY <2>1, <1>1, <1>2, <1>3, <1>8, <1>10, <1>5 DEF LastInv, Alone, Last, NoMutator, Gone,
         InFinalizer, Ops, Facts, Bits, Moved, CountedNext
    <2>2. CASE b # a
      BY <2>2, <1>1, <1>2, <1>3, <1>8, <1>10, <1>5 DEF LastInv, Alone, Last, NoMutator, Gone,
         InFinalizer, Ops, Facts, Bits, Moved, CountedNext
    <2> QED BY <2>1, <2>2
  <1>24. FreedInv'
    BY <1>1, <1>2, <1>3, <1>8, <1>10, <1>5 DEF FreedInv, NoMutator, Gone, Ops, Last, Facts, Bits,
       Moved, CountedNext
  <1>25. CountInv'
    BY <1>10, <1>15, CountsKept
  <1> QED BY <1>4, <1>17, <1>18, <1>19, <1>20, <1>21, <1>22, <1>23, <1>24, <1>25 DEF IInv

\* IncLocked(), when the load gives null.
LEMMA IncLockedFails ==
    ASSUME IInv, NEW a \in Actors, IncLocked(a), ~MayGet(arg[a])
    PROVE  IInv'
  <1>1. Facts /\ a \in Actors
    BY IInvFacts DEF Actors
  <1>2. Bits
    BY IInvFacts
  <1>3. /\ pc[a] = "locked"
        /\ header' = header /\ finalizable' = finalizable /\ enqueued' = enqueued
        /\ queued' = queued /\ slot' = slot /\ active' = active /\ held' = held
        /\ ran' = ran /\ freed' = freed
        /\ Step(a, "unlock", arg[a], cont[a])
    BY DEF IncLocked, Goto
  <1>4. IsFiniteSet(Locals') /\ held' \in [Actors -> Nat] /\ InLocals' = InLocals
    <2>1. held' \in [Actors -> Nat]
      BY <1>1, <1>3 DEF Facts
    <2>2. a \in Actors /\ held \in [Actors -> Nat] /\ IsFiniteSet(Locals)
      BY <1>1 DEF Facts
    <2>3. held' = held
      BY <1>3
    <2> QED BY <2>1, <2>2, <2>3, LocalsEffect
  <1>5. Sums /\ Zeros
    BY <1>1, CountParts DEF IInv, Facts
  <1>6. Sums' /\ Zeros'
    BY <1>4, NextParts
  <1>7. Moved(a, "unlock", arg[a], cont[a]) /\ Recounted(a, "unlock", arg[a])
    <2>1. "unlock" \in Labels /\ arg[a] \in Slots /\ cont[a] \in Labels
      BY <1>1, <1>3 DEF Labels, Slots, Referents, Facts
    <2> QED BY <2>1, <1>1, <1>3, StepEffect DEF IInv
  <1>8. StrongRefs' = StrongRefs
    BY <1>1, <1>3, <1>4, <1>5, <1>6, <1>7 DEF B2N, InFinalizer, Owned, Ops, RpInv, FinalInv,
       Finalizing, MutatorInv, Facts, Sums, Moved, Recounted
  <1>9. ReferentRefs("weak")' = ReferentRefs("weak")
    BY <1>1, <1>3, <1>5, <1>6, <1>7 DEF B2N, MutatorInv, Slots, Referents, Facts, Sums, Moved,
       Recounted
  <1>10. ReferentRefs("phantom")' = ReferentRefs("phantom")
    BY <1>1, <1>3, <1>5, <1>6, <1>7 DEF B2N, MutatorInv, Slots, Referents, Facts, Sums, Moved,
       Recounted
  <1>11. OwnRef' = OwnRef
    BY <1>1, <1>2, <1>3, <1>7 DEF B2N, OwnRef, Facts, Bits, Moved
  <1>12. Bits'
    BY <1>2, <1>3, Zenon DEF Bits
  <1>13. TypeOK'
    BY <1>1, <1>4, <1>12, <1>3, <1>7 DEF TypeOK, Header, Slots, Referents, Facts, Bits, Moved
  <1>14. LockInv'
    BY <1>1, <1>2, <1>3, <1>7 DEF LockInv, Facts, Bits, Moved
  <1>15. MutatorInv'
    <2>1. \A s \in Threads : pc'[s] \in MutatorLabels /\ cont'[s] = "idle"
      BY <1>1, <1>3, <1>7 DEF MutatorInv, MutatorLabels, Facts, Moved
    <2>2. \A b \in Actors : pc'[b] \in {"write_referent", "dec_referent"} => arg'[b] \in Referents
      BY <1>1, <1>3, <1>7 DEF MutatorInv, RpInv, Facts, Moved
    <2>3. \A b, d \in Actors :
             pc'[b] = "write_referent"
                => /\ slot'[arg'[b]] = "null"
                   /\ pc'[d] = "write_referent" /\ arg'[b] = arg'[d] => b = d
      BY <1>1, <1>3, <1>7 DEF MutatorInv, Referents, Slots, Facts, Moved
    <2> QED BY <2>1, <2>2, <2>3 DEF MutatorInv
  <1>16. RpInv'
    BY <1>1, <1>2, <1>3, <1>7 DEF RpInv, Facts, Bits, Moved
  <1>17. FinalInv'
    BY <1>1, <1>2, <1>3, <1>7 DEF FinalInv, Finalizing, InFinalizer, Facts, Bits, Moved
  <1>18. DeadInv'
    BY <1>1, <1>2, <1>3, <1>7 DEF DeadInv, NoMutator, Ops, Facts, Bits, Moved
  <1>19. LastInv'
    <2> SUFFICES ASSUME NEW b \in Actors, pc'[b] \in Last PROVE Alone(b)'
      BY DEF LastInv
    <2>1. CASE b = a
      BY <2>1, <1>1, <1>2, <1>3, <1>7 DEF LastInv, Alone, Last, NoMutator, Gone, InFinalizer, Ops,
         Facts, Bits, Moved
    <2>2. CASE b # a
      BY <2>2, <1>1, <1>2, <1>3, <1>7 DEF LastInv, Alone, Last, NoMutator, Gone, InFinalizer, Ops,
         Facts, Bits, Moved
    <2> QED BY <2>1, <2>2
  <1>20. FreedInv'
    BY <1>1, <1>2, <1>3, <1>7 DEF FreedInv, NoMutator, Gone, Ops, Last, Facts, Bits, Moved
  <1>21. CountInv'
    BY <1>1, <1>3, <1>7, <1>8, <1>9, <1>10, <1>11 DEF CountInv, Releasing, Facts, Moved
  <1> QED BY <1>4, <1>13, <1>14, <1>15, <1>16, <1>17, <1>18, <1>19, <1>20, <1>21 DEF IInv

\* Unlock().
LEMMA UnlockStep ==
    ASSUME IInv, NEW a \in Actors, Unlock(a)
    PROVE  IInv'
  <1>1. Facts /\ a \in Actors
    BY IInvFacts DEF Actors
  <1>2. Bits
    BY IInvFacts
  <1>3. PICK l \in {"idle", "empty", "process"} :
           /\ pc[a] = "unlock" /\ slot[arg[a]] = a
           /\ header' = header /\ finalizable' = finalizable /\ enqueued' = enqueued
           /\ queued' = queued /\ active' = active /\ held' = held /\ ran' = ran
           /\ freed' = freed /\ slot' = [slot EXCEPT ![arg[a]] = "obj"]
           /\ Step(a, l, arg[a], cont[a])
           /\ a # RP => l = "idle"
           /\ a = RP => l = IF held[RP] = 0 THEN "empty" ELSE "process"
    BY <1>1 DEF Unlock, Goto, LockInv, Facts
  <1>4. IsFiniteSet(Locals') /\ held' \in [Actors -> Nat] /\ InLocals' = InLocals
    <2>1. held' \in [Actors -> Nat]
      BY <1>1, <1>3 DEF Facts
    <2>2. a \in Actors /\ held \in [Actors -> Nat] /\ IsFiniteSet(Locals)
      BY <1>1 DEF Facts
    <2>3. held' = held
      BY <1>3
    <2> QED BY <2>1, <2>2, <2>3, LocalsEffect
  <1>5. \A j \in Slots : slot'[j] = "null" <=> slot[j] = "null"
    BY <1>1, <1>3 DEF Facts
  <1>6. Sums /\ Zeros
    BY <1>1, CountParts DEF IInv, Facts
  <1>7. Sums' /\ Zeros'
    BY <1>4, NextParts
  <1>8. Moved(a, l, arg[a], cont[a]) /\ Recounted(a, l, arg[a])
    <2>1. l \in Labels /\ arg[a] \in Slots /\ cont[a] \in Labels
      BY <1>1, <1>3 DEF Labels, Slots, Referents, Facts
    <2> QED BY <2>1, <1>1, <1>3, StepEffect DEF IInv
  <1>9. StrongRefs' = StrongRefs
    BY <1>1, <1>3, <1>4, <1>6, <1>7, <1>8, <1>5 DEF B2N, InFinalizer, Owned, Ops, RpInv, FinalInv,
       Finalizing, MutatorInv, Facts, Sums, Moved, Recounted
  <1>10. ReferentRefs("weak")' = ReferentRefs("weak")
    BY <1>1, <1>3, <1>6, <1>7, <1>8, <1>5 DEF B2N, MutatorInv, Slots, Referents, Facts, Sums,
       Moved, Recounted
  <1>11. ReferentRefs("phantom")' = ReferentRefs("phantom")
    BY <1>1, <1>3, <1>6, <1>7, <1>8, <1>5 DEF B2N, MutatorInv, Slots, Referents, Facts, Sums,
       Moved, Recounted
  <1>12. OwnRef' = OwnRef
    BY <1>1, <1>2, <1>3, <1>8 DEF B2N, OwnRef, Facts, Bits, Moved
  <1>13. Bits'
    BY <1>2, <1>3, Zenon DEF Bits
  <1>14. TypeOK'
    BY <1>1, <1>4, <1>13, <1>3, <1>8, <1>5 DEF TypeOK, Header, Slots, Referents, Facts, Bits,
       Moved
  <1>15. LockInv'
    BY <1>1, <1>2, <1>3, <1>8, <1>5 DEF LockInv, Facts, Bits, Moved
  <1>16. MutatorInv'
    <2>1. \A s \in Threads : pc'[s] \in MutatorLabels /\ cont'[s] = "idle"
      BY <1>1, <1>3, <1>8, <1>5 DEF MutatorInv, MutatorLabels, Facts, Moved
    <2>2. \A b \in Actors : pc'[b] \in {"write_referent", "dec_referent"} => arg'[b] \in Referents
      BY <1>1, <1>3, <1>8, <1>5 DEF MutatorInv, RpInv, Facts, Moved
    <2>3. \A b, d \in Actors :
             pc'[b] = "write_referent"
                => /\ slot'[arg'[b]] = "null"
                   /\ pc'[d] = "write_referent" /\ arg'[b] = arg'[d] => b = d
      BY <1>1, <1>3, <1>8, <1>5 DEF MutatorInv, Referents, Slots, Facts, Moved
    <2> QED BY <2>1, <2>2, <2>3 DEF MutatorInv
  <1>17. RpInv'
    BY <1>1, <1>2, <1>3, <1>8, <1>5 DEF RpInv, Facts, Bits, Moved
  <1>18. FinalInv'
    BY <1>1, <1>2, <1>3, <1>8, <1>5 DEF FinalInv, Finalizing, InFinalizer, Facts, Bits, Moved
  <1>19. DeadInv'
    BY <1>1, <1>2, <1>3, <1>8, <1>5 DEF DeadInv, NoMutator, Ops, Facts, Bits, Moved
  <1>20. LastInv'
    <2> SUFFICES ASSUME NEW b \in Actors, pc'[b] \in Last PROVE Alone(b)'
      BY DEF LastInv
    <2>1. CASE b = a
      BY <2>1, <1>1, <1>2, <1>3, <1>8, <1>5 DEF LastInv, Alone, Last, NoMutator, Gone,
         InFinalizer, Ops, Facts, Bits, Moved
    <2>2. CASE b # a
      BY <2>2, <1>1, <1>2, <1>3, <1>8, <1>5 DEF LastInv, Alone, Last, NoMutator, Gone,
         InFinalizer, Ops, Facts, Bits, Moved
    <2> QED BY <2>1, <2>2
  <1>21. FreedInv'
    BY <1>1, <1>2, <1>3, <1>8, <1>5 DEF FreedInv, NoMutator, Gone, Ops, Last, Facts, Bits, Moved
  <1>22. CountInv'
    BY <1>1, <1>3, <1>8, <1>9, <1>10, <1>11, <1>12 DEF CountInv, Releasing, Facts, Moved
  <1> QED BY <1>4, <1>14, <1>15, <1>16, <1>17, <1>18, <1>19, <1>20, <1>21, <1>22 DEF IInv

\* WriteObj() of a mutator.
LEMMA WriteObjMutator ==
    ASSUME IInv, NEW t \in Threads, WriteObj(t)
    PROVE  IInv'
  <1>1. Facts /\ t \in Actors
    BY IInvFacts DEF Actors
  <1>2. Bits
    BY IInvFacts
  <1>3. /\ pc[t] = "idle" /\ held[t] > 0
        /\ finalizable' = finalizable /\ enqueued' = enqueued /\ queued' = queued
        /\ slot' = slot /\ active' = active /\ held' = held /\ ran' = ran /\ freed' = freed
        /\ header' = AtomicUpdateRC(1, 0, 0)
        /\ Step(t, "write_obj", "field", "idle")
    BY <1>1 DEF WriteObj, Facts
  <1>4. IsFiniteSet(Locals') /\ held' \in [Actors -> Nat] /\ InLocals' = InLocals
    <2>1. held' \in [Actors -> Nat]
      BY <1>1, <1>3 DEF Facts
    <2>2. t \in Actors /\ held \in [Actors -> Nat] /\ IsFiniteSet(Locals)
      BY <1>1 DEF Facts
    <2>3. held' = held
      BY <1>3
    <2> QED BY <2>1, <2>2, <2>3, LocalsEffect
  <1>5. freed = 0 /\ ~Releasing
    BY <1>1, <1>2, <1>3 DEF Releasing, LockInv, LastInv, Alone, FreedInv, Last, NoMutator, Gone,
       InFinalizer, Ops, MutatorInv, RpInv, Facts, Bits
  <1>6. Sums /\ Zeros
    BY <1>1, CountParts DEF IInv, Facts
  <1>7. Sums' /\ Zeros'
    BY <1>4, NextParts
  <1>8. Moved(t, "write_obj", "field", "idle") /\ Recounted(t, "write_obj", "field")
    <2>1. "write_obj" \in Labels /\ "field" \in Slots /\ "idle" \in Labels
      BY <1>1, <1>3 DEF Labels, Slots, Referents, Facts
    <2> QED BY <2>1, <1>1, <1>3, StepEffect DEF IInv
  <1>9. CanAdd(1, 0, 0)
    BY <1>1, <1>3, <1>6 DEF CanAdd, Owned, Ops, B2N, Facts, Sums, Zeros
  <1>10. CountedNext(1, 0, 0) /\ header'.collected = header.collected
    BY <1>3, <1>5, <1>9, UpdateStep
  <1>11. StrongRefs' = StrongRefs + 1
    BY <1>1, <1>3, <1>4, <1>6, <1>7, <1>8 DEF B2N, InFinalizer, Owned, Ops, RpInv, FinalInv,
       Finalizing, MutatorInv, Facts, Sums, Moved, Recounted
  <1>12. ReferentRefs("weak")' = ReferentRefs("weak")
    BY <1>1, <1>3, <1>6, <1>7, <1>8 DEF B2N, MutatorInv, Slots, Referents, Facts, Sums, Moved,
       Recounted
  <1>13. ReferentRefs("phantom")' = ReferentRefs("phantom")
    BY <1>1, <1>3, <1>6, <1>7, <1>8 DEF B2N, MutatorInv, Slots, Referents, Facts, Sums, Moved,
       Recounted
  <1>14. OwnRef' = OwnRef
    BY <1>1, <1>2, <1>3, <1>8, <1>10 DEF B2N, OwnRef, Facts, Bits, Moved, CountedNext
  <1>15. Balanced(1, 0, 0)
    <2>1. /\ StrongRefs \in Nat /\ ReferentRefs("weak") \in Nat
          /\ ReferentRefs("phantom") \in Nat /\ OwnRef \in Nat
      BY <1>6 DEF B2N, Sums
    <2> QED BY <2>1, <1>11, <1>12, <1>13, <1>14 DEF Balanced
  <1>16. Bits'
    BY <1>2, <1>3, Zenon DEF Bits
  <1>17. TypeOK'
    BY <1>1, <1>4, <1>16, <1>3, <1>8, <1>10 DEF TypeOK, Header, Slots, Referents, Facts, Bits,
       Moved, CountedNext
  <1>18. LockInv'
    BY <1>1, <1>2, <1>3, <1>8, <1>10 DEF LockInv, Facts, Bits, Moved, CountedNext
  <1>19. MutatorInv'
    <2>1. \A s \in Threads : pc'[s] \in MutatorLabels /\ cont'[s] = "idle"
      BY <1>1, <1>3, <1>8 DEF MutatorInv, MutatorLabels, Facts, Moved
    <2>2. \A b \in Actors : pc'[b] \in {"write_referent", "dec_referent"} => arg'[b] \in Referents
      BY <1>1, <1>3, <1>8 DEF MutatorInv, RpInv, Facts, Moved
    <2>3. \A b, d \in Actors :
             pc'[b] = "write_referent"
                => /\ slot'[arg'[b]] = "null"
                   /\ pc'[d] = "write_referent" /\ arg'[b] = arg'[d] => b = d
      BY <1>1, <1>3, <1>8 DEF MutatorInv, Referents, Slots, Facts, Moved
    <2> QED BY <2>1, <2>2, <2>3 DEF MutatorInv
  <1>20. RpInv'
    BY <1>1, <1>2, <1>3, <1>8, <1>10 DEF RpInv, Facts, Bits, Moved, CountedNext
  <1>21. FinalInv'
    BY <1>1, <1>2, <1>3, <1>8, <1>10 DEF FinalInv, Finalizing, InFinalizer, Facts, Bits, Moved,
       CountedNext
  <1>22. DeadInv'
    BY <1>1, <1>2, <1>3, <1>8, <1>10 DEF DeadInv, NoMutator, Ops, Facts, Bits, Moved, CountedNext
  <1>23. LastInv'
    <2> SUFFICES ASSUME NEW b \in Actors, pc'[b] \in Last PROVE Alone(b)'
      BY DEF LastInv
    <2>1. CASE b = t
      BY <2>1, <1>1, <1>2, <1>3, <1>8, <1>10, <1>5 DEF LastInv, Alone, Last, NoMutator, Gone,
         InFinalizer, Ops, Facts, Bits, Moved, CountedNext
    <2>2. CASE b # t
      BY <2>2, <1>1, <1>2, <1>3, <1>8, <1>10, <1>5 DEF LastInv, Alone, Last, NoMutator, Gone,
         InFinalizer, Ops, Facts, Bits, Moved, CountedNext
    <2> QED BY <2>1, <2>2
  <1>24. FreedInv'
    BY <1>1, <1>2, <1>3, <1>8, <1>10, <1>5 DEF FreedInv, NoMutator, Gone, Ops, Last, Facts, Bits,
       Moved, CountedNext
  <1>25. CountInv'
    BY <1>10, <1>15, CountsKept
  <1> QED BY <1>4, <1>17, <1>18, <1>19, <1>20, <1>21, <1>22, <1>23, <1>24, <1>25 DEF IInv

\* WriteObj() of finalize().
LEMMA WriteObjFinalizer ==
    ASSUME IInv, WriteObj(RP)
    PROVE  IInv'
  <1>1. Facts /\ RP \in Actors
    BY IInvFacts DEF Actors
  <1>2. Bits
    BY IInvFacts
  <1>3. /\ pc[RP] = "finalize"
        /\ finalizable' = finalizable /\ enqueued' = enqueued /\ queued' = queued
        /\ slot' = slot /\ active' = active /\ held' = held /\ ran' = ran /\ freed' = freed
        /\ header' = AtomicUpdateRC(1, 0, 0)
        /\ Step(RP, "write_obj", "field", "finalized")
    BY DEF WriteObj
  <1>4. IsFiniteSet(Locals') /\ held' \in [Actors -> Nat] /\ InLocals' = InLocals
    <2>1. held' \in [Actors -> Nat]
      BY <1>1, <1>3 DEF Facts
    <2>2. RP \in Actors /\ held \in [Actors -> Nat] /\ IsFiniteSet(Locals)
      BY <1>1 DEF Facts
    <2>3. held' = held
      BY <1>3
    <2> QED BY <2>1, <2>2, <2>3, LocalsEffect
  <1>5. freed = 0 /\ ~Releasing
    BY <1>1, <1>2, <1>3 DEF Releasing, LockInv, LastInv, Alone, FreedInv, Last, NoMutator, Gone,
       InFinalizer, Ops, MutatorInv, RpInv, Facts, Bits
  <1>6. Sums /\ Zeros
    BY <1>1, CountParts DEF IInv, Facts
  <1>7. Sums' /\ Zeros'
    BY <1>4, NextParts
  <1>8. Moved(RP, "write_obj", "field", "finalized") /\ Recounted(RP, "write_obj", "field")
    <2>1. "write_obj" \in Labels /\ "field" \in Slots /\ "finalized" \in Labels
      BY <1>1, <1>3 DEF Labels, Slots, Referents, Facts
    <2> QED BY <2>1, <1>1, <1>3, StepEffect DEF IInv
  <1>9. CanAdd(1, 0, 0)
    BY <1>1, <1>3, <1>6 DEF CanAdd, Owned, Ops, B2N, Facts, Sums, Zeros
  <1>10. CountedNext(1, 0, 0) /\ header'.collected = header.collected
    BY <1>3, <1>5, <1>9, UpdateStep
  <1>11. StrongRefs' = StrongRefs + 1
    BY <1>1, <1>3, <1>4, <1>6, <1>7, <1>8 DEF B2N, InFinalizer, Owned, Ops, RpInv, FinalInv,
       Finalizing, MutatorInv, Facts, Sums, Moved, Recounted
  <1>12. ReferentRefs("weak")' = ReferentRefs("weak")
    BY <1>1, <1>3, <1>6, <1>7, <1>8 DEF B2N, MutatorInv, Slots, Referents, Facts, Sums, Moved,
       Recounted
  <1>13. ReferentRefs("phantom")' = ReferentRefs("phantom")
    BY <1>1, <1>3, <1>6, <1>7, <1>8 DEF B2N, MutatorInv, Slots, Referents, Facts, Sums, Moved,
       Recounted
  <1>14. OwnRef' = OwnRef
    BY <1>1, <1>2, <1>3, <1>8, <1>10 DEF B2N, OwnRef, Facts, Bits, Moved, CountedNext
  <1>15. Balanced(1, 0, 0)
    <2>1. /\ StrongRefs \in Nat /\ ReferentRefs("weak") \in Nat
          /\ ReferentRefs("phantom") \in Nat /\ OwnRef \in Nat
      BY <1>6 DEF B2N, Sums
    <2> QED BY <2>1, <1>11, <1>12, <1>13, <1>14 DEF Balanced
  <1>16. Bits'
    BY <1>2, <1>3, Zenon DEF Bits
  <1>17. TypeOK'
    BY <1>1, <1>4, <1>16, <1>3, <1>8, <1>10 DEF TypeOK, Header, Slots, Referents, Facts, Bits,
       Moved, CountedNext
  <1>18. LockInv'
    BY <1>1, <1>2, <1>3, <1>8, <1>10 DEF LockInv, Facts, Bits, Moved, CountedNext
  <1>19. MutatorInv'
    <2>1. \A s \in Threads : pc'[s] \in MutatorLabels /\ cont'[s] = "idle"
      BY <1>1, <1>3, <1>8 DEF MutatorInv, MutatorLabels, Facts, Moved
    <2>2. \A b \in Actors : pc'[b] \in {"write_referent", "dec_referent"} => arg'[b] \in Referents
      BY <1>1, <1>3, <1>8 DEF MutatorInv, RpInv, Facts, Moved
    <2>3. \A b, d \in Actors :
             pc'[b] = "write_referent"
                => /\ slot'[arg'[b]] = "null"
                   /\ pc'[d] = "write_referent" /\ arg'[b] = arg'[d] => b = d
      BY <1>1, <1>3, <1>8 DEF MutatorInv, Referents, Slots, Facts, Moved
    <2> QED BY <2>1, <2>2, <2>3 DEF MutatorInv
  <1>20. RpInv'
    BY <1>1, <1>2, <1>3, <1>8, <1>10 DEF RpInv, Facts, Bits, Moved, CountedNext
  <1>21. FinalInv'
    BY <1>1, <1>2, <1>3, <1>8, <1>10 DEF FinalInv, Finalizing, InFinalizer, Facts, Bits, Moved,
       CountedNext
  <1>22. DeadInv'
    BY <1>1, <1>2, <1>3, <1>8, <1>10 DEF DeadInv, NoMutator, Ops, Facts, Bits, Moved, CountedNext
  <1>23. LastInv'
    <2> SUFFICES ASSUME NEW b \in Actors, pc'[b] \in Last PROVE Alone(b)'
      BY DEF LastInv
    <2>1. CASE b = RP
      BY <2>1, <1>1, <1>2, <1>3, <1>8, <1>10, <1>5 DEF LastInv, Alone, Last, NoMutator, Gone,
         InFinalizer, Ops, Facts, Bits, Moved, CountedNext
    <2>2. CASE b # RP
      BY <2>2, <1>1, <1>2, <1>3, <1>8, <1>10, <1>5 DEF LastInv, Alone, Last, NoMutator, Gone,
         InFinalizer, Ops, Facts, Bits, Moved, CountedNext
    <2> QED BY <2>1, <2>2
  <1>24. FreedInv'
    BY <1>1, <1>2, <1>3, <1>8, <1>10, <1>5 DEF FreedInv, NoMutator, Gone, Ops, Last, Facts, Bits,
       Moved, CountedNext
  <1>25. CountInv'
    BY <1>10, <1>15, CountsKept
  <1> QED BY <1>4, <1>17, <1>18, <1>19, <1>20, <1>21, <1>22, <1>23, <1>24, <1>25 DEF IInv

\* WriteNull().
LEMMA WriteNullStep ==
    ASSUME IInv, NEW t \in Threads, WriteNull(t)
    PROVE  IInv'
  <1>1. Facts /\ t \in Actors
    BY IInvFacts DEF Actors
  <1>2. Bits
    BY IInvFacts
  <1>3. /\ pc[t] = "idle" /\ slot["field"] # "null"
        /\ header' = header /\ finalizable' = finalizable /\ enqueued' = enqueued
        /\ queued' = queued /\ slot' = slot /\ active' = active /\ held' = held
        /\ ran' = ran /\ freed' = freed
        /\ Step(t, "write_null", "field", "idle")
    BY DEF WriteNull
  <1>4. IsFiniteSet(Locals') /\ held' \in [Actors -> Nat] /\ InLocals' = InLocals
    <2>1. held' \in [Actors -> Nat]
      BY <1>1, <1>3 DEF Facts
    <2>2. t \in Actors /\ held \in [Actors -> Nat] /\ IsFiniteSet(Locals)
      BY <1>1 DEF Facts
    <2>3. held' = held
      BY <1>3
    <2> QED BY <2>1, <2>2, <2>3, LocalsEffect
  <1>5. Sums /\ Zeros
    BY <1>1, CountParts DEF IInv, Facts
  <1>6. Sums' /\ Zeros'
    BY <1>4, NextParts
  <1>7. Moved(t, "write_null", "field", "idle") /\ Recounted(t, "write_null", "field")
    <2>1. "write_null" \in Labels /\ "field" \in Slots /\ "idle" \in Labels
      BY <1>1, <1>3 DEF Labels, Slots, Referents, Facts
    <2> QED BY <2>1, <1>1, <1>3, StepEffect DEF IInv
  <1>8. StrongRefs' = StrongRefs
    BY <1>1, <1>3, <1>4, <1>5, <1>6, <1>7 DEF B2N, InFinalizer, Owned, Ops, RpInv, FinalInv,
       Finalizing, MutatorInv, Facts, Sums, Moved, Recounted
  <1>9. ReferentRefs("weak")' = ReferentRefs("weak")
    BY <1>1, <1>3, <1>5, <1>6, <1>7 DEF B2N, MutatorInv, Slots, Referents, Facts, Sums, Moved,
       Recounted
  <1>10. ReferentRefs("phantom")' = ReferentRefs("phantom")
    BY <1>1, <1>3, <1>5, <1>6, <1>7 DEF B2N, MutatorInv, Slots, Referents, Facts, Sums, Moved,
       Recounted
  <1>11. OwnRef' = OwnRef
    BY <1>1, <1>2, <1>3, <1>7 DEF B2N, OwnRef, Facts, Bits, Moved
  <1>12. Bits'
    BY <1>2, <1>3, Zenon DEF Bits
  <1>13. TypeOK'
    BY <1>1, <1>4, <1>12, <1>3, <1>7 DEF TypeOK, Header, Slots, Referents, Facts, Bits, Moved
  <1>14. LockInv'
    BY <1>1, <1>2, <1>3, <1>7 DEF LockInv, Facts, Bits, Moved
  <1>15. MutatorInv'
    <2>1. \A s \in Threads : pc'[s] \in MutatorLabels /\ cont'[s] = "idle"
      BY <1>1, <1>3, <1>7 DEF MutatorInv, MutatorLabels, Facts, Moved
    <2>2. \A b \in Actors : pc'[b] \in {"write_referent", "dec_referent"} => arg'[b] \in Referents
      BY <1>1, <1>3, <1>7 DEF MutatorInv, RpInv, Facts, Moved
    <2>3. \A b, d \in Actors :
             pc'[b] = "write_referent"
                => /\ slot'[arg'[b]] = "null"
                   /\ pc'[d] = "write_referent" /\ arg'[b] = arg'[d] => b = d
      BY <1>1, <1>3, <1>7 DEF MutatorInv, Referents, Slots, Facts, Moved
    <2> QED BY <2>1, <2>2, <2>3 DEF MutatorInv
  <1>16. RpInv'
    BY <1>1, <1>2, <1>3, <1>7 DEF RpInv, Facts, Bits, Moved
  <1>17. FinalInv'
    BY <1>1, <1>2, <1>3, <1>7 DEF FinalInv, Finalizing, InFinalizer, Facts, Bits, Moved
  <1>18. DeadInv'
    BY <1>1, <1>2, <1>3, <1>7 DEF DeadInv, NoMutator, Ops, Facts, Bits, Moved
  <1>19. LastInv'
    <2> SUFFICES ASSUME NEW b \in Actors, pc'[b] \in Last PROVE Alone(b)'
      BY DEF LastInv
    <2>1. CASE b = t
      BY <2>1, <1>1, <1>2, <1>3, <1>7 DEF LastInv, Alone, Last, NoMutator, Gone, InFinalizer, Ops,
         Facts, Bits, Moved
    <2>2. CASE b # t
      BY <2>2, <1>1, <1>2, <1>3, <1>7 DEF LastInv, Alone, Last, NoMutator, Gone, InFinalizer, Ops,
         Facts, Bits, Moved
    <2> QED BY <2>1, <2>2
  <1>20. FreedInv'
    BY <1>1, <1>2, <1>3, <1>7 DEF FreedInv, NoMutator, Gone, Ops, Last, Facts, Bits, Moved
  <1>21. CountInv'
    BY <1>1, <1>3, <1>7, <1>8, <1>9, <1>10, <1>11 DEF CountInv, Releasing, Facts, Moved
  <1> QED BY <1>4, <1>13, <1>14, <1>15, <1>16, <1>17, <1>18, <1>19, <1>20, <1>21 DEF IInv

\* WriteSwap().
LEMMA WriteSwapStep ==
    ASSUME IInv, NEW a \in Actors, WriteSwap(a)
    PROVE  IInv'
  <1>1. Facts /\ a \in Actors
    BY IInvFacts DEF Actors
  <1>2. Bits
    BY IInvFacts
  <1>3. PICK l \in {"dec_old", "idle", "finalized"} :
           /\ pc[a] \in {"write_obj", "write_null"} /\ slot["field"] \in {"null", "obj"}
           /\ header' = header /\ finalizable' = finalizable /\ enqueued' = enqueued
           /\ queued' = queued /\ active' = active /\ held' = held /\ ran' = ran
           /\ freed' = freed
           /\ slot' = [slot EXCEPT !["field"] = IF pc[a] = "write_obj" THEN "obj" ELSE "null"]
           /\ Step(a, l, arg[a], cont[a])
           /\ l = (IF slot["field"] = "obj" THEN "dec_old" ELSE cont[a])
           /\ a # RP => cont[a] = "idle"
           /\ a = RP => pc[a] = "write_obj" /\ cont[a] = "finalized"
    BY <1>1 DEF WriteSwap, Goto, MutatorInv, RpInv, Facts
  <1>4. IsFiniteSet(Locals') /\ held' \in [Actors -> Nat] /\ InLocals' = InLocals
    <2>1. held' \in [Actors -> Nat]
      BY <1>1, <1>3 DEF Facts
    <2>2. a \in Actors /\ held \in [Actors -> Nat] /\ IsFiniteSet(Locals)
      BY <1>1 DEF Facts
    <2>3. held' = held
      BY <1>3
    <2> QED BY <2>1, <2>2, <2>3, LocalsEffect
  <1>5. Sums /\ Zeros
    BY <1>1, CountParts DEF IInv, Facts
  <1>6. Sums' /\ Zeros'
    BY <1>4, NextParts
  <1>7. Moved(a, l, arg[a], cont[a]) /\ Recounted(a, l, arg[a])
    <2>1. l \in Labels /\ arg[a] \in Slots /\ cont[a] \in Labels
      BY <1>1, <1>3 DEF Labels, Slots, Referents, Facts
    <2> QED BY <2>1, <1>1, <1>3, StepEffect DEF IInv
  <1>8. StrongRefs' = StrongRefs
    <2> DEFINE F == B2N(slot["field"] # "null")
               A == At(Owned)
               I == B2N(InFinalizer)
    <2>1. InFinalizer' <=> InFinalizer
      BY <1>1, <1>3, <1>7 DEF InFinalizer, Facts, Moved
    <2>2. B2N(slot'["field"] # "null") = B2N(pc[a] = "write_obj")
      BY <1>1, <1>3 DEF B2N, Slots, Facts
    <2>3. B2N(pc[a] \in Owned) = B2N(pc[a] = "write_obj")
      BY <1>3 DEF Owned, Ops, B2N
    <2>4. B2N(l \in Owned) = F
      BY <1>3 DEF Owned, Ops, B2N
    <2>5. A' = A + F - B2N(pc[a] = "write_obj")
      BY <2>3, <2>4, <1>7 DEF B2N, Recounted
    <2>6. I' = I /\ I \in Nat /\ F \in Nat /\ B2N(queued') = B2N(queued) /\ B2N(queued) \in Nat
          /\ B2N(pc[a] = "write_obj") \in Nat
      BY <2>1, <1>3 DEF B2N
    <2>7. /\ StrongRefs = InLocals + F + A + B2N(queued) + I
          /\ StrongRefs' = InLocals' + B2N(pc[a] = "write_obj") + A' + B2N(queued') + I'
      BY <2>2, <1>5, <1>6 DEF Sums
    <2> HIDE DEF F, A, I
    <2> QED BY <2>5, <2>6, <2>7, <1>4, <1>5 DEF A, Sums
  <1>9. ReferentRefs("weak")' = ReferentRefs("weak")
    BY <1>1, <1>3, <1>5, <1>6, <1>7 DEF B2N, MutatorInv, Slots, Referents, Facts, Sums, Moved,
       Recounted
  <1>10. ReferentRefs("phantom")' = ReferentRefs("phantom")
    BY <1>1, <1>3, <1>5, <1>6, <1>7 DEF B2N, MutatorInv, Slots, Referents, Facts, Sums, Moved,
       Recounted
  <1>11. OwnRef' = OwnRef
    BY <1>1, <1>2, <1>3, <1>7 DEF B2N, OwnRef, Facts, Bits, Moved
  <1>12. Bits'
    BY <1>2, <1>3, Zenon DEF Bits
  <1>13. TypeOK'
    BY <1>1, <1>4, <1>12, <1>3, <1>7 DEF TypeOK, Header, Slots, Referents, Facts, Bits, Moved
  <1>14. LockInv'
    BY <1>1, <1>2, <1>3, <1>7 DEF LockInv, Facts, Bits, Moved
  <1>15. MutatorInv'
    <2>1. \A s \in Threads : pc'[s] \in MutatorLabels /\ cont'[s] = "idle"
      BY <1>1, <1>3, <1>7 DEF MutatorInv, MutatorLabels, Referents, Slots, Facts, Moved
    <2>2. \A b \in Actors : pc'[b] \in {"write_referent", "dec_referent"} => arg'[b] \in Referents
      BY <1>1, <1>3, <1>7 DEF MutatorInv, RpInv, Referents, Slots, Facts, Moved
    <2>3. \A b, d \in Actors :
             pc'[b] = "write_referent"
                => /\ slot'[arg'[b]] = "null"
                   /\ pc'[d] = "write_referent" /\ arg'[b] = arg'[d] => b = d
      BY <1>1, <1>3, <1>7 DEF MutatorInv, Referents, Slots, Facts, Moved
    <2> QED BY <2>1, <2>2, <2>3 DEF MutatorInv
  <1>16. RpInv'
    BY <1>1, <1>2, <1>3, <1>7 DEF RpInv, Facts, Bits, Moved
  <1>17. FinalInv'
    BY <1>1, <1>2, <1>3, <1>7 DEF FinalInv, Finalizing, InFinalizer, Facts, Bits, Moved
  <1>18. DeadInv'
    BY <1>1, <1>2, <1>3, <1>7 DEF DeadInv, NoMutator, Ops, FinalInv, InFinalizer, Facts, Bits,
       Moved
  <1>19. LastInv'
    <2> SUFFICES ASSUME NEW b \in Actors, pc'[b] \in Last PROVE Alone(b)'
      BY DEF LastInv
    <2>1. CASE b = a
      BY <2>1, <1>1, <1>2, <1>3, <1>7 DEF LastInv, Alone, Last, NoMutator, Gone, InFinalizer, Ops,
         Facts, Bits, Moved
    <2>2. CASE b # a
      BY <2>2, <1>1, <1>2, <1>3, <1>7 DEF LastInv, Alone, Last, NoMutator, Gone, InFinalizer, Ops,
         Facts, Bits, Moved
    <2> QED BY <2>1, <2>2
  <1>20. FreedInv'
    BY <1>1, <1>2, <1>3, <1>7 DEF FreedInv, NoMutator, Gone, Ops, Last, Facts, Bits, Moved
  <1>21. CountInv'
    BY <1>1, <1>3, <1>7, <1>8, <1>9, <1>10, <1>11 DEF CountInv, Releasing, Facts, Moved
  <1> QED BY <1>4, <1>13, <1>14, <1>15, <1>16, <1>17, <1>18, <1>19, <1>20, <1>21 DEF IInv

\* DecOld() of a mutator.
LEMMA DecOldMutator ==
    ASSUME IInv, NEW t \in Threads, DecOld(t)
    PROVE  IInv'
  <1>1. Facts /\ t \in Actors
    BY IInvFacts DEF Actors
  <1>2. Bits
    BY IInvFacts
  <1>3. /\ pc[t] = "dec_old" /\ cont[t] = "idle"
        /\ finalizable' = finalizable /\ enqueued' = enqueued /\ queued' = queued
        /\ slot' = slot /\ active' = active /\ held' = held /\ ran' = ran /\ freed' = freed
        /\ Dec(t, -1, 0, 0, "idle")
    <2>1. cont[t] = "idle"
      BY <1>1 DEF MutatorInv, Facts
    <2> QED BY <1>1, <2>1 DEF DecOld, Facts
  <1>4. IsFiniteSet(Locals') /\ held' \in [Actors -> Nat] /\ InLocals' = InLocals
    <2>1. held' \in [Actors -> Nat]
      BY <1>1, <1>3 DEF Facts
    <2>2. t \in Actors /\ held \in [Actors -> Nat] /\ IsFiniteSet(Locals)
      BY <1>1 DEF Facts
    <2>3. held' = held
      BY <1>3
    <2> QED BY <2>1, <2>2, <2>3, LocalsEffect
  <1>5. freed = 0 /\ ~Releasing
    BY <1>1, <1>2, <1>3 DEF Releasing, LockInv, LastInv, Alone, FreedInv, Last, NoMutator, Gone,
       InFinalizer, Ops, MutatorInv, RpInv, Facts, Bits
  <1>6. Sums /\ Zeros
    BY <1>1, CountParts DEF IInv, Facts
  <1>7. Sums' /\ Zeros'
    BY <1>4, NextParts
  <1>8. CanAdd(-1, 0, 0)
    BY <1>1, <1>3, <1>6 DEF CanAdd, OwnRef, B2N, InFinalizer, Owned, Ops, Referents, Facts, Sums,
       Zeros
  <1>9. /\ CountedNext(-1, 0, 0)
        /\ \E l \in {"idle", "release", "collected"} : Decided(t, l, -1, 0, 0, "idle")
    <2>1. "idle" \notin {"release", "collected"}
      OBVIOUS
    <2>2. t \in Actors /\ Dec(t, -1, 0, 0, "idle")
      BY <1>1, <1>3
    <2> QED BY <2>1, <2>2, <1>5, <1>8, DecStep
  <1>10. PICK l \in {"idle", "release", "collected"} : Decided(t, l, -1, 0, 0, "idle")
    BY <1>9
  <1>11. /\ l \in {"idle", "release", "collected"}
         /\ header.collected => header'.collected
         /\ header'.collected => header.collected \/ l = "collected"
         /\ l = "collected" => ~header.collected /\ header'.collected
    BY <1>10, Zenon DEF Decided
  <1>12. Moved(t, l, arg[t], "idle") /\ Recounted(t, l, arg[t])
    <2>1. l \in Labels /\ arg[t] \in Slots /\ "idle" \in Labels
      BY <1>1, <1>3, <1>10 DEF Labels, Slots, Referents, Facts, Decided
    <2> QED BY <2>1, <1>1, <1>10, StepEffect DEF IInv, Decided
  <1>13. StrongRefs' = StrongRefs - 1
    BY <1>1, <1>3, <1>4, <1>6, <1>7, <1>12, <1>10 DEF B2N, InFinalizer, Owned, Ops, RpInv,
       FinalInv, Finalizing, MutatorInv, Facts, Sums, Moved, Recounted, Decided
  <1>14. ReferentRefs("weak")' = ReferentRefs("weak")
    BY <1>1, <1>3, <1>6, <1>7, <1>12, <1>10 DEF B2N, MutatorInv, Slots, Referents, Facts, Sums,
       Moved, Recounted, Decided
  <1>15. ReferentRefs("phantom")' = ReferentRefs("phantom")
    BY <1>1, <1>3, <1>6, <1>7, <1>12, <1>10 DEF B2N, MutatorInv, Slots, Referents, Facts, Sums,
       Moved, Recounted, Decided
  <1>16. OwnRef' = OwnRef
    <2>1. CASE l = "collected"
      BY <2>1, <1>1, <1>2, <1>3, <1>12, <1>11 DEF B2N, OwnRef, Facts, Bits, Moved
    <2>2. CASE l # "collected"
      <3>1. (\E b \in Actors : pc'[b] \in {"collected", "weak_release"})
               <=> (\E b \in Actors : pc[b] \in {"collected", "weak_release"})
        BY <2>2, <1>1, <1>3, <1>12, <1>11 DEF Facts, Moved
      <3>2. pc'[RP] = "post_finalizable" <=> pc[RP] = "post_finalizable"
        BY <2>2, <1>1, <1>3, <1>12, <1>11 DEF Facts, Moved
      <3>3. (~header'.collected <=> ~header.collected) /\ finalizable' = finalizable
        BY <2>2, <1>3, <1>11, Zenon
      <3> QED BY <3>1, <3>2, <3>3, Zenon DEF B2N, OwnRef
    <2> QED BY <2>1, <2>2
  <1>17. Balanced(-1, 0, 0)
    <2>1. /\ StrongRefs \in Nat /\ ReferentRefs("weak") \in Nat
          /\ ReferentRefs("phantom") \in Nat /\ OwnRef \in Nat
      BY <1>6 DEF B2N, Sums
    <2> QED BY <2>1, <1>13, <1>14, <1>15, <1>16 DEF Balanced
  <1>18. l # "idle" => NothingLeft' /\ (l = "release" => Gone')
    BY <1>1, <1>17, <1>10, <1>12, <1>7, NothingLeftStep
  <1>19. l # "idle" => \A b \in Actors : b # t => pc[b] \notin Last
    BY <1>1, <1>2, <1>3, <1>12, <1>10, <1>18, <1>7 DEF OwnRef, B2N, LastInv, Alone, Last,
       NoMutator, Gone, InFinalizer, Owned, Ops, MutatorInv, Facts, Bits, Moved, Decided,
       NothingLeft, Sums
  <1>20. Bits'
    BY <1>2, <1>3, Zenon DEF Bits
  <1>21. TypeOK'
    BY <1>1, <1>4, <1>20, <1>3, <1>12, <1>11, <1>9 DEF TypeOK, Header, Slots, Referents, Facts,
       Bits, Moved, CountedNext
  <1>22. LockInv'
    BY <1>1, <1>2, <1>3, <1>12, <1>11 DEF LockInv, Facts, Bits, Moved
  <1>23. MutatorInv'
    <2>1. \A s \in Threads : pc'[s] \in MutatorLabels /\ cont'[s] = "idle"
      BY <1>1, <1>3, <1>12, <1>11, <1>10 DEF MutatorInv, MutatorLabels, Facts, Moved
    <2>2. \A b \in Actors : pc'[b] \in {"write_referent", "dec_referent"} => arg'[b] \in Referents
      BY <1>1, <1>3, <1>12, <1>11, <1>10 DEF MutatorInv, RpInv, Facts, Moved
    <2>3. \A b, d \in Actors :
             pc'[b] = "write_referent"
                => /\ slot'[arg'[b]] = "null"
                   /\ pc'[d] = "write_referent" /\ arg'[b] = arg'[d] => b = d
      BY <1>1, <1>3, <1>12, <1>11, <1>10 DEF MutatorInv, Referents, Slots, Facts, Moved
    <2> QED BY <2>1, <2>2, <2>3 DEF MutatorInv
  <1>24. RpInv'
    BY <1>1, <1>2, <1>3, <1>12, <1>11 DEF RpInv, Facts, Bits, Moved
  <1>25. FinalInv'
    BY <1>1, <1>2, <1>3, <1>12, <1>11, <1>18 DEF FinalInv, Finalizing, InFinalizer, Facts, Bits,
       Moved, NothingLeft
  <1>26. DeadInv'
    <2>1. CASE l = "collected"
      BY <2>1, <1>3, <1>18, <1>11 DEF DeadInv, NothingLeft
    <2>2. CASE l # "collected"
      <3>1. header'.collected => header.collected
        BY <2>2, <1>11
      <3>2. NoMutator => NoMutator'
        BY <1>1, <1>3, <1>12, <1>11 DEF NoMutator, Ops, Facts, Moved
      <3> QED BY <3>1, <3>2, <1>1, <1>3 DEF DeadInv, Facts
    <2> QED BY <2>1, <2>2
  <1>27. LastInv'
    <2> SUFFICES ASSUME NEW b \in Actors, pc'[b] \in Last PROVE Alone(b)'
      BY DEF LastInv
    <2>1. CASE b = t
      BY <2>1, <1>1, <1>3, <1>12, <1>11, <1>10, <1>5, <1>18, <1>19, <1>25 DEF FinalInv,
         Finalizing, InFinalizer, Alone, Last, Facts, Moved, NothingLeft
    <2>2. CASE b # t
      BY <2>2, <1>1, <1>2, <1>3, <1>12, <1>11, <1>19, <1>5 DEF LastInv, Alone, Last, NoMutator,
         Gone, InFinalizer, Ops, Facts, Bits, Moved
    <2> QED BY <2>1, <2>2
  <1>28. FreedInv'
    BY <1>1, <1>2, <1>3, <1>12, <1>11, <1>18, <1>19, <1>5 DEF FreedInv, NoMutator, Gone, Ops,
       Last, Facts, Bits, Moved, NothingLeft
  <1>29. CountInv'
    BY <1>9, <1>17, CountsKept
  <1> QED BY <1>4, <1>21, <1>22, <1>23, <1>24, <1>25, <1>26, <1>27, <1>28, <1>29 DEF IInv

\* DecOld() of finalize(), which the list keeps alive.
LEMMA DecOldFinalizer ==
    ASSUME IInv, DecOld(RP)
    PROVE  IInv'
  <1>1. Facts /\ RP \in Actors
    BY IInvFacts DEF Actors
  <1>2. Bits
    BY IInvFacts
  <1>3. /\ pc[RP] = "dec_old" /\ cont[RP] = "finalized"
        /\ finalizable' = finalizable /\ enqueued' = enqueued /\ queued' = queued
        /\ slot' = slot /\ active' = active /\ held' = held /\ ran' = ran /\ freed' = freed
        /\ Dec(RP, -1, 0, 0, cont[RP])
    <2>1. cont[RP] = "finalized"
      BY <1>1 DEF DecOld, RpInv, Facts
    <2> QED BY <1>1, <2>1 DEF DecOld, Facts
  <1>4. IsFiniteSet(Locals') /\ held' \in [Actors -> Nat] /\ InLocals' = InLocals
    <2>1. held' \in [Actors -> Nat]
      BY <1>1, <1>3 DEF Facts
    <2>2. RP \in Actors /\ held \in [Actors -> Nat] /\ IsFiniteSet(Locals)
      BY <1>1 DEF Facts
    <2>3. held' = held
      BY <1>3
    <2> QED BY <2>1, <2>2, <2>3, LocalsEffect
  <1>5. freed = 0 /\ ~Releasing
    BY <1>1, <1>2, <1>3 DEF Releasing, LockInv, LastInv, Alone, FreedInv, Last, NoMutator, Gone,
       InFinalizer, Ops, MutatorInv, RpInv, Facts, Bits
  <1>6. Sums /\ Zeros
    BY <1>1, CountParts DEF IInv, Facts
  <1>7. Sums' /\ Zeros'
    BY <1>4, NextParts
  <1>8. CanAdd(-1, 0, 0) /\ StrongRefs - 1 # 0
    BY <1>1, <1>3, <1>6 DEF CanAdd, OwnRef, B2N, InFinalizer, Owned, Ops, Referents, Facts, Sums,
       Zeros
  <1>9. /\ CountedNext(-1, 0, 0)
        /\ \E l \in {cont[RP], "release", "collected"} : Decided(RP, l, -1, 0, 0, cont[RP])
    <2>1. cont[RP] \notin {"release", "collected"}
      BY <1>3
    <2>2. RP \in Actors /\ Dec(RP, -1, 0, 0, cont[RP])
      BY <1>1, <1>3
    <2> QED BY <2>1, <2>2, <1>5, <1>8, DecStep
  <1>10. PICK l \in {cont[RP], "release", "collected"} : Decided(RP, l, -1, 0, 0, cont[RP])
    BY <1>9
  <1>11. /\ l \in {cont[RP], "release", "collected"}
         /\ header.collected => header'.collected
         /\ header'.collected => header.collected \/ l = "collected"
         /\ l = "collected" => ~header.collected /\ header'.collected
    BY <1>10, Zenon DEF Decided
  <1>12. l = cont[RP]
    BY <1>10, <1>8, <1>6 DEF B2N, Decided, Sums
  <1>13. Moved(RP, l, arg[RP], cont[RP]) /\ Recounted(RP, l, arg[RP])
    <2>1. l \in Labels /\ arg[RP] \in Slots /\ cont[RP] \in Labels
      BY <1>1, <1>3, <1>10 DEF Labels, Slots, Referents, Facts, Decided
    <2> QED BY <2>1, <1>1, <1>10, StepEffect DEF IInv, Decided
  <1>14. StrongRefs' = StrongRefs - 1
    BY <1>1, <1>3, <1>4, <1>6, <1>7, <1>13, <1>10, <1>12 DEF B2N, InFinalizer, Owned, Ops, RpInv,
       FinalInv, Finalizing, MutatorInv, Facts, Sums, Moved, Recounted, Decided
  <1>15. ReferentRefs("weak")' = ReferentRefs("weak")
    BY <1>1, <1>3, <1>6, <1>7, <1>13, <1>10, <1>12 DEF B2N, MutatorInv, Slots, Referents, Facts,
       Sums, Moved, Recounted, Decided
  <1>16. ReferentRefs("phantom")' = ReferentRefs("phantom")
    BY <1>1, <1>3, <1>6, <1>7, <1>13, <1>10, <1>12 DEF B2N, MutatorInv, Slots, Referents, Facts,
       Sums, Moved, Recounted, Decided
  <1>17. OwnRef' = OwnRef
    <2>1. CASE l = "collected"
      BY <2>1, <1>1, <1>2, <1>3, <1>13, <1>11, <1>12 DEF B2N, OwnRef, Facts, Bits, Moved
    <2>2. CASE l # "collected"
      <3>1. (\E b \in Actors : pc'[b] \in {"collected", "weak_release"})
               <=> (\E b \in Actors : pc[b] \in {"collected", "weak_release"})
        BY <2>2, <1>1, <1>3, <1>13, <1>11 DEF Facts, Moved
      <3>2. pc'[RP] = "post_finalizable" <=> pc[RP] = "post_finalizable"
        BY <2>2, <1>1, <1>3, <1>13, <1>11 DEF Facts, Moved
      <3>3. (~header'.collected <=> ~header.collected) /\ finalizable' = finalizable
        BY <2>2, <1>3, <1>11, Zenon
      <3> QED BY <3>1, <3>2, <3>3, Zenon DEF B2N, OwnRef
    <2> QED BY <2>1, <2>2
  <1>18. Balanced(-1, 0, 0)
    <2>1. /\ StrongRefs \in Nat /\ ReferentRefs("weak") \in Nat
          /\ ReferentRefs("phantom") \in Nat /\ OwnRef \in Nat
      BY <1>6 DEF B2N, Sums
    <2> QED BY <2>1, <1>14, <1>15, <1>16, <1>17 DEF Balanced
  <1>19. l # cont[RP] => NothingLeft' /\ (l = "release" => Gone')
    BY <1>12
  <1>20. l # cont[RP] => \A b \in Actors : b # RP => pc[b] \notin Last
    BY <1>12
  <1>21. Bits'
    BY <1>2, <1>3, Zenon DEF Bits
  <1>22. TypeOK'
    BY <1>1, <1>4, <1>21, <1>3, <1>13, <1>11, <1>12, <1>9 DEF TypeOK, Header, Slots, Referents,
       Facts, Bits, Moved, CountedNext
  <1>23. LockInv'
    BY <1>1, <1>2, <1>3, <1>13, <1>11, <1>12 DEF LockInv, Facts, Bits, Moved
  <1>24. MutatorInv'
    <2>1. \A s \in Threads : pc'[s] \in MutatorLabels /\ cont'[s] = "idle"
      BY <1>1, <1>3, <1>13, <1>11, <1>12 DEF MutatorInv, MutatorLabels, Facts, Moved
    <2>2. \A b \in Actors : pc'[b] \in {"write_referent", "dec_referent"} => arg'[b] \in Referents
      BY <1>1, <1>3, <1>13, <1>11, <1>12 DEF MutatorInv, RpInv, Facts, Moved
    <2>3. \A b, d \in Actors :
             pc'[b] = "write_referent"
                => /\ slot'[arg'[b]] = "null"
                   /\ pc'[d] = "write_referent" /\ arg'[b] = arg'[d] => b = d
      BY <1>1, <1>3, <1>13, <1>11, <1>12 DEF MutatorInv, Referents, Slots, Facts, Moved
    <2> QED BY <2>1, <2>2, <2>3 DEF MutatorInv
  <1>25. RpInv'
    BY <1>1, <1>2, <1>3, <1>13, <1>11, <1>12 DEF RpInv, Facts, Bits, Moved
  <1>26. FinalInv'
    BY <1>1, <1>2, <1>3, <1>13, <1>11, <1>12, <1>19 DEF FinalInv, Finalizing, InFinalizer, Facts,
       Bits, Moved, NothingLeft
  <1>27. DeadInv'
    <2>1. CASE l = "collected"
      BY <2>1, <1>3, <1>19, <1>11 DEF DeadInv, NothingLeft
    <2>2. CASE l # "collected"
      <3>1. header'.collected => header.collected
        BY <2>2, <1>11
      <3>2. NoMutator => NoMutator'
        BY <1>1, <1>3, <1>13, <1>11 DEF NoMutator, Ops, Facts, Moved
      <3> QED BY <3>1, <3>2, <1>1, <1>3 DEF DeadInv, Facts
    <2> QED BY <2>1, <2>2
  <1>28. LastInv'
    <2> SUFFICES ASSUME NEW b \in Actors, pc'[b] \in Last PROVE Alone(b)'
      BY DEF LastInv
    <2>1. CASE b = RP
      BY <2>1, <1>1, <1>3, <1>13, <1>11, <1>12, <1>5, <1>19, <1>20, <1>26 DEF FinalInv,
         Finalizing, InFinalizer, Alone, Last, Facts, Moved, NothingLeft
    <2>2. CASE b # RP
      BY <2>2, <1>1, <1>2, <1>3, <1>13, <1>11, <1>12, <1>20, <1>5 DEF LastInv, Alone, Last,
         NoMutator, Gone, InFinalizer, Ops, Facts, Bits, Moved
    <2> QED BY <2>1, <2>2
  <1>29. FreedInv'
    BY <1>1, <1>2, <1>3, <1>13, <1>11, <1>12, <1>19, <1>20, <1>5 DEF FreedInv, NoMutator, Gone,
       Ops, Last, Facts, Bits, Moved, NothingLeft
  <1>30. CountInv'
    BY <1>9, <1>18, CountsKept
  <1> QED BY <1>4, <1>22, <1>23, <1>24, <1>25, <1>26, <1>27, <1>28, <1>29, <1>30 DEF IInv

\* NewReference().
LEMMA NewReferenceStep ==
    ASSUME IInv, NEW t \in Threads, NewReference(t)
    PROVE  IInv'
  <1>1. Facts /\ t \in Actors
    BY IInvFacts DEF Actors
  <1>2. Bits
    BY IInvFacts
  <1>3. PICK k \in Referents :
           /\ pc[t] = "idle" /\ held[t] > 0 /\ slot[k] = "null"
           /\ \A b \in Actors : pc[b] = "write_referent" => arg[b] # k
           /\ finalizable' = finalizable /\ enqueued' = enqueued /\ queued' = queued
           /\ slot' = slot /\ active' = active /\ held' = held /\ ran' = ran /\ freed' = freed
           /\ header' = AtomicUpdateRC(1, 0, 0)
           /\ Step(t, "write_referent", k, "idle")
    BY DEF NewReference
  <1>4. IsFiniteSet(Locals') /\ held' \in [Actors -> Nat] /\ InLocals' = InLocals
    <2>1. held' \in [Actors -> Nat]
      BY <1>1, <1>3 DEF Facts
    <2>2. t \in Actors /\ held \in [Actors -> Nat] /\ IsFiniteSet(Locals)
      BY <1>1 DEF Facts
    <2>3. held' = held
      BY <1>3
    <2> QED BY <2>1, <2>2, <2>3, LocalsEffect
  <1>5. freed = 0 /\ ~Releasing
    BY <1>1, <1>2, <1>3 DEF Releasing, LockInv, LastInv, Alone, FreedInv, Last, NoMutator, Gone,
       InFinalizer, Ops, MutatorInv, RpInv, Facts, Bits
  <1>6. Sums /\ Zeros
    BY <1>1, CountParts DEF IInv, Facts
  <1>7. Sums' /\ Zeros'
    BY <1>4, NextParts
  <1>8. Moved(t, "write_referent", k, "idle") /\ Recounted(t, "write_referent", k)
    <2>1. "write_referent" \in Labels /\ k \in Slots /\ "idle" \in Labels
      BY <1>1, <1>3 DEF Labels, Slots, Referents, Facts
    <2> QED BY <2>1, <1>1, <1>3, StepEffect DEF IInv
  <1>9. CanAdd(1, 0, 0)
    BY <1>1, <1>3, <1>6 DEF CanAdd, Owned, Ops, B2N, Facts, Sums, Zeros
  <1>10. CountedNext(1, 0, 0) /\ header'.collected = header.collected
    BY <1>3, <1>5, <1>9, UpdateStep
  <1>11. StrongRefs' = StrongRefs + 1
    <2>1. InFinalizer' <=> InFinalizer
      BY <1>1, <1>3, <1>8 DEF InFinalizer, Facts, Moved
    <2>2. B2N(pc[t] \in Owned) = 0 /\ B2N("write_referent" \in Owned) = 1
      BY <1>3 DEF Owned, Ops, B2N
    <2> QED BY <2>1, <2>2, <1>3, <1>4, <1>6, <1>7, <1>8 DEF B2N, Sums, Recounted
  <1>12. ReferentRefs("weak")' = ReferentRefs("weak")
    BY <1>1, <1>3, <1>6, <1>7, <1>8 DEF B2N, MutatorInv, Slots, Referents, Facts, Sums, Moved,
       Recounted
  <1>13. ReferentRefs("phantom")' = ReferentRefs("phantom")
    BY <1>1, <1>3, <1>6, <1>7, <1>8 DEF B2N, MutatorInv, Slots, Referents, Facts, Sums, Moved,
       Recounted
  <1>14. OwnRef' = OwnRef
    BY <1>1, <1>2, <1>3, <1>8, <1>10 DEF B2N, OwnRef, Facts, Bits, Moved, CountedNext
  <1>15. Balanced(1, 0, 0)
    <2>1. /\ StrongRefs \in Nat /\ ReferentRefs("weak") \in Nat
          /\ ReferentRefs("phantom") \in Nat /\ OwnRef \in Nat
      BY <1>6 DEF B2N, Sums
    <2> QED BY <2>1, <1>11, <1>12, <1>13, <1>14 DEF Balanced
  <1>16. Bits'
    BY <1>2, <1>3, Zenon DEF Bits
  <1>17. TypeOK'
    BY <1>1, <1>4, <1>16, <1>3, <1>8, <1>10 DEF TypeOK, Header, Slots, Referents, Facts, Bits,
       Moved, CountedNext
  <1>18. LockInv'
    BY <1>1, <1>2, <1>3, <1>8, <1>10 DEF LockInv, Facts, Bits, Moved, CountedNext
  <1>19. MutatorInv'
    <2>1. \A s \in Threads : pc'[s] \in MutatorLabels /\ cont'[s] = "idle"
      BY <1>1, <1>3, <1>8 DEF MutatorInv, MutatorLabels, Facts, Moved
    <2>2. \A b \in Actors : pc'[b] \in {"write_referent", "dec_referent"} => arg'[b] \in Referents
      BY <1>1, <1>3, <1>8 DEF MutatorInv, RpInv, Facts, Moved
    <2>3. \A b, d \in Actors :
             pc'[b] = "write_referent"
                => /\ slot'[arg'[b]] = "null"
                   /\ pc'[d] = "write_referent" /\ arg'[b] = arg'[d] => b = d
      BY <1>1, <1>3, <1>8 DEF MutatorInv, Referents, Slots, Facts, Moved
    <2> QED BY <2>1, <2>2, <2>3 DEF MutatorInv
  <1>20. RpInv'
    BY <1>1, <1>2, <1>3, <1>8, <1>10 DEF RpInv, Facts, Bits, Moved, CountedNext
  <1>21. FinalInv'
    BY <1>1, <1>2, <1>3, <1>8, <1>10 DEF FinalInv, Finalizing, InFinalizer, Facts, Bits, Moved,
       CountedNext
  <1>22. DeadInv'
    BY <1>1, <1>2, <1>3, <1>8, <1>10 DEF DeadInv, NoMutator, Ops, Facts, Bits, Moved, CountedNext
  <1>23. LastInv'
    <2> SUFFICES ASSUME NEW b \in Actors, pc'[b] \in Last PROVE Alone(b)'
      BY DEF LastInv
    <2>1. CASE b = t
      BY <2>1, <1>1, <1>2, <1>3, <1>8, <1>10, <1>5 DEF LastInv, Alone, Last, NoMutator, Gone,
         InFinalizer, Ops, Facts, Bits, Moved, CountedNext
    <2>2. CASE b # t
      BY <2>2, <1>1, <1>2, <1>3, <1>8, <1>10, <1>5 DEF LastInv, Alone, Last, NoMutator, Gone,
         InFinalizer, Ops, Facts, Bits, Moved, CountedNext
    <2> QED BY <2>1, <2>2
  <1>24. FreedInv'
    BY <1>1, <1>2, <1>3, <1>8, <1>10, <1>5 DEF FreedInv, NoMutator, Gone, Ops, Last, Facts, Bits,
       Moved, CountedNext
  <1>25. CountInv'
    BY <1>10, <1>15, CountsKept
  <1> QED BY <1>4, <1>17, <1>18, <1>19, <1>20, <1>21, <1>22, <1>23, <1>24, <1>25 DEF IInv

\* WriteReferent() of a WeakReference.
LEMMA WriteReferentWeak ==
    ASSUME IInv, NEW t \in Threads, WriteReferent(t), arg[t] = "weak"
    PROVE  IInv'
  <1>1. Facts /\ t \in Actors
    BY IInvFacts DEF Actors
  <1>2. Bits
    BY IInvFacts
  <1>3. /\ pc[t] = "write_referent" /\ arg[t] = "weak" /\ slot["weak"] = "null"
        /\ finalizable' = finalizable /\ enqueued' = enqueued /\ queued' = queued
        /\ active' = active /\ held' = held /\ ran' = ran /\ freed' = freed
        /\ slot' = [slot EXCEPT !["weak"] = "obj"]
        /\ header' = AtomicUpdateRC(-1, 0, 1)
        /\ Step(t, "idle", arg[t], cont[t])
    BY <1>1 DEF WriteReferent, Goto, MutatorInv, Facts
  <1>4. IsFiniteSet(Locals') /\ held' \in [Actors -> Nat] /\ InLocals' = InLocals
    <2>1. held' \in [Actors -> Nat]
      BY <1>1, <1>3 DEF Facts
    <2>2. t \in Actors /\ held \in [Actors -> Nat] /\ IsFiniteSet(Locals)
      BY <1>1 DEF Facts
    <2>3. held' = held
      BY <1>3
    <2> QED BY <2>1, <2>2, <2>3, LocalsEffect
  <1>5. freed = 0 /\ ~Releasing
    BY <1>1, <1>2, <1>3 DEF Releasing, LockInv, LastInv, Alone, FreedInv, Last, NoMutator, Gone,
       InFinalizer, Ops, MutatorInv, RpInv, Facts, Bits
  <1>6. Sums /\ Zeros
    BY <1>1, CountParts DEF IInv, Facts
  <1>7. Sums' /\ Zeros'
    BY <1>4, NextParts
  <1>8. Moved(t, "idle", arg[t], cont[t]) /\ Recounted(t, "idle", arg[t])
    <2>1. "idle" \in Labels /\ arg[t] \in Slots /\ cont[t] \in Labels
      BY <1>1, <1>3 DEF Labels, Slots, Referents, Facts
    <2> QED BY <2>1, <1>1, <1>3, StepEffect DEF IInv
  <1>9. CanAdd(-1, 0, 1)
    BY <1>1, <1>3, <1>6 DEF CanAdd, Owned, Ops, B2N, Facts, Sums, Zeros
  <1>10. CountedNext(-1, 0, 1) /\ header'.collected = header.collected
    BY <1>3, <1>5, <1>9, UpdateStep
  <1>11. StrongRefs' = StrongRefs - 1
    BY <1>1, <1>3, <1>4, <1>6, <1>7, <1>8 DEF B2N, InFinalizer, Owned, Ops, RpInv, FinalInv,
       Finalizing, MutatorInv, Facts, Sums, Moved, Recounted
  <1>12. ReferentRefs("weak")' = ReferentRefs("weak") + 1
    BY <1>1, <1>3, <1>6, <1>7, <1>8 DEF B2N, MutatorInv, Slots, Referents, Facts, Sums, Moved,
       Recounted
  <1>13. ReferentRefs("phantom")' = ReferentRefs("phantom")
    BY <1>1, <1>3, <1>6, <1>7, <1>8 DEF B2N, MutatorInv, Slots, Referents, Facts, Sums, Moved,
       Recounted
  <1>14. OwnRef' = OwnRef
    BY <1>1, <1>2, <1>3, <1>8, <1>10 DEF B2N, OwnRef, Facts, Bits, Moved, CountedNext
  <1>15. Balanced(-1, 0, 1)
    <2>1. /\ StrongRefs \in Nat /\ ReferentRefs("weak") \in Nat
          /\ ReferentRefs("phantom") \in Nat /\ OwnRef \in Nat
      BY <1>6 DEF B2N, Sums
    <2> QED BY <2>1, <1>11, <1>12, <1>13, <1>14 DEF Balanced
  <1>16. Bits'
    BY <1>2, <1>3, Zenon DEF Bits
  <1>17. TypeOK'
    BY <1>1, <1>4, <1>16, <1>3, <1>8, <1>10 DEF TypeOK, Header, Slots, Referents, Facts, Bits,
       Moved, CountedNext
  <1>18. LockInv'
    BY <1>1, <1>2, <1>3, <1>8, <1>10 DEF LockInv, Facts, Bits, Moved, CountedNext
  <1>19. MutatorInv'
    <2>1. \A s \in Threads : pc'[s] \in MutatorLabels /\ cont'[s] = "idle"
      BY <1>1, <1>3, <1>8 DEF MutatorInv, MutatorLabels, Facts, Moved
    <2>2. \A b \in Actors : pc'[b] \in {"write_referent", "dec_referent"} => arg'[b] \in Referents
      BY <1>1, <1>3, <1>8 DEF MutatorInv, RpInv, Facts, Moved
    <2>3. \A b, d \in Actors :
             pc'[b] = "write_referent"
                => /\ slot'[arg'[b]] = "null"
                   /\ pc'[d] = "write_referent" /\ arg'[b] = arg'[d] => b = d
      BY <1>1, <1>3, <1>8 DEF MutatorInv, Referents, Slots, Facts, Moved
    <2> QED BY <2>1, <2>2, <2>3 DEF MutatorInv
  <1>20. RpInv'
    BY <1>1, <1>2, <1>3, <1>8, <1>10 DEF RpInv, Facts, Bits, Moved, CountedNext
  <1>21. FinalInv'
    BY <1>1, <1>2, <1>3, <1>8, <1>10 DEF FinalInv, Finalizing, InFinalizer, Facts, Bits, Moved,
       CountedNext
  <1>22. DeadInv'
    BY <1>1, <1>2, <1>3, <1>8, <1>10 DEF DeadInv, NoMutator, Ops, Facts, Bits, Moved, CountedNext
  <1>23. LastInv'
    <2> SUFFICES ASSUME NEW b \in Actors, pc'[b] \in Last PROVE Alone(b)'
      BY DEF LastInv
    <2>1. CASE b = t
      BY <2>1, <1>1, <1>2, <1>3, <1>8, <1>10, <1>5 DEF LastInv, Alone, Last, NoMutator, Gone,
         InFinalizer, Ops, Facts, Bits, Moved, CountedNext
    <2>2. CASE b # t
      BY <2>2, <1>1, <1>2, <1>3, <1>8, <1>10, <1>5 DEF LastInv, Alone, Last, NoMutator, Gone,
         InFinalizer, Ops, Facts, Bits, Moved, CountedNext
    <2> QED BY <2>1, <2>2
  <1>24. FreedInv'
    BY <1>1, <1>2, <1>3, <1>8, <1>10, <1>5 DEF FreedInv, NoMutator, Gone, Ops, Last, Facts, Bits,
       Moved, CountedNext
  <1>25. CountInv'
    BY <1>10, <1>15, CountsKept
  <1> QED BY <1>4, <1>17, <1>18, <1>19, <1>20, <1>21, <1>22, <1>23, <1>24, <1>25 DEF IInv

\* WriteReferent() of a PhantomReference.
LEMMA WriteReferentPhantom ==
    ASSUME IInv, NEW t \in Threads, WriteReferent(t), arg[t] # "weak"
    PROVE  IInv'
  <1>1. Facts /\ t \in Actors
    BY IInvFacts DEF Actors
  <1>2. Bits
    BY IInvFacts
  <1>3. /\ pc[t] = "write_referent" /\ arg[t] = "phantom" /\ slot["phantom"] = "null"
        /\ finalizable' = finalizable /\ enqueued' = enqueued /\ queued' = queued
        /\ active' = active /\ held' = held /\ ran' = ran /\ freed' = freed
        /\ slot' = [slot EXCEPT !["phantom"] = "obj"]
        /\ header' = AtomicUpdateRC(-1, 1, 0)
        /\ Step(t, "idle", arg[t], cont[t])
    BY <1>1 DEF WriteReferent, Goto, MutatorInv, Referents, Facts
  <1>4. IsFiniteSet(Locals') /\ held' \in [Actors -> Nat] /\ InLocals' = InLocals
    <2>1. held' \in [Actors -> Nat]
      BY <1>1, <1>3 DEF Facts
    <2>2. t \in Actors /\ held \in [Actors -> Nat] /\ IsFiniteSet(Locals)
      BY <1>1 DEF Facts
    <2>3. held' = held
      BY <1>3
    <2> QED BY <2>1, <2>2, <2>3, LocalsEffect
  <1>5. freed = 0 /\ ~Releasing
    BY <1>1, <1>2, <1>3 DEF Releasing, LockInv, LastInv, Alone, FreedInv, Last, NoMutator, Gone,
       InFinalizer, Ops, MutatorInv, RpInv, Facts, Bits
  <1>6. Sums /\ Zeros
    BY <1>1, CountParts DEF IInv, Facts
  <1>7. Sums' /\ Zeros'
    BY <1>4, NextParts
  <1>8. Moved(t, "idle", arg[t], cont[t]) /\ Recounted(t, "idle", arg[t])
    <2>1. "idle" \in Labels /\ arg[t] \in Slots /\ cont[t] \in Labels
      BY <1>1, <1>3 DEF Labels, Slots, Referents, Facts
    <2> QED BY <2>1, <1>1, <1>3, StepEffect DEF IInv
  <1>9. CanAdd(-1, 1, 0)
    BY <1>1, <1>3, <1>6 DEF CanAdd, Owned, Ops, B2N, Facts, Sums, Zeros
  <1>10. CountedNext(-1, 1, 0) /\ header'.collected = header.collected
    BY <1>3, <1>5, <1>9, UpdateStep
  <1>11. StrongRefs' = StrongRefs - 1
    BY <1>1, <1>3, <1>4, <1>6, <1>7, <1>8 DEF B2N, InFinalizer, Owned, Ops, RpInv, FinalInv,
       Finalizing, MutatorInv, Facts, Sums, Moved, Recounted
  <1>12. ReferentRefs("weak")' = ReferentRefs("weak")
    BY <1>1, <1>3, <1>6, <1>7, <1>8 DEF B2N, MutatorInv, Slots, Referents, Facts, Sums, Moved,
       Recounted
  <1>13. ReferentRefs("phantom")' = ReferentRefs("phantom") + 1
    BY <1>1, <1>3, <1>6, <1>7, <1>8 DEF B2N, MutatorInv, Slots, Referents, Facts, Sums, Moved,
       Recounted
  <1>14. OwnRef' = OwnRef
    BY <1>1, <1>2, <1>3, <1>8, <1>10 DEF B2N, OwnRef, Facts, Bits, Moved, CountedNext
  <1>15. Balanced(-1, 1, 0)
    <2>1. /\ StrongRefs \in Nat /\ ReferentRefs("weak") \in Nat
          /\ ReferentRefs("phantom") \in Nat /\ OwnRef \in Nat
      BY <1>6 DEF B2N, Sums
    <2> QED BY <2>1, <1>11, <1>12, <1>13, <1>14 DEF Balanced
  <1>16. Bits'
    BY <1>2, <1>3, Zenon DEF Bits
  <1>17. TypeOK'
    BY <1>1, <1>4, <1>16, <1>3, <1>8, <1>10 DEF TypeOK, Header, Slots, Referents, Facts, Bits,
       Moved, CountedNext
  <1>18. LockInv'
    BY <1>1, <1>2, <1>3, <1>8, <1>10 DEF LockInv, Facts, Bits, Moved, CountedNext
  <1>19. MutatorInv'
    <2>1. \A s \in Threads : pc'[s] \in MutatorLabels /\ cont'[s] = "idle"
      BY <1>1, <1>3, <1>8 DEF MutatorInv, MutatorLabels, Facts, Moved
    <2>2. \A b \in Actors : pc'[b] \in {"write_referent", "dec_referent"} => arg'[b] \in Referents
      BY <1>1, <1>3, <1>8 DEF MutatorInv, RpInv, Facts, Moved
    <2>3. \A b, d \in Actors :
             pc'[b] = "write_referent"
                => /\ slot'[arg'[b]] = "null"
                   /\ pc'[d] = "write_referent" /\ arg'[b] = arg'[d] => b = d
      BY <1>1, <1>3, <1>8 DEF MutatorInv, Referents, Slots, Facts, Moved
    <2> QED BY <2>1, <2>2, <2>3 DEF MutatorInv
  <1>20. RpInv'
    BY <1>1, <1>2, <1>3, <1>8, <1>10 DEF RpInv, Facts, Bits, Moved, CountedNext
  <1>21. FinalInv'
    BY <1>1, <1>2, <1>3, <1>8, <1>10 DEF FinalInv, Finalizing, InFinalizer, Facts, Bits, Moved,
       CountedNext
  <1>22. DeadInv'
    BY <1>1, <1>2, <1>3, <1>8, <1>10 DEF DeadInv, NoMutator, Ops, Facts, Bits, Moved, CountedNext
  <1>23. LastInv'
    <2> SUFFICES ASSUME NEW b \in Actors, pc'[b] \in Last PROVE Alone(b)'
      BY DEF LastInv
    <2>1. CASE b = t
      BY <2>1, <1>1, <1>2, <1>3, <1>8, <1>10, <1>5 DEF LastInv, Alone, Last, NoMutator, Gone,
         InFinalizer, Ops, Facts, Bits, Moved, CountedNext
    <2>2. CASE b # t
      BY <2>2, <1>1, <1>2, <1>3, <1>8, <1>10, <1>5 DEF LastInv, Alone, Last, NoMutator, Gone,
         InFinalizer, Ops, Facts, Bits, Moved, CountedNext
    <2> QED BY <2>1, <2>2
  <1>24. FreedInv'
    BY <1>1, <1>2, <1>3, <1>8, <1>10, <1>5 DEF FreedInv, NoMutator, Gone, Ops, Last, Facts, Bits,
       Moved, CountedNext
  <1>25. CountInv'
    BY <1>10, <1>15, CountsKept
  <1> QED BY <1>4, <1>17, <1>18, <1>19, <1>20, <1>21, <1>22, <1>23, <1>24, <1>25 DEF IInv

\* ClearReferent().
LEMMA ClearReferentStep ==
    ASSUME IInv, NEW a \in Actors, ClearReferent(a)
    PROVE  IInv'
  <1>1. Facts /\ a \in Actors
    BY IInvFacts DEF Actors
  <1>2. Bits
    BY IInvFacts
  <1>3. PICK k \in Referents :
           /\ pc[a] = "idle" /\ slot[k] = "obj"
           /\ header' = header /\ finalizable' = finalizable /\ enqueued' = enqueued
           /\ queued' = queued /\ active' = active /\ held' = held /\ ran' = ran
           /\ freed' = freed /\ slot' = [slot EXCEPT ![k] = "null"]
           /\ Step(a, "dec_referent", k, "idle")
    BY DEF ClearReferent
  <1>4. IsFiniteSet(Locals') /\ held' \in [Actors -> Nat] /\ InLocals' = InLocals
    <2>1. held' \in [Actors -> Nat]
      BY <1>1, <1>3 DEF Facts
    <2>2. a \in Actors /\ held \in [Actors -> Nat] /\ IsFiniteSet(Locals)
      BY <1>1 DEF Facts
    <2>3. held' = held
      BY <1>3
    <2> QED BY <2>1, <2>2, <2>3, LocalsEffect
  <1>5. Sums /\ Zeros
    BY <1>1, CountParts DEF IInv, Facts
  <1>6. Sums' /\ Zeros'
    BY <1>4, NextParts
  <1>7. Moved(a, "dec_referent", k, "idle") /\ Recounted(a, "dec_referent", k)
    <2>1. "dec_referent" \in Labels /\ k \in Slots /\ "idle" \in Labels
      BY <1>1, <1>3 DEF Labels, Slots, Referents, Facts
    <2> QED BY <2>1, <1>1, <1>3, StepEffect DEF IInv
  <1>8. StrongRefs' = StrongRefs
    <2>1. InFinalizer' <=> InFinalizer
      BY <1>1, <1>3, <1>7 DEF InFinalizer, Facts, Moved
    <2>2. B2N(pc[a] \in Owned) = 0 /\ B2N("dec_referent" \in Owned) = 0
      BY <1>3 DEF Owned, Ops, B2N
    <2>3. slot'["field"] = slot["field"]
      BY <1>1, <1>3 DEF Referents, Slots, Facts
    <2> QED BY <2>1, <2>2, <2>3, <1>3, <1>4, <1>5, <1>6, <1>7 DEF B2N, Sums, Recounted
  <1>9. ReferentRefs("weak")' = ReferentRefs("weak")
    BY <1>1, <1>3, <1>5, <1>6, <1>7 DEF B2N, MutatorInv, Slots, Referents, Facts, Sums, Moved,
       Recounted
  <1>10. ReferentRefs("phantom")' = ReferentRefs("phantom")
    BY <1>1, <1>3, <1>5, <1>6, <1>7 DEF B2N, MutatorInv, Slots, Referents, Facts, Sums, Moved,
       Recounted
  <1>11. OwnRef' = OwnRef
    BY <1>1, <1>2, <1>3, <1>7 DEF B2N, OwnRef, Facts, Bits, Moved
  <1>12. Bits'
    BY <1>2, <1>3, Zenon DEF Bits
  <1>13. TypeOK'
    BY <1>1, <1>4, <1>12, <1>3, <1>7 DEF TypeOK, Header, Slots, Referents, Facts, Bits, Moved
  <1>14. LockInv'
    BY <1>1, <1>2, <1>3, <1>7 DEF LockInv, Facts, Bits, Moved
  <1>15. MutatorInv'
    <2>1. \A s \in Threads : pc'[s] \in MutatorLabels /\ cont'[s] = "idle"
      BY <1>1, <1>3, <1>7 DEF MutatorInv, MutatorLabels, Facts, Moved
    <2>2. \A b \in Actors : pc'[b] \in {"write_referent", "dec_referent"} => arg'[b] \in Referents
      BY <1>1, <1>3, <1>7 DEF MutatorInv, RpInv, Facts, Moved
    <2>3. \A b, d \in Actors :
             pc'[b] = "write_referent"
                => /\ slot'[arg'[b]] = "null"
                   /\ pc'[d] = "write_referent" /\ arg'[b] = arg'[d] => b = d
      BY <1>1, <1>3, <1>7 DEF MutatorInv, Referents, Slots, Facts, Moved
    <2> QED BY <2>1, <2>2, <2>3 DEF MutatorInv
  <1>16. RpInv'
    BY <1>1, <1>2, <1>3, <1>7 DEF RpInv, Facts, Bits, Moved
  <1>17. FinalInv'
    BY <1>1, <1>2, <1>3, <1>7 DEF FinalInv, Finalizing, InFinalizer, Facts, Bits, Moved
  <1>18. DeadInv'
    BY <1>1, <1>2, <1>3, <1>7 DEF DeadInv, NoMutator, Ops, Facts, Bits, Moved
  <1>19. LastInv'
    <2> SUFFICES ASSUME NEW b \in Actors, pc'[b] \in Last PROVE Alone(b)'
      BY DEF LastInv
    <2>1. CASE b = a
      BY <2>1, <1>1, <1>2, <1>3, <1>7 DEF LastInv, Alone, Last, NoMutator, Gone, InFinalizer, Ops,
         Facts, Bits, Moved
    <2>2. CASE b # a
      BY <2>2, <1>1, <1>2, <1>3, <1>7 DEF LastInv, Alone, Last, NoMutator, Gone, InFinalizer, Ops,
         Facts, Bits, Moved
    <2> QED BY <2>1, <2>2
  <1>20. FreedInv'
    BY <1>1, <1>2, <1>3, <1>7 DEF FreedInv, NoMutator, Gone, Ops, Last, Facts, Bits, Moved
  <1>21. CountInv'
    BY <1>1, <1>3, <1>7, <1>8, <1>9, <1>10, <1>11 DEF CountInv, Releasing, Facts, Moved
  <1> QED BY <1>4, <1>13, <1>14, <1>15, <1>16, <1>17, <1>18, <1>19, <1>20, <1>21 DEF IInv

\* DecCleared() for a WeakReference.
LEMMA DecClearedWeak ==
    ASSUME IInv, NEW a \in Actors, DecCleared(a), arg[a] = "weak"
    PROVE  IInv'
  <1>1. Facts /\ a \in Actors
    BY IInvFacts DEF Actors
  <1>2. Bits
    BY IInvFacts
  <1>3. /\ pc[a] = "dec_referent" /\ arg[a] = "weak"
        /\ cont[a] \in {"idle", "drop"} /\ (a # RP => cont[a] = "idle")
        /\ finalizable' = finalizable /\ enqueued' = enqueued /\ queued' = queued
        /\ slot' = slot /\ active' = active /\ held' = held /\ ran' = ran /\ freed' = freed
        /\ Dec(a, 0, 0, -1, cont[a])
    <2>1. cont[a] \in {"idle", "drop"} /\ (a # RP => cont[a] = "idle")
      BY <1>1 DEF DecCleared, MutatorInv, RpInv, Facts
    <2> QED BY <1>1, <2>1 DEF DecCleared, DecReferent, Facts
  <1>4. IsFiniteSet(Locals') /\ held' \in [Actors -> Nat] /\ InLocals' = InLocals
    <2>1. held' \in [Actors -> Nat]
      BY <1>1, <1>3 DEF Facts
    <2>2. a \in Actors /\ held \in [Actors -> Nat] /\ IsFiniteSet(Locals)
      BY <1>1 DEF Facts
    <2>3. held' = held
      BY <1>3
    <2> QED BY <2>1, <2>2, <2>3, LocalsEffect
  <1>5. freed = 0 /\ ~Releasing
    BY <1>1, <1>2, <1>3 DEF Releasing, LockInv, LastInv, Alone, FreedInv, Last, NoMutator, Gone,
       InFinalizer, Ops, MutatorInv, RpInv, Facts, Bits
  <1>6. Sums /\ Zeros
    BY <1>1, CountParts DEF IInv, Facts
  <1>7. Sums' /\ Zeros'
    BY <1>4, NextParts
  <1>8. CanAdd(0, 0, -1)
    BY <1>1, <1>3, <1>6 DEF CanAdd, OwnRef, B2N, InFinalizer, Owned, Ops, Referents, Facts, Sums,
       Zeros
  <1>9. /\ CountedNext(0, 0, -1)
        /\ \E l \in {cont[a], "release", "collected"} : Decided(a, l, 0, 0, -1, cont[a])
    <2>1. cont[a] \notin {"release", "collected"}
      BY <1>3
    <2>2. a \in Actors /\ Dec(a, 0, 0, -1, cont[a])
      BY <1>1, <1>3
    <2> QED BY <2>1, <2>2, <1>5, <1>8, DecStep
  <1>10. PICK l \in {cont[a], "release", "collected"} : Decided(a, l, 0, 0, -1, cont[a])
    BY <1>9
  <1>11. /\ l \in {cont[a], "release", "collected"}
         /\ header.collected => header'.collected
         /\ header'.collected => header.collected \/ l = "collected"
         /\ l = "collected" => ~header.collected /\ header'.collected
    BY <1>10, Zenon DEF Decided
  <1>12. Moved(a, l, arg[a], cont[a]) /\ Recounted(a, l, arg[a])
    <2>1. l \in Labels /\ arg[a] \in Slots /\ cont[a] \in Labels
      BY <1>1, <1>3, <1>10 DEF Labels, Slots, Referents, Facts, Decided
    <2> QED BY <2>1, <1>1, <1>10, StepEffect DEF IInv, Decided
  <1>13. StrongRefs' = StrongRefs
    BY <1>1, <1>3, <1>4, <1>6, <1>7, <1>12, <1>10 DEF B2N, InFinalizer, Owned, Ops, RpInv,
       FinalInv, Finalizing, MutatorInv, Facts, Sums, Moved, Recounted, Decided
  <1>14. ReferentRefs("weak")' = ReferentRefs("weak") - 1
    BY <1>1, <1>3, <1>6, <1>7, <1>12, <1>10 DEF B2N, MutatorInv, Slots, Referents, Facts, Sums,
       Moved, Recounted, Decided
  <1>15. ReferentRefs("phantom")' = ReferentRefs("phantom")
    BY <1>1, <1>3, <1>6, <1>7, <1>12, <1>10 DEF B2N, MutatorInv, Slots, Referents, Facts, Sums,
       Moved, Recounted, Decided
  <1>16. OwnRef' = OwnRef
    <2>1. CASE l = "collected"
      BY <2>1, <1>1, <1>2, <1>3, <1>12, <1>11 DEF B2N, OwnRef, Facts, Bits, Moved
    <2>2. CASE l # "collected"
      <3>1. (\E b \in Actors : pc'[b] \in {"collected", "weak_release"})
               <=> (\E b \in Actors : pc[b] \in {"collected", "weak_release"})
        BY <2>2, <1>1, <1>3, <1>12, <1>11 DEF Facts, Moved
      <3>2. pc'[RP] = "post_finalizable" <=> pc[RP] = "post_finalizable"
        BY <2>2, <1>1, <1>3, <1>12, <1>11 DEF Facts, Moved
      <3>3. (~header'.collected <=> ~header.collected) /\ finalizable' = finalizable
        BY <2>2, <1>3, <1>11, Zenon
      <3> QED BY <3>1, <3>2, <3>3, Zenon DEF B2N, OwnRef
    <2> QED BY <2>1, <2>2
  <1>17. Balanced(0, 0, -1)
    <2>1. /\ StrongRefs \in Nat /\ ReferentRefs("weak") \in Nat
          /\ ReferentRefs("phantom") \in Nat /\ OwnRef \in Nat
      BY <1>6 DEF B2N, Sums
    <2> QED BY <2>1, <1>13, <1>14, <1>15, <1>16 DEF Balanced
  <1>18. l # cont[a] => NothingLeft' /\ (l = "release" => Gone')
    BY <1>1, <1>17, <1>10, <1>12, <1>7, NothingLeftStep
  <1>19. l # cont[a] => \A b \in Actors : b # a => pc[b] \notin Last
    <2> SUFFICES ASSUME l # cont[a], NEW b \in Actors, b # a, pc[b] \in Last PROVE FALSE
      OBVIOUS
    <2>1. Alone(b)
      BY <1>1 DEF LastInv, Facts
    <2>2. ~Gone
      BY <1>1, <1>3 DEF Gone, Facts
    <2>3. header.collected /\ pc[b] # "release"
      BY <2>1, <2>2 DEF Alone
    <2>4. l = "release"
      BY <2>3, <1>11
    <2>5. pc'[b] = pc[b] /\ pc'[b] \notin Owned
      BY <1>12, <1>18 DEF Moved, NothingLeft
    <2>6. pc[b] \in {"collected", "weak_release", "add_finalizable"}
      BY <2>3, <2>5 DEF Last, Owned
    <2>7. OwnRef' = 1
      BY <2>1, <2>5, <2>6, <1>3 DEF Alone, OwnRef, B2N
    <2>8. ReferentRefs("phantom")' + OwnRef' = 0
      BY <2>3, <2>4, <1>10, <1>17 DEF Decided, Balanced
    <2> QED BY <2>7, <2>8, <1>7 DEF B2N, Sums
  <1>20. Bits'
    BY <1>2, <1>3, Zenon DEF Bits
  <1>21. TypeOK'
    BY <1>1, <1>4, <1>20, <1>3, <1>12, <1>11, <1>9 DEF TypeOK, Header, Slots, Referents, Facts,
       Bits, Moved, CountedNext
  <1>22. LockInv'
    BY <1>1, <1>2, <1>3, <1>12, <1>11 DEF LockInv, Facts, Bits, Moved
  <1>23. MutatorInv'
    <2>1. \A s \in Threads : pc'[s] \in MutatorLabels /\ cont'[s] = "idle"
      BY <1>1, <1>3, <1>12, <1>11, <1>10 DEF MutatorInv, MutatorLabels, Facts, Moved
    <2>2. \A b \in Actors : pc'[b] \in {"write_referent", "dec_referent"} => arg'[b] \in Referents
      BY <1>1, <1>3, <1>12, <1>11, <1>10 DEF MutatorInv, RpInv, Facts, Moved
    <2>3. \A b, d \in Actors :
             pc'[b] = "write_referent"
                => /\ slot'[arg'[b]] = "null"
                   /\ pc'[d] = "write_referent" /\ arg'[b] = arg'[d] => b = d
      BY <1>1, <1>3, <1>12, <1>11, <1>10 DEF MutatorInv, Referents, Slots, Facts, Moved
    <2> QED BY <2>1, <2>2, <2>3 DEF MutatorInv
  <1>24. RpInv'
    BY <1>1, <1>2, <1>3, <1>12, <1>11, <1>18 DEF RpInv, Facts, Bits, Moved, NothingLeft
  <1>25. FinalInv'
    BY <1>1, <1>2, <1>3, <1>12, <1>11, <1>18 DEF FinalInv, Finalizing, InFinalizer, Facts, Bits,
       Moved, NothingLeft
  <1>26. DeadInv'
    <2>1. CASE l = "collected"
      BY <2>1, <1>3, <1>18, <1>11 DEF DeadInv, NothingLeft
    <2>2. CASE l # "collected"
      <3>1. header'.collected => header.collected
        BY <2>2, <1>11
      <3>2. NoMutator => NoMutator'
        BY <1>1, <1>3, <1>12, <1>11 DEF NoMutator, Ops, Facts, Moved
      <3> QED BY <3>1, <3>2, <1>1, <1>3 DEF DeadInv, Facts
    <2> QED BY <2>1, <2>2
  <1>27. LastInv'
    <2> SUFFICES ASSUME NEW b \in Actors, pc'[b] \in Last PROVE Alone(b)'
      BY DEF LastInv
    <2>1. CASE b = a
      BY <2>1, <1>1, <1>3, <1>12, <1>11, <1>10, <1>5, <1>18, <1>19, <1>25 DEF FinalInv,
         Finalizing, InFinalizer, Alone, Last, Facts, Moved, NothingLeft
    <2>2. CASE b # a
      BY <2>2, <1>1, <1>2, <1>3, <1>12, <1>11, <1>19, <1>5 DEF LastInv, Alone, Last, NoMutator,
         Gone, InFinalizer, Ops, Facts, Bits, Moved
    <2> QED BY <2>1, <2>2
  <1>28. FreedInv'
    BY <1>1, <1>2, <1>3, <1>12, <1>11, <1>18, <1>19, <1>5 DEF FreedInv, NoMutator, Gone, Ops,
       Last, Facts, Bits, Moved, NothingLeft
  <1>29. CountInv'
    BY <1>9, <1>17, CountsKept
  <1> QED BY <1>4, <1>21, <1>22, <1>23, <1>24, <1>25, <1>26, <1>27, <1>28, <1>29 DEF IInv

\* DecCleared() for a PhantomReference.
LEMMA DecClearedPhantom ==
    ASSUME IInv, NEW a \in Actors, DecCleared(a), arg[a] # "weak"
    PROVE  IInv'
  <1>1. Facts /\ a \in Actors
    BY IInvFacts DEF Actors
  <1>2. Bits
    BY IInvFacts
  <1>3. /\ pc[a] = "dec_referent" /\ arg[a] = "phantom"
        /\ cont[a] \in {"idle", "drop"} /\ (a # RP => cont[a] = "idle")
        /\ finalizable' = finalizable /\ enqueued' = enqueued /\ queued' = queued
        /\ slot' = slot /\ active' = active /\ held' = held /\ ran' = ran /\ freed' = freed
        /\ Dec(a, 0, -1, 0, cont[a])
    <2>1. arg[a] = "phantom" /\ cont[a] \in {"idle", "drop"} /\ (a # RP => cont[a] = "idle")
      BY <1>1 DEF DecCleared, MutatorInv, RpInv, Referents, Facts
    <2> QED BY <1>1, <2>1 DEF DecCleared, DecReferent, Facts
  <1>4. IsFiniteSet(Locals') /\ held' \in [Actors -> Nat] /\ InLocals' = InLocals
    <2>1. held' \in [Actors -> Nat]
      BY <1>1, <1>3 DEF Facts
    <2>2. a \in Actors /\ held \in [Actors -> Nat] /\ IsFiniteSet(Locals)
      BY <1>1 DEF Facts
    <2>3. held' = held
      BY <1>3
    <2> QED BY <2>1, <2>2, <2>3, LocalsEffect
  <1>5. freed = 0 /\ ~Releasing
    BY <1>1, <1>2, <1>3 DEF Releasing, LockInv, LastInv, Alone, FreedInv, Last, NoMutator, Gone,
       InFinalizer, Ops, MutatorInv, RpInv, Facts, Bits
  <1>6. Sums /\ Zeros
    BY <1>1, CountParts DEF IInv, Facts
  <1>7. Sums' /\ Zeros'
    BY <1>4, NextParts
  <1>8. CanAdd(0, -1, 0)
    BY <1>1, <1>3, <1>6 DEF CanAdd, OwnRef, B2N, InFinalizer, Owned, Ops, Referents, Facts, Sums,
       Zeros
  <1>9. /\ CountedNext(0, -1, 0)
        /\ \E l \in {cont[a], "release", "collected"} : Decided(a, l, 0, -1, 0, cont[a])
    <2>1. cont[a] \notin {"release", "collected"}
      BY <1>3
    <2>2. a \in Actors /\ Dec(a, 0, -1, 0, cont[a])
      BY <1>1, <1>3
    <2> QED BY <2>1, <2>2, <1>5, <1>8, DecStep
  <1>10. PICK l \in {cont[a], "release", "collected"} : Decided(a, l, 0, -1, 0, cont[a])
    BY <1>9
  <1>11. /\ l \in {cont[a], "release", "collected"}
         /\ header.collected => header'.collected
         /\ header'.collected => header.collected \/ l = "collected"
         /\ l = "collected" => ~header.collected /\ header'.collected
    BY <1>10, Zenon DEF Decided
  <1>12. Moved(a, l, arg[a], cont[a]) /\ Recounted(a, l, arg[a])
    <2>1. l \in Labels /\ arg[a] \in Slots /\ cont[a] \in Labels
      BY <1>1, <1>3, <1>10 DEF Labels, Slots, Referents, Facts, Decided
    <2> QED BY <2>1, <1>1, <1>10, StepEffect DEF IInv, Decided
  <1>13. StrongRefs' = StrongRefs
    BY <1>1, <1>3, <1>4, <1>6, <1>7, <1>12, <1>10 DEF B2N, InFinalizer, Owned, Ops, RpInv,
       FinalInv, Finalizing, MutatorInv, Facts, Sums, Moved, Recounted, Decided
  <1>14. ReferentRefs("weak")' = ReferentRefs("weak")
    BY <1>1, <1>3, <1>6, <1>7, <1>12, <1>10 DEF B2N, MutatorInv, Slots, Referents, Facts, Sums,
       Moved, Recounted, Decided
  <1>15. ReferentRefs("phantom")' = ReferentRefs("phantom") - 1
    BY <1>1, <1>3, <1>6, <1>7, <1>12, <1>10 DEF B2N, MutatorInv, Slots, Referents, Facts, Sums,
       Moved, Recounted, Decided
  <1>16. OwnRef' = OwnRef
    <2>1. CASE l = "collected"
      BY <2>1, <1>1, <1>2, <1>3, <1>12, <1>11 DEF B2N, OwnRef, Facts, Bits, Moved
    <2>2. CASE l # "collected"
      <3>1. (\E b \in Actors : pc'[b] \in {"collected", "weak_release"})
               <=> (\E b \in Actors : pc[b] \in {"collected", "weak_release"})
        BY <2>2, <1>1, <1>3, <1>12, <1>11 DEF Facts, Moved
      <3>2. pc'[RP] = "post_finalizable" <=> pc[RP] = "post_finalizable"
        BY <2>2, <1>1, <1>3, <1>12, <1>11 DEF Facts, Moved
      <3>3. (~header'.collected <=> ~header.collected) /\ finalizable' = finalizable
        BY <2>2, <1>3, <1>11, Zenon
      <3> QED BY <3>1, <3>2, <3>3, Zenon DEF B2N, OwnRef
    <2> QED BY <2>1, <2>2
  <1>17. Balanced(0, -1, 0)
    <2>1. /\ StrongRefs \in Nat /\ ReferentRefs("weak") \in Nat
          /\ ReferentRefs("phantom") \in Nat /\ OwnRef \in Nat
      BY <1>6 DEF B2N, Sums
    <2> QED BY <2>1, <1>13, <1>14, <1>15, <1>16 DEF Balanced
  <1>18. l # cont[a] => NothingLeft' /\ (l = "release" => Gone')
    BY <1>1, <1>17, <1>10, <1>12, <1>7, NothingLeftStep
  <1>19. l # cont[a] => \A b \in Actors : b # a => pc[b] \notin Last
    <2> SUFFICES ASSUME l # cont[a], NEW b \in Actors, b # a, pc[b] \in Last PROVE FALSE
      OBVIOUS
    <2>1. Alone(b)
      BY <1>1 DEF LastInv, Facts
    <2>2. ~Gone
      BY <1>1, <1>3 DEF Gone, Facts
    <2>3. header.collected /\ pc[b] # "release"
      BY <2>1, <2>2 DEF Alone
    <2>4. l = "release"
      BY <2>3, <1>11
    <2>5. pc'[b] = pc[b] /\ pc'[b] \notin Owned
      BY <1>12, <1>18 DEF Moved, NothingLeft
    <2>6. pc[b] \in {"collected", "weak_release", "add_finalizable"}
      BY <2>3, <2>5 DEF Last, Owned
    <2>7. OwnRef' = 1
      BY <2>1, <2>5, <2>6, <1>3 DEF Alone, OwnRef, B2N
    <2>8. ReferentRefs("phantom")' + OwnRef' = 0
      BY <2>3, <2>4, <1>10, <1>17 DEF Decided, Balanced
    <2> QED BY <2>7, <2>8, <1>7 DEF B2N, Sums
  <1>20. Bits'
    BY <1>2, <1>3, Zenon DEF Bits
  <1>21. TypeOK'
    BY <1>1, <1>4, <1>20, <1>3, <1>12, <1>11, <1>9 DEF TypeOK, Header, Slots, Referents, Facts,
       Bits, Moved, CountedNext
  <1>22. LockInv'
    BY <1>1, <1>2, <1>3, <1>12, <1>11 DEF LockInv, Facts, Bits, Moved
  <1>23. MutatorInv'
    <2>1. \A s \in Threads : pc'[s] \in MutatorLabels /\ cont'[s] = "idle"
      BY <1>1, <1>3, <1>12, <1>11, <1>10 DEF MutatorInv, MutatorLabels, Facts, Moved
    <2>2. \A b \in Actors : pc'[b] \in {"write_referent", "dec_referent"} => arg'[b] \in Referents
      BY <1>1, <1>3, <1>12, <1>11, <1>10 DEF MutatorInv, RpInv, Facts, Moved
    <2>3. \A b, d \in Actors :
             pc'[b] = "write_referent"
                => /\ slot'[arg'[b]] = "null"
                   /\ pc'[d] = "write_referent" /\ arg'[b] = arg'[d] => b = d
      BY <1>1, <1>3, <1>12, <1>11, <1>10 DEF MutatorInv, Referents, Slots, Facts, Moved
    <2> QED BY <2>1, <2>2, <2>3 DEF MutatorInv
  <1>24. RpInv'
    BY <1>1, <1>2, <1>3, <1>12, <1>11, <1>18 DEF RpInv, Facts, Bits, Moved, NothingLeft
  <1>25. FinalInv'
    BY <1>1, <1>2, <1>3, <1>12, <1>11, <1>18 DEF FinalInv, Finalizing, InFinalizer, Facts, Bits,
       Moved, NothingLeft
  <1>26. DeadInv'
    <2>1. CASE l = "collected"
      BY <2>1, <1>3, <1>18, <1>11 DEF DeadInv, NothingLeft
    <2>2. CASE l # "collected"
      <3>1. header'.collected => header.collected
        BY <2>2, <1>11
      <3>2. NoMutator => NoMutator'
        BY <1>1, <1>3, <1>12, <1>11 DEF NoMutator, Ops, Facts, Moved
      <3> QED BY <3>1, <3>2, <1>1, <1>3 DEF DeadInv, Facts
    <2> QED BY <2>1, <2>2
  <1>27. LastInv'
    <2> SUFFICES ASSUME NEW b \in Actors, pc'[b] \in Last PROVE Alone(b)'
      BY DEF LastInv
    <2>1. CASE b = a
      BY <2>1, <1>1, <1>3, <1>12, <1>11, <1>10, <1>5, <1>18, <1>19, <1>25 DEF FinalInv,
         Finalizing, InFinalizer, Alone, Last, Facts, Moved, NothingLeft
    <2>2. CASE b # a
      BY <2>2, <1>1, <1>2, <1>3, <1>12, <1>11, <1>19, <1>5 DEF LastInv, Alone, Last, NoMutator,
         Gone, InFinalizer, Ops, Facts, Bits, Moved
    <2> QED BY <2>1, <2>2
  <1>28. FreedInv'
    BY <1>1, <1>2, <1>3, <1>12, <1>11, <1>18, <1>19, <1>5 DEF FreedInv, NoMutator, Gone, Ops,
       Last, Facts, Bits, Moved, NothingLeft
  <1>29. CountInv'
    BY <1>9, <1>17, CountsKept
  <1> QED BY <1>4, <1>21, <1>22, <1>23, <1>24, <1>25, <1>26, <1>27, <1>28, <1>29 DEF IInv

\* RpLoad().
LEMMA RpLoadStep ==
    ASSUME IInv, NEW k \in Referents, RpLoad(k)
    PROVE  IInv'
  <1>1. Facts /\ RP \in Actors
    BY IInvFacts DEF Actors
  <1>2. Bits
    BY IInvFacts
  <1>3. /\ pc[RP] = "idle" /\ slot[k] = "obj" /\ k \in {"weak", "phantom"}
        /\ header' = header /\ finalizable' = finalizable /\ enqueued' = enqueued
        /\ queued' = queued /\ active' = active /\ held' = held /\ ran' = ran
        /\ freed' = freed /\ slot' = [slot EXCEPT ![k] = RP]
        /\ Step(RP, "locked", k, "idle")
    BY DEF RpLoad, LockSlot, Referents
  <1>4. IsFiniteSet(Locals') /\ held' \in [Actors -> Nat] /\ InLocals' = InLocals
    <2>1. held' \in [Actors -> Nat]
      BY <1>1, <1>3 DEF Facts
    <2>2. RP \in Actors /\ held \in [Actors -> Nat] /\ IsFiniteSet(Locals)
      BY <1>1 DEF Facts
    <2>3. held' = held
      BY <1>3
    <2> QED BY <2>1, <2>2, <2>3, LocalsEffect
  <1>5. Sums /\ Zeros
    BY <1>1, CountParts DEF IInv, Facts
  <1>6. Sums' /\ Zeros'
    BY <1>4, NextParts
  <1>7. Moved(RP, "locked", k, "idle") /\ Recounted(RP, "locked", k)
    <2>1. "locked" \in Labels /\ k \in Slots /\ "idle" \in Labels
      BY <1>1, <1>3 DEF Labels, Slots, Referents, Facts
    <2> QED BY <2>1, <1>1, <1>3, StepEffect DEF IInv
  <1>8. StrongRefs' = StrongRefs
    BY <1>1, <1>3, <1>4, <1>5, <1>6, <1>7 DEF B2N, InFinalizer, Owned, Ops, RpInv, FinalInv,
       Finalizing, MutatorInv, Facts, Sums, Moved, Recounted
  <1>9. ReferentRefs("weak")' = ReferentRefs("weak")
    BY <1>1, <1>3, <1>5, <1>6, <1>7 DEF B2N, MutatorInv, Slots, Referents, Facts, Sums, Moved,
       Recounted
  <1>10. ReferentRefs("phantom")' = ReferentRefs("phantom")
    BY <1>1, <1>3, <1>5, <1>6, <1>7 DEF B2N, MutatorInv, Slots, Referents, Facts, Sums, Moved,
       Recounted
  <1>11. OwnRef' = OwnRef
    BY <1>1, <1>2, <1>3, <1>7 DEF B2N, OwnRef, Facts, Bits, Moved
  <1>12. Bits'
    BY <1>2, <1>3, Zenon DEF Bits
  <1>13. TypeOK'
    BY <1>1, <1>4, <1>12, <1>3, <1>7 DEF TypeOK, Header, Slots, Referents, Facts, Bits, Moved
  <1>14. LockInv'
    BY <1>1, <1>2, <1>3, <1>7 DEF LockInv, Facts, Bits, Moved
  <1>15. MutatorInv'
    <2>1. \A s \in Threads : pc'[s] \in MutatorLabels /\ cont'[s] = "idle"
      BY <1>1, <1>3, <1>7 DEF MutatorInv, MutatorLabels, Facts, Moved
    <2>2. \A b \in Actors : pc'[b] \in {"write_referent", "dec_referent"} => arg'[b] \in Referents
      BY <1>1, <1>3, <1>7 DEF MutatorInv, RpInv, Facts, Moved
    <2>3. \A b, d \in Actors :
             pc'[b] = "write_referent"
                => /\ slot'[arg'[b]] = "null"
                   /\ pc'[d] = "write_referent" /\ arg'[b] = arg'[d] => b = d
      BY <1>1, <1>3, <1>7 DEF MutatorInv, Referents, Slots, Facts, Moved
    <2> QED BY <2>1, <2>2, <2>3 DEF MutatorInv
  <1>16. RpInv'
    BY <1>1, <1>2, <1>3, <1>7 DEF RpInv, Facts, Bits, Moved
  <1>17. FinalInv'
    BY <1>1, <1>2, <1>3, <1>7 DEF FinalInv, Finalizing, InFinalizer, Facts, Bits, Moved
  <1>18. DeadInv'
    BY <1>1, <1>2, <1>3, <1>7 DEF DeadInv, NoMutator, Ops, Facts, Bits, Moved
  <1>19. LastInv'
    <2> SUFFICES ASSUME NEW b \in Actors, pc'[b] \in Last PROVE Alone(b)'
      BY DEF LastInv
    <2>1. CASE b = RP
      BY <2>1, <1>1, <1>2, <1>3, <1>7 DEF LastInv, Alone, Last, NoMutator, Gone, InFinalizer, Ops,
         Facts, Bits, Moved
    <2>2. CASE b # RP
      BY <2>2, <1>1, <1>2, <1>3, <1>7 DEF LastInv, Alone, Last, NoMutator, Gone, InFinalizer, Ops,
         Facts, Bits, Moved
    <2> QED BY <2>1, <2>2
  <1>20. FreedInv'
    BY <1>1, <1>2, <1>3, <1>7 DEF FreedInv, NoMutator, Gone, Ops, Last, Facts, Bits, Moved
  <1>21. CountInv'
    BY <1>1, <1>3, <1>7, <1>8, <1>9, <1>10, <1>11 DEF CountInv, Releasing, Facts, Moved
  <1> QED BY <1>4, <1>13, <1>14, <1>15, <1>16, <1>17, <1>18, <1>19, <1>20, <1>21 DEF IInv

\* RpSkipActive.
LEMMA RpSkipActiveStep ==
    ASSUME IInv, RpSkipActive
    PROVE  IInv'
  <1>1. Facts /\ RP \in Actors
    BY IInvFacts DEF Actors
  <1>2. Bits
    BY IInvFacts
  <1>3. /\ pc[RP] = "process"
        /\ header' = header /\ finalizable' = finalizable /\ enqueued' = enqueued
        /\ queued' = queued /\ slot' = slot /\ held' = held /\ ran' = ran /\ freed' = freed
        /\ active' = FALSE
        /\ Step(RP, "drop", arg[RP], cont[RP])
    BY DEF RpSkipActive, Goto
  <1>4. IsFiniteSet(Locals') /\ held' \in [Actors -> Nat] /\ InLocals' = InLocals
    <2>1. held' \in [Actors -> Nat]
      BY <1>1, <1>3 DEF Facts
    <2>2. RP \in Actors /\ held \in [Actors -> Nat] /\ IsFiniteSet(Locals)
      BY <1>1 DEF Facts
    <2>3. held' = held
      BY <1>3
    <2> QED BY <2>1, <2>2, <2>3, LocalsEffect
  <1>5. Sums /\ Zeros
    BY <1>1, CountParts DEF IInv, Facts
  <1>6. Sums' /\ Zeros'
    BY <1>4, NextParts
  <1>7. Moved(RP, "drop", arg[RP], cont[RP]) /\ Recounted(RP, "drop", arg[RP])
    <2>1. "drop" \in Labels /\ arg[RP] \in Slots /\ cont[RP] \in Labels
      BY <1>1, <1>3 DEF Labels, Slots, Referents, Facts
    <2> QED BY <2>1, <1>1, <1>3, StepEffect DEF IInv
  <1>8. StrongRefs' = StrongRefs
    BY <1>1, <1>3, <1>4, <1>5, <1>6, <1>7 DEF B2N, InFinalizer, Owned, Ops, RpInv, FinalInv,
       Finalizing, MutatorInv, Facts, Sums, Moved, Recounted
  <1>9. ReferentRefs("weak")' = ReferentRefs("weak")
    BY <1>1, <1>3, <1>5, <1>6, <1>7 DEF B2N, MutatorInv, Slots, Referents, Facts, Sums, Moved,
       Recounted
  <1>10. ReferentRefs("phantom")' = ReferentRefs("phantom")
    BY <1>1, <1>3, <1>5, <1>6, <1>7 DEF B2N, MutatorInv, Slots, Referents, Facts, Sums, Moved,
       Recounted
  <1>11. OwnRef' = OwnRef
    BY <1>1, <1>2, <1>3, <1>7 DEF B2N, OwnRef, Facts, Bits, Moved
  <1>12. Bits'
    BY <1>2, <1>3, Zenon DEF Bits
  <1>13. TypeOK'
    BY <1>1, <1>4, <1>12, <1>3, <1>7 DEF TypeOK, Header, Slots, Referents, Facts, Bits, Moved
  <1>14. LockInv'
    BY <1>1, <1>2, <1>3, <1>7 DEF LockInv, Facts, Bits, Moved
  <1>15. MutatorInv'
    <2>1. \A s \in Threads : pc'[s] \in MutatorLabels /\ cont'[s] = "idle"
      BY <1>1, <1>3, <1>7 DEF MutatorInv, MutatorLabels, Facts, Moved
    <2>2. \A b \in Actors : pc'[b] \in {"write_referent", "dec_referent"} => arg'[b] \in Referents
      BY <1>1, <1>3, <1>7 DEF MutatorInv, RpInv, Facts, Moved
    <2>3. \A b, d \in Actors :
             pc'[b] = "write_referent"
                => /\ slot'[arg'[b]] = "null"
                   /\ pc'[d] = "write_referent" /\ arg'[b] = arg'[d] => b = d
      BY <1>1, <1>3, <1>7 DEF MutatorInv, Referents, Slots, Facts, Moved
    <2> QED BY <2>1, <2>2, <2>3 DEF MutatorInv
  <1>16. RpInv'
    BY <1>1, <1>2, <1>3, <1>7 DEF RpInv, Facts, Bits, Moved
  <1>17. FinalInv'
    BY <1>1, <1>2, <1>3, <1>7 DEF FinalInv, Finalizing, InFinalizer, Facts, Bits, Moved
  <1>18. DeadInv'
    BY <1>1, <1>2, <1>3, <1>7 DEF DeadInv, NoMutator, Ops, Facts, Bits, Moved
  <1>19. LastInv'
    <2> SUFFICES ASSUME NEW b \in Actors, pc'[b] \in Last PROVE Alone(b)'
      BY DEF LastInv
    <2>1. CASE b = RP
      BY <2>1, <1>1, <1>2, <1>3, <1>7 DEF LastInv, Alone, Last, NoMutator, Gone, InFinalizer, Ops,
         Facts, Bits, Moved
    <2>2. CASE b # RP
      BY <2>2, <1>1, <1>2, <1>3, <1>7 DEF LastInv, Alone, Last, NoMutator, Gone, InFinalizer, Ops,
         Facts, Bits, Moved
    <2> QED BY <2>1, <2>2
  <1>20. FreedInv'
    BY <1>1, <1>2, <1>3, <1>7 DEF FreedInv, NoMutator, Gone, Ops, Last, Facts, Bits, Moved
  <1>21. CountInv'
    BY <1>1, <1>3, <1>7, <1>8, <1>9, <1>10, <1>11 DEF CountInv, Releasing, Facts, Moved
  <1> QED BY <1>4, <1>13, <1>14, <1>15, <1>16, <1>17, <1>18, <1>19, <1>20, <1>21 DEF IInv

\* RpWeakRelease, when the object is to be finalized.
LEMMA RpWeakReleaseFinalizable ==
    ASSUME IInv, RpWeakRelease, finalizable
    PROVE  IInv'
  <1>1. Facts /\ RP \in Actors
    BY IInvFacts DEF Actors
  <1>2. Bits
    BY IInvFacts
  <1>3. /\ pc[RP] = "weak_release" /\ finalizable
        /\ header' = header /\ finalizable' = finalizable /\ enqueued' = enqueued
        /\ queued' = queued /\ slot' = slot /\ active' = active /\ held' = held
        /\ ran' = ran /\ freed' = freed
        /\ Step(RP, "add_finalizable", arg[RP], "clear")
    BY DEF RpWeakRelease
  <1>4. IsFiniteSet(Locals') /\ held' \in [Actors -> Nat] /\ InLocals' = InLocals
    <2>1. held' \in [Actors -> Nat]
      BY <1>1, <1>3 DEF Facts
    <2>2. RP \in Actors /\ held \in [Actors -> Nat] /\ IsFiniteSet(Locals)
      BY <1>1 DEF Facts
    <2>3. held' = held
      BY <1>3
    <2> QED BY <2>1, <2>2, <2>3, LocalsEffect
  <1>5. Sums /\ Zeros
    BY <1>1, CountParts DEF IInv, Facts
  <1>6. Sums' /\ Zeros'
    BY <1>4, NextParts
  <1>7. Moved(RP, "add_finalizable", arg[RP], "clear")
        /\ Recounted(RP, "add_finalizable", arg[RP])
    <2>1. "add_finalizable" \in Labels /\ arg[RP] \in Slots /\ "clear" \in Labels
      BY <1>1, <1>3 DEF Labels, Slots, Referents, Facts
    <2> QED BY <2>1, <1>1, <1>3, StepEffect DEF IInv
  <1>8. StrongRefs' = StrongRefs
    BY <1>1, <1>3, <1>4, <1>5, <1>6, <1>7 DEF B2N, InFinalizer, Owned, Ops, RpInv, FinalInv,
       Finalizing, MutatorInv, Facts, Sums, Moved, Recounted
  <1>9. ReferentRefs("weak")' = ReferentRefs("weak")
    BY <1>1, <1>3, <1>5, <1>6, <1>7 DEF B2N, MutatorInv, Slots, Referents, Facts, Sums, Moved,
       Recounted
  <1>10. ReferentRefs("phantom")' = ReferentRefs("phantom")
    BY <1>1, <1>3, <1>5, <1>6, <1>7 DEF B2N, MutatorInv, Slots, Referents, Facts, Sums, Moved,
       Recounted
  <1>11. OwnRef' = OwnRef
    BY <1>1, <1>2, <1>3, <1>7 DEF B2N, OwnRef, Facts, Bits, Moved
  <1>12. Bits'
    BY <1>2, <1>3, Zenon DEF Bits
  <1>13. TypeOK'
    BY <1>1, <1>4, <1>12, <1>3, <1>7 DEF TypeOK, Header, Slots, Referents, Facts, Bits, Moved
  <1>14. LockInv'
    BY <1>1, <1>2, <1>3, <1>7 DEF LockInv, Facts, Bits, Moved
  <1>15. MutatorInv'
    <2>1. \A s \in Threads : pc'[s] \in MutatorLabels /\ cont'[s] = "idle"
      BY <1>1, <1>3, <1>7 DEF MutatorInv, MutatorLabels, Facts, Moved
    <2>2. \A b \in Actors : pc'[b] \in {"write_referent", "dec_referent"} => arg'[b] \in Referents
      BY <1>1, <1>3, <1>7 DEF MutatorInv, RpInv, Facts, Moved
    <2>3. \A b, d \in Actors :
             pc'[b] = "write_referent"
                => /\ slot'[arg'[b]] = "null"
                   /\ pc'[d] = "write_referent" /\ arg'[b] = arg'[d] => b = d
      BY <1>1, <1>3, <1>7 DEF MutatorInv, Referents, Slots, Facts, Moved
    <2> QED BY <2>1, <2>2, <2>3 DEF MutatorInv
  <1>16. RpInv'
    BY <1>1, <1>2, <1>3, <1>7 DEF RpInv, Facts, Bits, Moved
  <1>17. FinalInv'
    BY <1>1, <1>2, <1>3, <1>7 DEF FinalInv, Finalizing, InFinalizer, Facts, Bits, Moved
  <1>18. DeadInv'
    BY <1>1, <1>2, <1>3, <1>7 DEF DeadInv, NoMutator, Ops, Facts, Bits, Moved
  <1>19. LastInv'
    <2> SUFFICES ASSUME NEW b \in Actors, pc'[b] \in Last PROVE Alone(b)'
      BY DEF LastInv
    <2>1. CASE b = RP
      BY <2>1, <1>1, <1>2, <1>3, <1>7 DEF LastInv, Alone, Last, NoMutator, Gone, InFinalizer, Ops,
         Facts, Bits, Moved
    <2>2. CASE b # RP
      BY <2>2, <1>1, <1>2, <1>3, <1>7 DEF LastInv, Alone, Last, NoMutator, Gone, InFinalizer, Ops,
         Facts, Bits, Moved
    <2> QED BY <2>1, <2>2
  <1>20. FreedInv'
    BY <1>1, <1>2, <1>3, <1>7 DEF FreedInv, NoMutator, Gone, Ops, Last, Facts, Bits, Moved
  <1>21. CountInv'
    BY <1>1, <1>3, <1>7, <1>8, <1>9, <1>10, <1>11 DEF CountInv, Releasing, Facts, Moved
  <1> QED BY <1>4, <1>13, <1>14, <1>15, <1>16, <1>17, <1>18, <1>19, <1>20, <1>21 DEF IInv

\* RpWeakRelease, when the object gives up its own weak count.
LEMMA RpWeakReleaseDec ==
    ASSUME IInv, RpWeakRelease, ~finalizable
    PROVE  IInv'
  <1>1. Facts /\ RP \in Actors
    BY IInvFacts DEF Actors
  <1>2. Bits
    BY IInvFacts
  <1>3. /\ pc[RP] = "weak_release" /\ ~finalizable /\ held[RP] = 1
        /\ finalizable' = finalizable /\ enqueued' = enqueued /\ queued' = queued
        /\ slot' = slot /\ active' = active /\ held' = held /\ ran' = ran /\ freed' = freed
        /\ Dec(RP, 0, -1, 0, "clear")
    BY <1>1 DEF RpWeakRelease, RpInv, Facts
  <1>4. IsFiniteSet(Locals') /\ held' \in [Actors -> Nat] /\ InLocals' = InLocals
    <2>1. held' \in [Actors -> Nat]
      BY <1>1, <1>3 DEF Facts
    <2>2. RP \in Actors /\ held \in [Actors -> Nat] /\ IsFiniteSet(Locals)
      BY <1>1 DEF Facts
    <2>3. held' = held
      BY <1>3
    <2> QED BY <2>1, <2>2, <2>3, LocalsEffect
  <1>5. freed = 0 /\ ~Releasing
    BY <1>1, <1>2, <1>3 DEF Releasing, LockInv, LastInv, Alone, FreedInv, Last, NoMutator, Gone,
       InFinalizer, Ops, MutatorInv, RpInv, Facts, Bits
  <1>6. Sums /\ Zeros
    BY <1>1, CountParts DEF IInv, Facts
  <1>7. Sums' /\ Zeros'
    BY <1>4, NextParts
  <1>8. CanAdd(0, -1, 0) /\ StrongRefs # 0
    BY <1>1, <1>3, <1>6 DEF CanAdd, OwnRef, B2N, InFinalizer, Owned, Ops, Referents, Facts, Sums,
       Zeros
  <1>9. /\ CountedNext(0, -1, 0)
        /\ \E l \in {"clear", "release", "collected"} : Decided(RP, l, 0, -1, 0, "clear")
    <2>1. "clear" \notin {"release", "collected"}
      OBVIOUS
    <2>2. RP \in Actors /\ Dec(RP, 0, -1, 0, "clear")
      BY <1>1, <1>3
    <2> QED BY <2>1, <2>2, <1>5, <1>8, DecStep
  <1>10. PICK l \in {"clear", "release", "collected"} : Decided(RP, l, 0, -1, 0, "clear")
    BY <1>9
  <1>11. /\ l \in {"clear", "release", "collected"}
         /\ header.collected => header'.collected
         /\ header'.collected => header.collected \/ l = "collected"
         /\ l = "collected" => ~header.collected /\ header'.collected
    BY <1>10, Zenon DEF Decided
  <1>12. l = "clear"
    BY <1>10, <1>8, <1>6 DEF B2N, Decided, Sums
  <1>13. Moved(RP, l, arg[RP], "clear") /\ Recounted(RP, l, arg[RP])
    <2>1. l \in Labels /\ arg[RP] \in Slots /\ "clear" \in Labels
      BY <1>1, <1>3, <1>10 DEF Labels, Slots, Referents, Facts, Decided
    <2> QED BY <2>1, <1>1, <1>10, StepEffect DEF IInv, Decided
  <1>14. StrongRefs' = StrongRefs
    BY <1>1, <1>3, <1>4, <1>6, <1>7, <1>13, <1>10, <1>12 DEF B2N, InFinalizer, Owned, Ops, RpInv,
       FinalInv, Finalizing, MutatorInv, Facts, Sums, Moved, Recounted, Decided
  <1>15. ReferentRefs("weak")' = ReferentRefs("weak")
    BY <1>1, <1>3, <1>6, <1>7, <1>13, <1>10, <1>12 DEF B2N, MutatorInv, Slots, Referents, Facts,
       Sums, Moved, Recounted, Decided
  <1>16. ReferentRefs("phantom")' = ReferentRefs("phantom")
    BY <1>1, <1>3, <1>6, <1>7, <1>13, <1>10, <1>12 DEF B2N, MutatorInv, Slots, Referents, Facts,
       Sums, Moved, Recounted, Decided
  <1>17. OwnRef' = OwnRef - 1
    <2>1. /\ ~finalizable /\ header.collected
          /\ \A b \in Actors : pc[b] \in Last => b = RP
      BY <1>1, <1>3 DEF LastInv, Alone, Last, Facts
    <2>2. OwnRef = 1
      BY <1>1, <1>3 DEF OwnRef, B2N, Facts
    <2>3. \A b \in Actors : pc'[b] \notin {"collected", "weak_release"}
      BY <2>1, <1>1, <1>3, <1>13, <1>11, <1>12 DEF Last, Facts, Moved
    <2>4. OwnRef' = 0
      BY <2>1, <2>3, <1>3, <1>13, <1>12, <1>11 DEF OwnRef, B2N, Moved
    <2> QED BY <2>2, <2>4
  <1>18. Balanced(0, -1, 0)
    <2>1. /\ StrongRefs \in Nat /\ ReferentRefs("weak") \in Nat
          /\ ReferentRefs("phantom") \in Nat /\ OwnRef \in Nat
      BY <1>6 DEF B2N, Sums
    <2> QED BY <2>1, <1>14, <1>15, <1>16, <1>17 DEF Balanced
  <1>19. l # "clear" => NothingLeft' /\ (l = "release" => Gone')
    BY <1>12
  <1>20. l # "clear" => \A b \in Actors : b # RP => pc[b] \notin Last
    BY <1>12
  <1>21. Bits'
    BY <1>2, <1>3, Zenon DEF Bits
  <1>22. TypeOK'
    BY <1>1, <1>4, <1>21, <1>3, <1>13, <1>11, <1>12, <1>9 DEF TypeOK, Header, Slots, Referents,
       Facts, Bits, Moved, CountedNext
  <1>23. LockInv'
    BY <1>1, <1>2, <1>3, <1>13, <1>11, <1>12 DEF LockInv, Facts, Bits, Moved
  <1>24. MutatorInv'
    <2>1. \A s \in Threads : pc'[s] \in MutatorLabels /\ cont'[s] = "idle"
      BY <1>1, <1>3, <1>13, <1>11, <1>12 DEF MutatorInv, MutatorLabels, Facts, Moved
    <2>2. \A b \in Actors : pc'[b] \in {"write_referent", "dec_referent"} => arg'[b] \in Referents
      BY <1>1, <1>3, <1>13, <1>11, <1>12 DEF MutatorInv, RpInv, Facts, Moved
    <2>3. \A b, d \in Actors :
             pc'[b] = "write_referent"
                => /\ slot'[arg'[b]] = "null"
                   /\ pc'[d] = "write_referent" /\ arg'[b] = arg'[d] => b = d
      BY <1>1, <1>3, <1>13, <1>11, <1>12 DEF MutatorInv, Referents, Slots, Facts, Moved
    <2> QED BY <2>1, <2>2, <2>3 DEF MutatorInv
  <1>25. RpInv'
    BY <1>1, <1>2, <1>3, <1>13, <1>11, <1>12 DEF RpInv, Facts, Bits, Moved
  <1>26. FinalInv'
    BY <1>1, <1>2, <1>3, <1>13, <1>11, <1>12, <1>19 DEF FinalInv, Finalizing, InFinalizer, Facts,
       Bits, Moved, NothingLeft
  <1>27. DeadInv'
    <2>1. CASE l = "collected"
      BY <2>1, <1>3, <1>19, <1>11 DEF DeadInv, NothingLeft
    <2>2. CASE l # "collected"
      <3>1. header'.collected => header.collected
        BY <2>2, <1>11
      <3>2. NoMutator => NoMutator'
        BY <1>1, <1>3, <1>13, <1>11 DEF NoMutator, Ops, Facts, Moved
      <3> QED BY <3>1, <3>2, <1>1, <1>3 DEF DeadInv, Facts
    <2> QED BY <2>1, <2>2
  <1>28. LastInv'
    <2> SUFFICES ASSUME NEW b \in Actors, pc'[b] \in Last PROVE Alone(b)'
      BY DEF LastInv
    <2>1. CASE b = RP
      BY <2>1, <1>1, <1>3, <1>13, <1>11, <1>12, <1>5, <1>19, <1>20, <1>26 DEF FinalInv,
         Finalizing, InFinalizer, Alone, Last, Facts, Moved, NothingLeft
    <2>2. CASE b # RP
      BY <2>2, <1>1, <1>2, <1>3, <1>13, <1>11, <1>12, <1>20, <1>5 DEF LastInv, Alone, Last,
         NoMutator, Gone, InFinalizer, Ops, Facts, Bits, Moved
    <2> QED BY <2>1, <2>2
  <1>29. FreedInv'
    BY <1>1, <1>2, <1>3, <1>13, <1>11, <1>12, <1>19, <1>20, <1>5 DEF FreedInv, NoMutator, Gone,
       Ops, Last, Facts, Bits, Moved, NothingLeft
  <1>30. CountInv'
    BY <1>9, <1>18, CountsKept
  <1> QED BY <1>4, <1>22, <1>23, <1>24, <1>25, <1>26, <1>27, <1>28, <1>29, <1>30 DEF IInv

\* RpEmpty.
LEMMA RpEmptyStep ==
    ASSUME IInv, RpEmpty
    PROVE  IInv'
  <1>1. Facts /\ RP \in Actors
    BY IInvFacts DEF Actors
  <1>2. Bits
    BY IInvFacts
  <1>3. PICK l \in {"check", "clear"} :
           /\ pc[RP] = "empty"
           /\ header' = header /\ finalizable' = finalizable /\ enqueued' = enqueued
           /\ queued' = queued /\ slot' = slot /\ active' = active /\ held' = held
           /\ ran' = ran /\ freed' = freed
           /\ Step(RP, l, arg[RP], cont[RP])
    BY DEF RpEmpty, Goto
  <1>4. IsFiniteSet(Locals') /\ held' \in [Actors -> Nat] /\ InLocals' = InLocals
    <2>1. held' \in [Actors -> Nat]
      BY <1>1, <1>3 DEF Facts
    <2>2. RP \in Actors /\ held \in [Actors -> Nat] /\ IsFiniteSet(Locals)
      BY <1>1 DEF Facts
    <2>3. held' = held
      BY <1>3
    <2> QED BY <2>1, <2>2, <2>3, LocalsEffect
  <1>5. Sums /\ Zeros
    BY <1>1, CountParts DEF IInv, Facts
  <1>6. Sums' /\ Zeros'
    BY <1>4, NextParts
  <1>7. Moved(RP, l, arg[RP], cont[RP]) /\ Recounted(RP, l, arg[RP])
    <2>1. l \in Labels /\ arg[RP] \in Slots /\ cont[RP] \in Labels
      BY <1>1, <1>3 DEF Labels, Slots, Referents, Facts
    <2> QED BY <2>1, <1>1, <1>3, StepEffect DEF IInv
  <1>8. StrongRefs' = StrongRefs
    BY <1>1, <1>3, <1>4, <1>5, <1>6, <1>7 DEF B2N, InFinalizer, Owned, Ops, RpInv, FinalInv,
       Finalizing, MutatorInv, Facts, Sums, Moved, Recounted
  <1>9. ReferentRefs("weak")' = ReferentRefs("weak")
    BY <1>1, <1>3, <1>5, <1>6, <1>7 DEF B2N, MutatorInv, Slots, Referents, Facts, Sums, Moved,
       Recounted
  <1>10. ReferentRefs("phantom")' = ReferentRefs("phantom")
    BY <1>1, <1>3, <1>5, <1>6, <1>7 DEF B2N, MutatorInv, Slots, Referents, Facts, Sums, Moved,
       Recounted
  <1>11. OwnRef' = OwnRef
    BY <1>1, <1>2, <1>3, <1>7 DEF B2N, OwnRef, Facts, Bits, Moved
  <1>12. Bits'
    BY <1>2, <1>3, Zenon DEF Bits
  <1>13. TypeOK'
    BY <1>1, <1>4, <1>12, <1>3, <1>7 DEF TypeOK, Header, Slots, Referents, Facts, Bits, Moved
  <1>14. LockInv'
    BY <1>1, <1>2, <1>3, <1>7 DEF LockInv, Facts, Bits, Moved
  <1>15. MutatorInv'
    <2>1. \A s \in Threads : pc'[s] \in MutatorLabels /\ cont'[s] = "idle"
      BY <1>1, <1>3, <1>7 DEF MutatorInv, MutatorLabels, Facts, Moved
    <2>2. \A b \in Actors : pc'[b] \in {"write_referent", "dec_referent"} => arg'[b] \in Referents
      BY <1>1, <1>3, <1>7 DEF MutatorInv, RpInv, Facts, Moved
    <2>3. \A b, d \in Actors :
             pc'[b] = "write_referent"
                => /\ slot'[arg'[b]] = "null"
                   /\ pc'[d] = "write_referent" /\ arg'[b] = arg'[d] => b = d
      BY <1>1, <1>3, <1>7 DEF MutatorInv, Referents, Slots, Facts, Moved
    <2> QED BY <2>1, <2>2, <2>3 DEF MutatorInv
  <1>16. RpInv'
    BY <1>1, <1>2, <1>3, <1>7 DEF RpInv, Facts, Bits, Moved
  <1>17. FinalInv'
    BY <1>1, <1>2, <1>3, <1>7 DEF FinalInv, Finalizing, InFinalizer, Facts, Bits, Moved
  <1>18. DeadInv'
    BY <1>1, <1>2, <1>3, <1>7 DEF DeadInv, NoMutator, Ops, Facts, Bits, Moved
  <1>19. LastInv'
    <2> SUFFICES ASSUME NEW b \in Actors, pc'[b] \in Last PROVE Alone(b)'
      BY DEF LastInv
    <2>1. CASE b = RP
      BY <2>1, <1>1, <1>2, <1>3, <1>7 DEF LastInv, Alone, Last, NoMutator, Gone, InFinalizer, Ops,
         Facts, Bits, Moved
    <2>2. CASE b # RP
      BY <2>2, <1>1, <1>2, <1>3, <1>7 DEF LastInv, Alone, Last, NoMutator, Gone, InFinalizer, Ops,
         Facts, Bits, Moved
    <2> QED BY <2>1, <2>2
  <1>20. FreedInv'
    BY <1>1, <1>2, <1>3, <1>7 DEF FreedInv, NoMutator, Gone, Ops, Last, Facts, Bits, Moved
  <1>21. CountInv'
    BY <1>1, <1>3, <1>7, <1>8, <1>9, <1>10, <1>11 DEF CountInv, Releasing, Facts, Moved
  <1> QED BY <1>4, <1>13, <1>14, <1>15, <1>16, <1>17, <1>18, <1>19, <1>20, <1>21 DEF IInv

\* RpCheckEmpty.
LEMMA RpCheckEmptyStep ==
    ASSUME IInv, RpCheckEmpty
    PROVE  IInv'
  <1>1. Facts /\ RP \in Actors
    BY IInvFacts DEF Actors
  <1>2. Bits
    BY IInvFacts
  <1>3. PICK l \in {"idle", "clear"} :
           /\ pc[RP] = "check"
           /\ header' = header /\ finalizable' = finalizable /\ enqueued' = enqueued
           /\ queued' = queued /\ slot' = slot /\ active' = active /\ held' = held
           /\ ran' = ran /\ freed' = freed
           /\ Step(RP, l, arg[RP], cont[RP])
    BY DEF RpCheckEmpty, Goto
  <1>4. IsFiniteSet(Locals') /\ held' \in [Actors -> Nat] /\ InLocals' = InLocals
    <2>1. held' \in [Actors -> Nat]
      BY <1>1, <1>3 DEF Facts
    <2>2. RP \in Actors /\ held \in [Actors -> Nat] /\ IsFiniteSet(Locals)
      BY <1>1 DEF Facts
    <2>3. held' = held
      BY <1>3
    <2> QED BY <2>1, <2>2, <2>3, LocalsEffect
  <1>5. Sums /\ Zeros
    BY <1>1, CountParts DEF IInv, Facts
  <1>6. Sums' /\ Zeros'
    BY <1>4, NextParts
  <1>7. Moved(RP, l, arg[RP], cont[RP]) /\ Recounted(RP, l, arg[RP])
    <2>1. l \in Labels /\ arg[RP] \in Slots /\ cont[RP] \in Labels
      BY <1>1, <1>3 DEF Labels, Slots, Referents, Facts
    <2> QED BY <2>1, <1>1, <1>3, StepEffect DEF IInv
  <1>8. StrongRefs' = StrongRefs
    BY <1>1, <1>3, <1>4, <1>5, <1>6, <1>7 DEF B2N, InFinalizer, Owned, Ops, RpInv, FinalInv,
       Finalizing, MutatorInv, Facts, Sums, Moved, Recounted
  <1>9. ReferentRefs("weak")' = ReferentRefs("weak")
    BY <1>1, <1>3, <1>5, <1>6, <1>7 DEF B2N, MutatorInv, Slots, Referents, Facts, Sums, Moved,
       Recounted
  <1>10. ReferentRefs("phantom")' = ReferentRefs("phantom")
    BY <1>1, <1>3, <1>5, <1>6, <1>7 DEF B2N, MutatorInv, Slots, Referents, Facts, Sums, Moved,
       Recounted
  <1>11. OwnRef' = OwnRef
    BY <1>1, <1>2, <1>3, <1>7 DEF B2N, OwnRef, Facts, Bits, Moved
  <1>12. Bits'
    BY <1>2, <1>3, Zenon DEF Bits
  <1>13. TypeOK'
    BY <1>1, <1>4, <1>12, <1>3, <1>7 DEF TypeOK, Header, Slots, Referents, Facts, Bits, Moved
  <1>14. LockInv'
    BY <1>1, <1>2, <1>3, <1>7 DEF LockInv, Facts, Bits, Moved
  <1>15. MutatorInv'
    <2>1. \A s \in Threads : pc'[s] \in MutatorLabels /\ cont'[s] = "idle"
      BY <1>1, <1>3, <1>7 DEF MutatorInv, MutatorLabels, Facts, Moved
    <2>2. \A b \in Actors : pc'[b] \in {"write_referent", "dec_referent"} => arg'[b] \in Referents
      BY <1>1, <1>3, <1>7 DEF MutatorInv, RpInv, Facts, Moved
    <2>3. \A b, d \in Actors :
             pc'[b] = "write_referent"
                => /\ slot'[arg'[b]] = "null"
                   /\ pc'[d] = "write_referent" /\ arg'[b] = arg'[d] => b = d
      BY <1>1, <1>3, <1>7 DEF MutatorInv, Referents, Slots, Facts, Moved
    <2> QED BY <2>1, <2>2, <2>3 DEF MutatorInv
  <1>16. RpInv'
    BY <1>1, <1>2, <1>3, <1>7 DEF RpInv, Facts, Bits, Moved
  <1>17. FinalInv'
    BY <1>1, <1>2, <1>3, <1>7 DEF FinalInv, Finalizing, InFinalizer, Facts, Bits, Moved
  <1>18. DeadInv'
    BY <1>1, <1>2, <1>3, <1>7 DEF DeadInv, NoMutator, Ops, Facts, Bits, Moved
  <1>19. LastInv'
    <2> SUFFICES ASSUME NEW b \in Actors, pc'[b] \in Last PROVE Alone(b)'
      BY DEF LastInv
    <2>1. CASE b = RP
      BY <2>1, <1>1, <1>2, <1>3, <1>7 DEF LastInv, Alone, Last, NoMutator, Gone, InFinalizer, Ops,
         Facts, Bits, Moved
    <2>2. CASE b # RP
      BY <2>2, <1>1, <1>2, <1>3, <1>7 DEF LastInv, Alone, Last, NoMutator, Gone, InFinalizer, Ops,
         Facts, Bits, Moved
    <2> QED BY <2>1, <2>2
  <1>20. FreedInv'
    BY <1>1, <1>2, <1>3, <1>7 DEF FreedInv, NoMutator, Gone, Ops, Last, Facts, Bits, Moved
  <1>21. CountInv'
    BY <1>1, <1>3, <1>7, <1>8, <1>9, <1>10, <1>11 DEF CountInv, Releasing, Facts, Moved
  <1> QED BY <1>4, <1>13, <1>14, <1>15, <1>16, <1>17, <1>18, <1>19, <1>20, <1>21 DEF IInv

\* RpClear.
LEMMA RpClearStep ==
    ASSUME IInv, RpClear
    PROVE  IInv'
  <1>1. Facts /\ RP \in Actors
    BY IInvFacts DEF Actors
  <1>2. Bits
    BY IInvFacts
  <1>3. PICK l \in {"drop", "dec_referent"} :
           /\ pc[RP] = "clear" /\ arg[RP] \in {"weak", "phantom"}
           /\ header' = header /\ finalizable' = finalizable /\ enqueued' = enqueued
           /\ queued' = queued /\ active' = active /\ held' = held /\ ran' = ran
           /\ freed' = freed
           /\ Step(RP, l, arg[RP], (IF l = "drop" THEN cont[RP] ELSE "drop"))
           /\ l = "drop" => slot' = slot
           /\ l = "dec_referent" => slot[arg[RP]] = "obj"
           /\ l = "dec_referent" => slot' = [slot EXCEPT ![arg[RP]] = "null"]
    BY <1>1 DEF RpClear, Goto, RpInv, Referents, Facts
  <1>4. IsFiniteSet(Locals') /\ held' \in [Actors -> Nat] /\ InLocals' = InLocals
    <2>1. held' \in [Actors -> Nat]
      BY <1>1, <1>3 DEF Facts
    <2>2. RP \in Actors /\ held \in [Actors -> Nat] /\ IsFiniteSet(Locals)
      BY <1>1 DEF Facts
    <2>3. held' = held
      BY <1>3
    <2> QED BY <2>1, <2>2, <2>3, LocalsEffect
  <1>5. /\ slot' \in [Slots -> {"null", "obj"} \cup Actors] /\ slot'["field"] = slot["field"]
        /\ \A j \in Slots : slot'[j] = slot[j] \/ (slot[j] = "obj" /\ slot'[j] = "null")
        /\ \A j \in Slots :
              j = arg[RP] /\ l = "dec_referent" => slot[j] = "obj" /\ slot'[j] = "null"
        /\ \A j \in Slots : j # arg[RP] \/ l = "drop" => slot'[j] = slot[j]
    BY <1>1, <1>3 DEF Slots, Facts
  <1>6. Sums /\ Zeros
    BY <1>1, CountParts DEF IInv, Facts
  <1>7. Sums' /\ Zeros'
    BY <1>4, NextParts
  <1>8. Moved(RP, l, arg[RP], (IF l = "drop" THEN cont[RP] ELSE "drop"))
        /\ Recounted(RP, l, arg[RP])
    <2> DEFINE m == IF l = "drop" THEN cont[RP] ELSE "drop"
    <2>1. l \in Labels /\ arg[RP] \in Slots /\ m \in Labels
      BY <1>1, <1>3 DEF Labels, Facts
    <2>2. Step(RP, l, arg[RP], m) /\ TypeOK /\ RP \in Actors
      BY <1>1, <1>3 DEF IInv, Facts
    <2>3. m = (IF l = "drop" THEN cont[RP] ELSE "drop")
      OBVIOUS
    <2> HIDE DEF m
    <2> QED BY <2>1, <2>2, <2>3, StepEffect
  <1>9. StrongRefs' = StrongRefs
    BY <1>1, <1>3, <1>4, <1>6, <1>7, <1>8, <1>5 DEF B2N, InFinalizer, Owned, Ops, RpInv, FinalInv,
       Finalizing, MutatorInv, Facts, Sums, Moved, Recounted
  <1>10. ReferentRefs("weak")' = ReferentRefs("weak")
    BY <1>1, <1>3, <1>6, <1>7, <1>8, <1>5 DEF B2N, MutatorInv, Slots, Referents, Facts, Sums,
       Moved, Recounted
  <1>11. ReferentRefs("phantom")' = ReferentRefs("phantom")
    BY <1>1, <1>3, <1>6, <1>7, <1>8, <1>5 DEF B2N, MutatorInv, Slots, Referents, Facts, Sums,
       Moved, Recounted
  <1>12. OwnRef' = OwnRef
    BY <1>1, <1>2, <1>3, <1>8 DEF B2N, OwnRef, Facts, Bits, Moved
  <1>13. Bits'
    BY <1>2, <1>3, Zenon DEF Bits
  <1>14. TypeOK'
    BY <1>1, <1>4, <1>13, <1>3, <1>8, <1>5 DEF TypeOK, Header, Slots, Referents, Facts, Bits,
       Moved
  <1>15. LockInv'
    BY <1>1, <1>2, <1>3, <1>8, <1>5 DEF LockInv, Facts, Bits, Moved
  <1>16. MutatorInv'
    <2>1. \A s \in Threads : pc'[s] \in MutatorLabels /\ cont'[s] = "idle"
      BY <1>1, <1>3, <1>8, <1>5 DEF MutatorInv, MutatorLabels, Facts, Moved
    <2>2. \A b \in Actors : pc'[b] \in {"write_referent", "dec_referent"} => arg'[b] \in Referents
      BY <1>1, <1>3, <1>8, <1>5 DEF MutatorInv, RpInv, Facts, Moved
    <2>3. \A b, d \in Actors :
             pc'[b] = "write_referent"
                => /\ slot'[arg'[b]] = "null"
                   /\ pc'[d] = "write_referent" /\ arg'[b] = arg'[d] => b = d
      BY <1>1, <1>3, <1>8, <1>5 DEF MutatorInv, Referents, Slots, Facts, Moved
    <2> QED BY <2>1, <2>2, <2>3 DEF MutatorInv
  <1>17. RpInv'
    BY <1>1, <1>2, <1>3, <1>8, <1>5 DEF RpInv, Facts, Bits, Moved
  <1>18. FinalInv'
    BY <1>1, <1>2, <1>3, <1>8, <1>5 DEF FinalInv, Finalizing, InFinalizer, Facts, Bits, Moved
  <1>19. DeadInv'
    BY <1>1, <1>2, <1>3, <1>8, <1>5 DEF DeadInv, NoMutator, Ops, Facts, Bits, Moved
  <1>20. LastInv'
    <2> SUFFICES ASSUME NEW b \in Actors, pc'[b] \in Last PROVE Alone(b)'
      BY DEF LastInv
    <2>1. CASE b = RP
      BY <2>1, <1>1, <1>2, <1>3, <1>8, <1>5 DEF LastInv, Alone, Last, NoMutator, Gone,
         InFinalizer, Ops, Facts, Bits, Moved
    <2>2. CASE b # RP
      BY <2>2, <1>1, <1>2, <1>3, <1>8, <1>5 DEF LastInv, Alone, Last, NoMutator, Gone,
         InFinalizer, Ops, Facts, Bits, Moved
    <2> QED BY <2>1, <2>2
  <1>21. FreedInv'
    BY <1>1, <1>2, <1>3, <1>8, <1>5 DEF FreedInv, NoMutator, Gone, Ops, Last, Facts, Bits, Moved
  <1>22. CountInv'
    BY <1>1, <1>3, <1>8, <1>9, <1>10, <1>11, <1>12 DEF CountInv, Releasing, Facts, Moved
  <1> QED BY <1>4, <1>14, <1>15, <1>16, <1>17, <1>18, <1>19, <1>20, <1>21, <1>22 DEF IInv

\* RpDrop, when the load gave nothing.
LEMMA RpDropNothing ==
    ASSUME IInv, RpDrop, held[RP] = 0
    PROVE  IInv'
  <1>1. Facts /\ RP \in Actors
    BY IInvFacts DEF Actors
  <1>2. Bits
    BY IInvFacts
  <1>3. /\ pc[RP] = "drop"
        /\ header' = header /\ finalizable' = finalizable /\ enqueued' = enqueued
        /\ queued' = queued /\ slot' = slot /\ active' = active /\ held' = held
        /\ ran' = ran /\ freed' = freed
        /\ Step(RP, "idle", arg[RP], cont[RP])
    BY <1>1 DEF RpDrop, Goto, Facts
  <1>4. IsFiniteSet(Locals') /\ held' \in [Actors -> Nat] /\ InLocals' = InLocals
    <2>1. held' \in [Actors -> Nat]
      BY <1>1, <1>3 DEF Facts
    <2>2. RP \in Actors /\ held \in [Actors -> Nat] /\ IsFiniteSet(Locals)
      BY <1>1 DEF Facts
    <2>3. held' = held
      BY <1>3
    <2> QED BY <2>1, <2>2, <2>3, LocalsEffect
  <1>5. Sums /\ Zeros
    BY <1>1, CountParts DEF IInv, Facts
  <1>6. Sums' /\ Zeros'
    BY <1>4, NextParts
  <1>7. Moved(RP, "idle", arg[RP], cont[RP]) /\ Recounted(RP, "idle", arg[RP])
    <2>1. "idle" \in Labels /\ arg[RP] \in Slots /\ cont[RP] \in Labels
      BY <1>1, <1>3 DEF Labels, Slots, Referents, Facts
    <2> QED BY <2>1, <1>1, <1>3, StepEffect DEF IInv
  <1>8. StrongRefs' = StrongRefs
    BY <1>1, <1>3, <1>4, <1>5, <1>6, <1>7 DEF B2N, InFinalizer, Owned, Ops, RpInv, FinalInv,
       Finalizing, MutatorInv, Facts, Sums, Moved, Recounted
  <1>9. ReferentRefs("weak")' = ReferentRefs("weak")
    BY <1>1, <1>3, <1>5, <1>6, <1>7 DEF B2N, MutatorInv, Slots, Referents, Facts, Sums, Moved,
       Recounted
  <1>10. ReferentRefs("phantom")' = ReferentRefs("phantom")
    BY <1>1, <1>3, <1>5, <1>6, <1>7 DEF B2N, MutatorInv, Slots, Referents, Facts, Sums, Moved,
       Recounted
  <1>11. OwnRef' = OwnRef
    BY <1>1, <1>2, <1>3, <1>7 DEF B2N, OwnRef, Facts, Bits, Moved
  <1>12. Bits'
    BY <1>2, <1>3, Zenon DEF Bits
  <1>13. TypeOK'
    BY <1>1, <1>4, <1>12, <1>3, <1>7 DEF TypeOK, Header, Slots, Referents, Facts, Bits, Moved
  <1>14. LockInv'
    BY <1>1, <1>2, <1>3, <1>7 DEF LockInv, Facts, Bits, Moved
  <1>15. MutatorInv'
    <2>1. \A s \in Threads : pc'[s] \in MutatorLabels /\ cont'[s] = "idle"
      BY <1>1, <1>3, <1>7 DEF MutatorInv, MutatorLabels, Facts, Moved
    <2>2. \A b \in Actors : pc'[b] \in {"write_referent", "dec_referent"} => arg'[b] \in Referents
      BY <1>1, <1>3, <1>7 DEF MutatorInv, RpInv, Facts, Moved
    <2>3. \A b, d \in Actors :
             pc'[b] = "write_referent"
                => /\ slot'[arg'[b]] = "null"
                   /\ pc'[d] = "write_referent" /\ arg'[b] = arg'[d] => b = d
      BY <1>1, <1>3, <1>7 DEF MutatorInv, Referents, Slots, Facts, Moved
    <2> QED BY <2>1, <2>2, <2>3 DEF MutatorInv
  <1>16. RpInv'
    BY <1>1, <1>2, <1>3, <1>7 DEF RpInv, Facts, Bits, Moved
  <1>17. FinalInv'
    BY <1>1, <1>2, <1>3, <1>7 DEF FinalInv, Finalizing, InFinalizer, Facts, Bits, Moved
  <1>18. DeadInv'
    BY <1>1, <1>2, <1>3, <1>7 DEF DeadInv, NoMutator, Ops, Facts, Bits, Moved
  <1>19. LastInv'
    <2> SUFFICES ASSUME NEW b \in Actors, pc'[b] \in Last PROVE Alone(b)'
      BY DEF LastInv
    <2>1. CASE b = RP
      BY <2>1, <1>1, <1>2, <1>3, <1>7 DEF LastInv, Alone, Last, NoMutator, Gone, InFinalizer, Ops,
         Facts, Bits, Moved
    <2>2. CASE b # RP
      BY <2>2, <1>1, <1>2, <1>3, <1>7 DEF LastInv, Alone, Last, NoMutator, Gone, InFinalizer, Ops,
         Facts, Bits, Moved
    <2> QED BY <2>1, <2>2
  <1>20. FreedInv'
    BY <1>1, <1>2, <1>3, <1>7 DEF FreedInv, NoMutator, Gone, Ops, Last, Facts, Bits, Moved
  <1>21. CountInv'
    BY <1>1, <1>3, <1>7, <1>8, <1>9, <1>10, <1>11 DEF CountInv, Releasing, Facts, Moved
  <1> QED BY <1>4, <1>13, <1>14, <1>15, <1>16, <1>17, <1>18, <1>19, <1>20, <1>21 DEF IInv

\* RpDrop, with a reference.
LEMMA RpDropDec ==
    ASSUME IInv, RpDrop, held[RP] # 0
    PROVE  IInv'
  <1>1. Facts /\ RP \in Actors
    BY IInvFacts DEF Actors
  <1>2. Bits
    BY IInvFacts
  <1>3. /\ pc[RP] = "drop" /\ held[RP] = 1
        /\ finalizable' = finalizable /\ enqueued' = enqueued /\ queued' = queued
        /\ slot' = slot /\ active' = active /\ ran' = ran /\ freed' = freed
        /\ held' = [held EXCEPT ![RP] = @ - 1]
        /\ Dec(RP, -1, 0, 0, "idle")
    <2>1. held[RP] = 1
      BY <1>1 DEF RpInv, Facts
    <2>2. held' = [held EXCEPT ![RP] = @ - 1]
      <3>1. held' = [held EXCEPT ![RP] = 0]
        BY DEF RpDrop
      <3> QED BY <3>1, <2>1, <1>1 DEF Facts
    <2>3. Dec(RP, -1, 0, 0, "idle")
      BY Zenon DEF RpDrop
    <2> QED BY <2>1, <2>2, <2>3 DEF RpDrop
  <1>4. IsFiniteSet(Locals') /\ held' \in [Actors -> Nat] /\ InLocals' = InLocals - 1
    <2>1. held' \in [Actors -> Nat]
      BY <1>1, <1>3 DEF Facts
    <2>2. RP \in Actors /\ held \in [Actors -> Nat] /\ IsFiniteSet(Locals)
      BY <1>1 DEF Facts
    <2>3. held[RP] > 0 /\ held' = [held EXCEPT ![RP] = @ - 1]
      BY <1>3
    <2> QED BY <2>1, <2>2, <2>3, LocalsEffect
  <1>5. freed = 0 /\ ~Releasing
    BY <1>1, <1>2, <1>3 DEF Releasing, LockInv, LastInv, Alone, FreedInv, Last, NoMutator, Gone,
       InFinalizer, Ops, MutatorInv, RpInv, Facts, Bits
  <1>6. Sums /\ Zeros
    BY <1>1, CountParts DEF IInv, Facts
  <1>7. Sums' /\ Zeros'
    BY <1>4, NextParts
  <1>8. CanAdd(-1, 0, 0)
    BY <1>1, <1>3, <1>6 DEF CanAdd, OwnRef, B2N, InFinalizer, Owned, Ops, Referents, Facts, Sums,
       Zeros
  <1>9. /\ CountedNext(-1, 0, 0)
        /\ \E l \in {"idle", "release", "collected"} : Decided(RP, l, -1, 0, 0, "idle")
    <2>1. "idle" \notin {"release", "collected"}
      OBVIOUS
    <2>2. RP \in Actors /\ Dec(RP, -1, 0, 0, "idle")
      BY <1>1, <1>3
    <2> QED BY <2>1, <2>2, <1>5, <1>8, DecStep
  <1>10. PICK l \in {"idle", "release", "collected"} : Decided(RP, l, -1, 0, 0, "idle")
    BY <1>9
  <1>11. /\ l \in {"idle", "release", "collected"}
         /\ header.collected => header'.collected
         /\ header'.collected => header.collected \/ l = "collected"
         /\ l = "collected" => ~header.collected /\ header'.collected
    BY <1>10, Zenon DEF Decided
  <1>12. Moved(RP, l, arg[RP], "idle") /\ Recounted(RP, l, arg[RP])
    <2>1. l \in Labels /\ arg[RP] \in Slots /\ "idle" \in Labels
      BY <1>1, <1>3, <1>10 DEF Labels, Slots, Referents, Facts, Decided
    <2> QED BY <2>1, <1>1, <1>10, StepEffect DEF IInv, Decided
  <1>13. StrongRefs' = StrongRefs - 1
    BY <1>1, <1>3, <1>4, <1>6, <1>7, <1>12, <1>10 DEF B2N, InFinalizer, Owned, Ops, RpInv,
       FinalInv, Finalizing, MutatorInv, Facts, Sums, Moved, Recounted, Decided
  <1>14. ReferentRefs("weak")' = ReferentRefs("weak")
    BY <1>1, <1>3, <1>6, <1>7, <1>12, <1>10 DEF B2N, MutatorInv, Slots, Referents, Facts, Sums,
       Moved, Recounted, Decided
  <1>15. ReferentRefs("phantom")' = ReferentRefs("phantom")
    BY <1>1, <1>3, <1>6, <1>7, <1>12, <1>10 DEF B2N, MutatorInv, Slots, Referents, Facts, Sums,
       Moved, Recounted, Decided
  <1>16. OwnRef' = OwnRef
    <2>1. CASE l = "collected"
      BY <2>1, <1>1, <1>2, <1>3, <1>12, <1>11 DEF B2N, OwnRef, Facts, Bits, Moved
    <2>2. CASE l # "collected"
      <3>1. (\E b \in Actors : pc'[b] \in {"collected", "weak_release"})
               <=> (\E b \in Actors : pc[b] \in {"collected", "weak_release"})
        BY <2>2, <1>1, <1>3, <1>12, <1>11 DEF Facts, Moved
      <3>2. pc'[RP] = "post_finalizable" <=> pc[RP] = "post_finalizable"
        BY <2>2, <1>1, <1>3, <1>12, <1>11 DEF Facts, Moved
      <3>3. (~header'.collected <=> ~header.collected) /\ finalizable' = finalizable
        BY <2>2, <1>3, <1>11, Zenon
      <3> QED BY <3>1, <3>2, <3>3, Zenon DEF B2N, OwnRef
    <2> QED BY <2>1, <2>2
  <1>17. Balanced(-1, 0, 0)
    <2>1. /\ StrongRefs \in Nat /\ ReferentRefs("weak") \in Nat
          /\ ReferentRefs("phantom") \in Nat /\ OwnRef \in Nat
      BY <1>6 DEF B2N, Sums
    <2> QED BY <2>1, <1>13, <1>14, <1>15, <1>16 DEF Balanced
  <1>18. l # "idle" => NothingLeft' /\ (l = "release" => Gone')
    BY <1>1, <1>17, <1>10, <1>12, <1>7, NothingLeftStep
  <1>19. l # "idle" => \A b \in Actors : b # RP => pc[b] \notin Last
    BY <1>1, <1>3 DEF LastInv, Alone, Facts  <1>20. Bits'
    BY <1>2, <1>3, Zenon DEF Bits
  <1>21. TypeOK'
    BY <1>1, <1>4, <1>20, <1>3, <1>12, <1>11, <1>9 DEF TypeOK, Header, Slots, Referents, Facts,
       Bits, Moved, CountedNext
  <1>22. LockInv'
    BY <1>1, <1>2, <1>3, <1>12, <1>11 DEF LockInv, Facts, Bits, Moved
  <1>23. MutatorInv'
    <2>1. \A s \in Threads : pc'[s] \in MutatorLabels /\ cont'[s] = "idle"
      BY <1>1, <1>3, <1>12, <1>11, <1>10 DEF MutatorInv, MutatorLabels, Facts, Moved
    <2>2. \A b \in Actors : pc'[b] \in {"write_referent", "dec_referent"} => arg'[b] \in Referents
      BY <1>1, <1>3, <1>12, <1>11, <1>10 DEF MutatorInv, RpInv, Facts, Moved
    <2>3. \A b, d \in Actors :
             pc'[b] = "write_referent"
                => /\ slot'[arg'[b]] = "null"
                   /\ pc'[d] = "write_referent" /\ arg'[b] = arg'[d] => b = d
      BY <1>1, <1>3, <1>12, <1>11, <1>10 DEF MutatorInv, Referents, Slots, Facts, Moved
    <2> QED BY <2>1, <2>2, <2>3 DEF MutatorInv
  <1>24. RpInv'
    BY <1>1, <1>2, <1>3, <1>12, <1>11 DEF RpInv, Facts, Bits, Moved
  <1>25. FinalInv'
    BY <1>1, <1>2, <1>3, <1>12, <1>11, <1>18 DEF FinalInv, Finalizing, InFinalizer, Facts, Bits,
       Moved, NothingLeft
  <1>26. DeadInv'
    <2>1. CASE l = "collected"
      BY <2>1, <1>3, <1>18, <1>11 DEF DeadInv, NothingLeft
    <2>2. CASE l # "collected"
      <3>1. header'.collected => header.collected
        BY <2>2, <1>11
      <3>2. NoMutator => NoMutator'
        BY <1>1, <1>3, <1>12, <1>11 DEF NoMutator, Ops, Facts, Moved
      <3> QED BY <3>1, <3>2, <1>1, <1>3 DEF DeadInv, Facts
    <2> QED BY <2>1, <2>2
  <1>27. LastInv'
    <2> SUFFICES ASSUME NEW b \in Actors, pc'[b] \in Last PROVE Alone(b)'
      BY DEF LastInv
    <2>1. CASE b = RP
      BY <2>1, <1>1, <1>3, <1>12, <1>11, <1>10, <1>5, <1>18, <1>19, <1>25 DEF FinalInv,
         Finalizing, InFinalizer, Alone, Last, Facts, Moved, NothingLeft
    <2>2. CASE b # RP
      BY <2>2, <1>1, <1>2, <1>3, <1>12, <1>11, <1>19, <1>5 DEF LastInv, Alone, Last, NoMutator,
         Gone, InFinalizer, Ops, Facts, Bits, Moved
    <2> QED BY <2>1, <2>2
  <1>28. FreedInv'
    BY <1>1, <1>2, <1>3, <1>12, <1>11, <1>18, <1>19, <1>5 DEF FreedInv, NoMutator, Gone, Ops,
       Last, Facts, Bits, Moved, NothingLeft
  <1>29. CountInv'
    BY <1>9, <1>17, CountsKept
  <1> QED BY <1>4, <1>21, <1>22, <1>23, <1>24, <1>25, <1>26, <1>27, <1>28, <1>29 DEF IInv

\* RpFinalize.
LEMMA RpFinalizeStep ==
    ASSUME IInv, RpFinalize
    PROVE  IInv'
  <1>1. Facts /\ RP \in Actors
    BY IInvFacts DEF Actors
  <1>2. Bits
    BY IInvFacts
  <1>3. /\ pc[RP] = "idle" /\ queued
        /\ header' = header /\ finalizable' = finalizable /\ enqueued' = enqueued
        /\ slot' = slot /\ active' = active /\ held' = held /\ freed' = freed
        /\ queued' = FALSE /\ ran' = TRUE
        /\ Step(RP, "finalize", arg[RP], cont[RP])
    BY DEF RpFinalize, Goto
  <1>4. IsFiniteSet(Locals') /\ held' \in [Actors -> Nat] /\ InLocals' = InLocals
    <2>1. held' \in [Actors -> Nat]
      BY <1>1, <1>3 DEF Facts
    <2>2. RP \in Actors /\ held \in [Actors -> Nat] /\ IsFiniteSet(Locals)
      BY <1>1 DEF Facts
    <2>3. held' = held
      BY <1>3
    <2> QED BY <2>1, <2>2, <2>3, LocalsEffect
  <1>5. Sums /\ Zeros
    BY <1>1, CountParts DEF IInv, Facts
  <1>6. Sums' /\ Zeros'
    BY <1>4, NextParts
  <1>7. Moved(RP, "finalize", arg[RP], cont[RP]) /\ Recounted(RP, "finalize", arg[RP])
    <2>1. "finalize" \in Labels /\ arg[RP] \in Slots /\ cont[RP] \in Labels
      BY <1>1, <1>3 DEF Labels, Slots, Referents, Facts
    <2> QED BY <2>1, <1>1, <1>3, StepEffect DEF IInv
  <1>8. StrongRefs' = StrongRefs
    BY <1>1, <1>3, <1>4, <1>5, <1>6, <1>7 DEF B2N, InFinalizer, Owned, Ops, RpInv, FinalInv,
       Finalizing, MutatorInv, Facts, Sums, Moved, Recounted
  <1>9. ReferentRefs("weak")' = ReferentRefs("weak")
    BY <1>1, <1>3, <1>5, <1>6, <1>7 DEF B2N, MutatorInv, Slots, Referents, Facts, Sums, Moved,
       Recounted
  <1>10. ReferentRefs("phantom")' = ReferentRefs("phantom")
    BY <1>1, <1>3, <1>5, <1>6, <1>7 DEF B2N, MutatorInv, Slots, Referents, Facts, Sums, Moved,
       Recounted
  <1>11. OwnRef' = OwnRef
    BY <1>1, <1>2, <1>3, <1>7 DEF B2N, OwnRef, Facts, Bits, Moved
  <1>12. Bits'
    BY <1>2, <1>3, Zenon DEF Bits
  <1>13. TypeOK'
    BY <1>1, <1>4, <1>12, <1>3, <1>7 DEF TypeOK, Header, Slots, Referents, Facts, Bits, Moved
  <1>14. LockInv'
    BY <1>1, <1>2, <1>3, <1>7 DEF LockInv, Facts, Bits, Moved
  <1>15. MutatorInv'
    <2>1. \A s \in Threads : pc'[s] \in MutatorLabels /\ cont'[s] = "idle"
      BY <1>1, <1>3, <1>7 DEF MutatorInv, MutatorLabels, Facts, Moved
    <2>2. \A b \in Actors : pc'[b] \in {"write_referent", "dec_referent"} => arg'[b] \in Referents
      BY <1>1, <1>3, <1>7 DEF MutatorInv, RpInv, Facts, Moved
    <2>3. \A b, d \in Actors :
             pc'[b] = "write_referent"
                => /\ slot'[arg'[b]] = "null"
                   /\ pc'[d] = "write_referent" /\ arg'[b] = arg'[d] => b = d
      BY <1>1, <1>3, <1>7 DEF MutatorInv, Referents, Slots, Facts, Moved
    <2> QED BY <2>1, <2>2, <2>3 DEF MutatorInv
  <1>16. RpInv'
    BY <1>1, <1>2, <1>3, <1>7 DEF RpInv, Facts, Bits, Moved
  <1>17. FinalInv'
    BY <1>1, <1>2, <1>3, <1>7 DEF FinalInv, Finalizing, InFinalizer, Facts, Bits, Moved
  <1>18. DeadInv'
    BY <1>1, <1>2, <1>3, <1>7 DEF DeadInv, NoMutator, Ops, Facts, Bits, Moved
  <1>19. LastInv'
    <2> SUFFICES ASSUME NEW b \in Actors, pc'[b] \in Last PROVE Alone(b)'
      BY DEF LastInv
    <2>1. CASE b = RP
      BY <2>1, <1>1, <1>2, <1>3, <1>7 DEF LastInv, Alone, Last, NoMutator, Gone, InFinalizer, Ops,
         FinalInv, Facts, Bits, Moved
    <2>2. CASE b # RP
      BY <2>2, <1>1, <1>2, <1>3, <1>7 DEF LastInv, Alone, Last, NoMutator, Gone, InFinalizer, Ops,
         FinalInv, Facts, Bits, Moved
    <2> QED BY <2>1, <2>2
  <1>20. FreedInv'
    BY <1>1, <1>2, <1>3, <1>7 DEF FreedInv, NoMutator, Gone, Ops, Last, Facts, Bits, Moved
  <1>21. CountInv'
    BY <1>1, <1>3, <1>7, <1>8, <1>9, <1>10, <1>11 DEF CountInv, Releasing, Facts, Moved
  <1> QED BY <1>4, <1>13, <1>14, <1>15, <1>16, <1>17, <1>18, <1>19, <1>20, <1>21 DEF IInv

\* RpFinalized.
LEMMA RpFinalizedStep ==
    ASSUME IInv, RpFinalized
    PROVE  IInv'
  <1>1. Facts /\ RP \in Actors
    BY IInvFacts DEF Actors
  <1>2. Bits
    BY IInvFacts
  <1>3. /\ pc[RP] \in {"finalize", "finalized"}
        /\ header' = header /\ queued' = queued /\ slot' = slot /\ active' = active
        /\ held' = held /\ ran' = ran /\ freed' = freed /\ finalizable' = FALSE
        /\ enqueued' = FALSE
        /\ Step(RP, "post_finalizable", arg[RP], cont[RP])
    BY DEF RpFinalized, Goto
  <1>4. IsFiniteSet(Locals') /\ held' \in [Actors -> Nat] /\ InLocals' = InLocals
    <2>1. held' \in [Actors -> Nat]
      BY <1>1, <1>3 DEF Facts
    <2>2. RP \in Actors /\ held \in [Actors -> Nat] /\ IsFiniteSet(Locals)
      BY <1>1 DEF Facts
    <2>3. held' = held
      BY <1>3
    <2> QED BY <2>1, <2>2, <2>3, LocalsEffect
  <1>5. Sums /\ Zeros
    BY <1>1, CountParts DEF IInv, Facts
  <1>6. Sums' /\ Zeros'
    BY <1>4, NextParts
  <1>7. Moved(RP, "post_finalizable", arg[RP], cont[RP])
        /\ Recounted(RP, "post_finalizable", arg[RP])
    <2>1. "post_finalizable" \in Labels /\ arg[RP] \in Slots /\ cont[RP] \in Labels
      BY <1>1, <1>3 DEF Labels, Slots, Referents, Facts
    <2> QED BY <2>1, <1>1, <1>3, StepEffect DEF IInv
  <1>8. StrongRefs' = StrongRefs
    BY <1>1, <1>3, <1>4, <1>5, <1>6, <1>7 DEF B2N, InFinalizer, Owned, Ops, RpInv, FinalInv,
       Finalizing, MutatorInv, Facts, Sums, Moved, Recounted
  <1>9. ReferentRefs("weak")' = ReferentRefs("weak")
    BY <1>1, <1>3, <1>5, <1>6, <1>7 DEF B2N, MutatorInv, Slots, Referents, Facts, Sums, Moved,
       Recounted
  <1>10. ReferentRefs("phantom")' = ReferentRefs("phantom")
    BY <1>1, <1>3, <1>5, <1>6, <1>7 DEF B2N, MutatorInv, Slots, Referents, Facts, Sums, Moved,
       Recounted
  <1>11. OwnRef' = OwnRef
    <2>1. finalizable
      BY <1>1, <1>3 DEF FinalInv, Finalizing, Facts
    <2>2. OwnRef = 1
      BY <2>1 DEF OwnRef, B2N
    <2>3. OwnRef' = 1
      BY <1>7 DEF OwnRef, B2N, Moved
    <2> QED BY <2>2, <2>3
  <1>12. Bits'
    BY <1>2, <1>3, Zenon DEF Bits
  <1>13. TypeOK'
    BY <1>1, <1>4, <1>12, <1>3, <1>7 DEF TypeOK, Header, Slots, Referents, Facts, Bits, Moved
  <1>14. LockInv'
    BY <1>1, <1>2, <1>3, <1>7 DEF LockInv, Facts, Bits, Moved
  <1>15. MutatorInv'
    <2>1. \A s \in Threads : pc'[s] \in MutatorLabels /\ cont'[s] = "idle"
      BY <1>1, <1>3, <1>7 DEF MutatorInv, MutatorLabels, Facts, Moved
    <2>2. \A b \in Actors : pc'[b] \in {"write_referent", "dec_referent"} => arg'[b] \in Referents
      BY <1>1, <1>3, <1>7 DEF MutatorInv, RpInv, Facts, Moved
    <2>3. \A b, d \in Actors :
             pc'[b] = "write_referent"
                => /\ slot'[arg'[b]] = "null"
                   /\ pc'[d] = "write_referent" /\ arg'[b] = arg'[d] => b = d
      BY <1>1, <1>3, <1>7 DEF MutatorInv, Referents, Slots, Facts, Moved
    <2> QED BY <2>1, <2>2, <2>3 DEF MutatorInv
  <1>16. RpInv'
    BY <1>1, <1>2, <1>3, <1>7 DEF RpInv, Facts, Bits, Moved
  <1>17. FinalInv'
    BY <1>1, <1>2, <1>3, <1>7 DEF FinalInv, Finalizing, InFinalizer, Facts, Bits, Moved
  <1>18. DeadInv'
    BY <1>1, <1>2, <1>3, <1>7 DEF DeadInv, NoMutator, Ops, Facts, Bits, Moved
  <1>19. LastInv'
    <2> SUFFICES ASSUME NEW b \in Actors, pc'[b] \in Last PROVE Alone(b)'
      BY DEF LastInv
    <2>1. CASE b = RP
      BY <2>1, <1>1, <1>2, <1>3, <1>7 DEF LastInv, Alone, Last, NoMutator, Gone, InFinalizer, Ops,
         Facts, Bits, Moved
    <2>2. CASE b # RP
      BY <2>2, <1>1, <1>2, <1>3, <1>7 DEF LastInv, Alone, Last, NoMutator, Gone, InFinalizer, Ops,
         Facts, Bits, Moved
    <2> QED BY <2>1, <2>2
  <1>20. FreedInv'
    BY <1>1, <1>2, <1>3, <1>7 DEF FreedInv, NoMutator, Gone, Ops, Last, Facts, Bits, Moved
  <1>21. CountInv'
    BY <1>1, <1>3, <1>7, <1>8, <1>9, <1>10, <1>11 DEF CountInv, Releasing, Facts, Moved
  <1> QED BY <1>4, <1>13, <1>14, <1>15, <1>16, <1>17, <1>18, <1>19, <1>20, <1>21 DEF IInv

\* RpDecList.
LEMMA RpDecListStep ==
    ASSUME IInv, RpDecList
    PROVE  IInv'
  <1>1. Facts /\ RP \in Actors
    BY IInvFacts DEF Actors
  <1>2. Bits
    BY IInvFacts
  <1>3. /\ pc[RP] = "dec_list"
        /\ finalizable' = finalizable /\ enqueued' = enqueued /\ queued' = queued
        /\ slot' = slot /\ active' = active /\ held' = held /\ ran' = ran /\ freed' = freed
        /\ Dec(RP, -1, 0, 0, "idle")
    BY DEF RpDecList
  <1>4. IsFiniteSet(Locals') /\ held' \in [Actors -> Nat] /\ InLocals' = InLocals
    <2>1. held' \in [Actors -> Nat]
      BY <1>1, <1>3 DEF Facts
    <2>2. RP \in Actors /\ held \in [Actors -> Nat] /\ IsFiniteSet(Locals)
      BY <1>1 DEF Facts
    <2>3. held' = held
      BY <1>3
    <2> QED BY <2>1, <2>2, <2>3, LocalsEffect
  <1>5. freed = 0 /\ ~Releasing
    BY <1>1, <1>2, <1>3 DEF Releasing, LockInv, LastInv, Alone, FreedInv, Last, NoMutator, Gone,
       InFinalizer, Ops, MutatorInv, RpInv, Facts, Bits
  <1>6. Sums /\ Zeros
    BY <1>1, CountParts DEF IInv, Facts
  <1>7. Sums' /\ Zeros'
    BY <1>4, NextParts
  <1>8. CanAdd(-1, 0, 0)
    BY <1>1, <1>3, <1>6 DEF CanAdd, OwnRef, B2N, InFinalizer, Owned, Ops, Referents, Facts, Sums,
       Zeros
  <1>9. /\ CountedNext(-1, 0, 0)
        /\ \E l \in {"idle", "release", "collected"} : Decided(RP, l, -1, 0, 0, "idle")
    <2>1. "idle" \notin {"release", "collected"}
      OBVIOUS
    <2>2. RP \in Actors /\ Dec(RP, -1, 0, 0, "idle")
      BY <1>1, <1>3
    <2> QED BY <2>1, <2>2, <1>5, <1>8, DecStep
  <1>10. PICK l \in {"idle", "release", "collected"} : Decided(RP, l, -1, 0, 0, "idle")
    BY <1>9
  <1>11. /\ l \in {"idle", "release", "collected"}
         /\ header.collected => header'.collected
         /\ header'.collected => header.collected \/ l = "collected"
         /\ l = "collected" => ~header.collected /\ header'.collected
    BY <1>10, Zenon DEF Decided
  <1>12. Moved(RP, l, arg[RP], "idle") /\ Recounted(RP, l, arg[RP])
    <2>1. l \in Labels /\ arg[RP] \in Slots /\ "idle" \in Labels
      BY <1>1, <1>3, <1>10 DEF Labels, Slots, Referents, Facts, Decided
    <2> QED BY <2>1, <1>1, <1>10, StepEffect DEF IInv, Decided
  <1>13. StrongRefs' = StrongRefs - 1
    BY <1>1, <1>3, <1>4, <1>6, <1>7, <1>12, <1>10 DEF B2N, InFinalizer, Owned, Ops, RpInv,
       FinalInv, Finalizing, MutatorInv, Facts, Sums, Moved, Recounted, Decided
  <1>14. ReferentRefs("weak")' = ReferentRefs("weak")
    BY <1>1, <1>3, <1>6, <1>7, <1>12, <1>10 DEF B2N, MutatorInv, Slots, Referents, Facts, Sums,
       Moved, Recounted, Decided
  <1>15. ReferentRefs("phantom")' = ReferentRefs("phantom")
    BY <1>1, <1>3, <1>6, <1>7, <1>12, <1>10 DEF B2N, MutatorInv, Slots, Referents, Facts, Sums,
       Moved, Recounted, Decided
  <1>16. OwnRef' = OwnRef
    <2>1. CASE l = "collected"
      BY <2>1, <1>1, <1>2, <1>3, <1>12, <1>11 DEF B2N, OwnRef, Facts, Bits, Moved
    <2>2. CASE l # "collected"
      <3>1. (\E b \in Actors : pc'[b] \in {"collected", "weak_release"})
               <=> (\E b \in Actors : pc[b] \in {"collected", "weak_release"})
        BY <2>2, <1>1, <1>3, <1>12, <1>11 DEF Facts, Moved
      <3>2. pc'[RP] = "post_finalizable" <=> pc[RP] = "post_finalizable"
        BY <2>2, <1>1, <1>3, <1>12, <1>11 DEF Facts, Moved
      <3>3. (~header'.collected <=> ~header.collected) /\ finalizable' = finalizable
        BY <2>2, <1>3, <1>11, Zenon
      <3> QED BY <3>1, <3>2, <3>3, Zenon DEF B2N, OwnRef
    <2> QED BY <2>1, <2>2
  <1>17. Balanced(-1, 0, 0)
    <2>1. /\ StrongRefs \in Nat /\ ReferentRefs("weak") \in Nat
          /\ ReferentRefs("phantom") \in Nat /\ OwnRef \in Nat
      BY <1>6 DEF B2N, Sums
    <2> QED BY <2>1, <1>13, <1>14, <1>15, <1>16 DEF Balanced
  <1>18. l # "idle" => NothingLeft' /\ (l = "release" => Gone')
    BY <1>1, <1>17, <1>10, <1>12, <1>7, NothingLeftStep
  <1>19. l # "idle" => \A b \in Actors : b # RP => pc[b] \notin Last
    BY <1>1, <1>2, <1>3, <1>12, <1>10, <1>18, <1>7 DEF OwnRef, B2N, LastInv, Alone, Last,
       NoMutator, Gone, InFinalizer, Owned, Ops, MutatorInv, Facts, Bits, Moved, Decided,
       NothingLeft, Sums
  <1>20. Bits'
    BY <1>2, <1>3, Zenon DEF Bits
  <1>21. TypeOK'
    BY <1>1, <1>4, <1>20, <1>3, <1>12, <1>11, <1>9 DEF TypeOK, Header, Slots, Referents, Facts,
       Bits, Moved, CountedNext
  <1>22. LockInv'
    BY <1>1, <1>2, <1>3, <1>12, <1>11 DEF LockInv, Facts, Bits, Moved
  <1>23. MutatorInv'
    <2>1. \A s \in Threads : pc'[s] \in MutatorLabels /\ cont'[s] = "idle"
      BY <1>1, <1>3, <1>12, <1>11, <1>10 DEF MutatorInv, MutatorLabels, Facts, Moved
    <2>2. \A b \in Actors : pc'[b] \in {"write_referent", "dec_referent"} => arg'[b] \in Referents
      BY <1>1, <1>3, <1>12, <1>11, <1>10 DEF MutatorInv, RpInv, Facts, Moved
    <2>3. \A b, d \in Actors :
             pc'[b] = "write_referent"
                => /\ slot'[arg'[b]] = "null"
                   /\ pc'[d] = "write_referent" /\ arg'[b] = arg'[d] => b = d
      BY <1>1, <1>3, <1>12, <1>11, <1>10 DEF MutatorInv, Referents, Slots, Facts, Moved
    <2> QED BY <2>1, <2>2, <2>3 DEF MutatorInv
  <1>24. RpInv'
    BY <1>1, <1>2, <1>3, <1>12, <1>11 DEF RpInv, Facts, Bits, Moved
  <1>25. FinalInv'
    BY <1>1, <1>2, <1>3, <1>12, <1>11, <1>18 DEF FinalInv, Finalizing, InFinalizer, Facts, Bits,
       Moved, NothingLeft
  <1>26. DeadInv'
    <2>1. CASE l = "collected"
      BY <2>1, <1>3, <1>18, <1>11 DEF DeadInv, NothingLeft
    <2>2. CASE l # "collected"
      <3>1. header'.collected => header.collected
        BY <2>2, <1>11
      <3>2. NoMutator => NoMutator'
        BY <1>1, <1>3, <1>12, <1>11 DEF NoMutator, Ops, Facts, Moved
      <3> QED BY <3>1, <3>2, <1>1, <1>3 DEF DeadInv, Facts
    <2> QED BY <2>1, <2>2
  <1>27. LastInv'
    <2> SUFFICES ASSUME NEW b \in Actors, pc'[b] \in Last PROVE Alone(b)'
      BY DEF LastInv
    <2>1. CASE b = RP
      BY <2>1, <1>1, <1>3, <1>12, <1>11, <1>10, <1>5, <1>18, <1>19, <1>25 DEF FinalInv,
         Finalizing, InFinalizer, Alone, Last, Facts, Moved, NothingLeft
    <2>2. CASE b # RP
      BY <2>2, <1>1, <1>2, <1>3, <1>12, <1>11, <1>19, <1>5 DEF LastInv, Alone, Last, NoMutator,
         Gone, InFinalizer, Ops, Facts, Bits, Moved
    <2> QED BY <2>1, <2>2
  <1>28. FreedInv'
    BY <1>1, <1>2, <1>3, <1>12, <1>11, <1>18, <1>19, <1>5 DEF FreedInv, NoMutator, Gone, Ops,
       Last, Facts, Bits, Moved, NothingLeft
  <1>29. CountInv'
    BY <1>9, <1>17, CountsKept
  <1> QED BY <1>4, <1>21, <1>22, <1>23, <1>24, <1>25, <1>26, <1>27, <1>28, <1>29 DEF IInv

\* RpPostFinalizable, when the object is not weak collected.
LEMMA RpPostKeep ==
    ASSUME IInv, RpPostFinalizable, ~header.collected
    PROVE  IInv'
  <1>1. Facts /\ RP \in Actors
    BY IInvFacts DEF Actors
  <1>2. Bits
    BY IInvFacts
  <1>3. /\ pc[RP] = "post_finalizable" /\ ~header.collected
        /\ header' = header /\ finalizable' = finalizable /\ enqueued' = enqueued
        /\ queued' = queued /\ slot' = slot /\ active' = active /\ held' = held
        /\ ran' = ran /\ freed' = freed
        /\ Step(RP, "dec_list", arg[RP], cont[RP])
    BY DEF RpPostFinalizable, Goto
  <1>4. IsFiniteSet(Locals') /\ held' \in [Actors -> Nat] /\ InLocals' = InLocals
    <2>1. held' \in [Actors -> Nat]
      BY <1>1, <1>3 DEF Facts
    <2>2. RP \in Actors /\ held \in [Actors -> Nat] /\ IsFiniteSet(Locals)
      BY <1>1 DEF Facts
    <2>3. held' = held
      BY <1>3
    <2> QED BY <2>1, <2>2, <2>3, LocalsEffect
  <1>5. Sums /\ Zeros
    BY <1>1, CountParts DEF IInv, Facts
  <1>6. Sums' /\ Zeros'
    BY <1>4, NextParts
  <1>7. Moved(RP, "dec_list", arg[RP], cont[RP]) /\ Recounted(RP, "dec_list", arg[RP])
    <2>1. "dec_list" \in Labels /\ arg[RP] \in Slots /\ cont[RP] \in Labels
      BY <1>1, <1>3 DEF Labels, Slots, Referents, Facts
    <2> QED BY <2>1, <1>1, <1>3, StepEffect DEF IInv
  <1>8. StrongRefs' = StrongRefs
    BY <1>1, <1>3, <1>4, <1>5, <1>6, <1>7 DEF B2N, InFinalizer, Owned, Ops, RpInv, FinalInv,
       Finalizing, MutatorInv, Facts, Sums, Moved, Recounted
  <1>9. ReferentRefs("weak")' = ReferentRefs("weak")
    BY <1>1, <1>3, <1>5, <1>6, <1>7 DEF B2N, MutatorInv, Slots, Referents, Facts, Sums, Moved,
       Recounted
  <1>10. ReferentRefs("phantom")' = ReferentRefs("phantom")
    BY <1>1, <1>3, <1>5, <1>6, <1>7 DEF B2N, MutatorInv, Slots, Referents, Facts, Sums, Moved,
       Recounted
  <1>11. OwnRef' = OwnRef
    BY <1>1, <1>2, <1>3, <1>7 DEF B2N, OwnRef, Facts, Bits, Moved
  <1>12. Bits'
    BY <1>2, <1>3, Zenon DEF Bits
  <1>13. TypeOK'
    BY <1>1, <1>4, <1>12, <1>3, <1>7 DEF TypeOK, Header, Slots, Referents, Facts, Bits, Moved
  <1>14. LockInv'
    BY <1>1, <1>2, <1>3, <1>7 DEF LockInv, Facts, Bits, Moved
  <1>15. MutatorInv'
    <2>1. \A s \in Threads : pc'[s] \in MutatorLabels /\ cont'[s] = "idle"
      BY <1>1, <1>3, <1>7 DEF MutatorInv, MutatorLabels, Facts, Moved
    <2>2. \A b \in Actors : pc'[b] \in {"write_referent", "dec_referent"} => arg'[b] \in Referents
      BY <1>1, <1>3, <1>7 DEF MutatorInv, RpInv, Facts, Moved
    <2>3. \A b, d \in Actors :
             pc'[b] = "write_referent"
                => /\ slot'[arg'[b]] = "null"
                   /\ pc'[d] = "write_referent" /\ arg'[b] = arg'[d] => b = d
      BY <1>1, <1>3, <1>7 DEF MutatorInv, Referents, Slots, Facts, Moved
    <2> QED BY <2>1, <2>2, <2>3 DEF MutatorInv
  <1>16. RpInv'
    BY <1>1, <1>2, <1>3, <1>7 DEF RpInv, Facts, Bits, Moved
  <1>17. FinalInv'
    BY <1>1, <1>2, <1>3, <1>7 DEF FinalInv, Finalizing, InFinalizer, Facts, Bits, Moved
  <1>18. DeadInv'
    BY <1>1, <1>2, <1>3, <1>7 DEF DeadInv, NoMutator, Ops, Facts, Bits, Moved
  <1>19. LastInv'
    <2> SUFFICES ASSUME NEW b \in Actors, pc'[b] \in Last PROVE Alone(b)'
      BY DEF LastInv
    <2>1. CASE b = RP
      BY <2>1, <1>1, <1>2, <1>3, <1>7 DEF LastInv, Alone, Last, NoMutator, Gone, InFinalizer, Ops,
         Facts, Bits, Moved
    <2>2. CASE b # RP
      BY <2>2, <1>1, <1>2, <1>3, <1>7 DEF LastInv, Alone, Last, NoMutator, Gone, InFinalizer, Ops,
         Facts, Bits, Moved
    <2> QED BY <2>1, <2>2
  <1>20. FreedInv'
    BY <1>1, <1>2, <1>3, <1>7 DEF FreedInv, NoMutator, Gone, Ops, Last, Facts, Bits, Moved
  <1>21. CountInv'
    BY <1>1, <1>3, <1>7, <1>8, <1>9, <1>10, <1>11 DEF CountInv, Releasing, Facts, Moved
  <1> QED BY <1>4, <1>13, <1>14, <1>15, <1>16, <1>17, <1>18, <1>19, <1>20, <1>21 DEF IInv

\* RpPostFinalizable, when there are references left.
LEMMA RpPostDec ==
    ASSUME IInv, RpPostFinalizable, header.collected, ~OnlyListLeft(header)
    PROVE  IInv'
  <1>1. Facts /\ RP \in Actors
    BY IInvFacts DEF Actors
  <1>2. Bits
    BY IInvFacts
  <1>3. /\ pc[RP] = "post_finalizable" /\ header.collected /\ ~finalizable
        /\ finalizable' = finalizable /\ enqueued' = enqueued /\ queued' = queued
        /\ slot' = slot /\ active' = active /\ held' = held /\ ran' = ran /\ freed' = freed
        /\ Dec(RP, 0, -1, 0, "dec_list")
    BY <1>1 DEF RpPostFinalizable, FinalInv, Facts
  <1>4. IsFiniteSet(Locals') /\ held' \in [Actors -> Nat] /\ InLocals' = InLocals
    <2>1. held' \in [Actors -> Nat]
      BY <1>1, <1>3 DEF Facts
    <2>2. RP \in Actors /\ held \in [Actors -> Nat] /\ IsFiniteSet(Locals)
      BY <1>1 DEF Facts
    <2>3. held' = held
      BY <1>3
    <2> QED BY <2>1, <2>2, <2>3, LocalsEffect
  <1>5. freed = 0 /\ ~Releasing
    BY <1>1, <1>2, <1>3 DEF Releasing, LockInv, LastInv, Alone, FreedInv, Last, NoMutator, Gone,
       InFinalizer, Ops, MutatorInv, RpInv, Facts, Bits
  <1>6. Sums /\ Zeros
    BY <1>1, CountParts DEF IInv, Facts
  <1>7. Sums' /\ Zeros'
    BY <1>4, NextParts
  <1>8. CanAdd(0, -1, 0) /\ StrongRefs # 0
    BY <1>1, <1>3, <1>6 DEF CanAdd, OwnRef, B2N, InFinalizer, Owned, Ops, Referents, Facts, Sums,
       Zeros
  <1>9. /\ CountedNext(0, -1, 0)
        /\ \E l \in {"dec_list", "release", "collected"} : Decided(RP, l, 0, -1, 0, "dec_list")
    <2>1. "dec_list" \notin {"release", "collected"}
      OBVIOUS
    <2>2. RP \in Actors /\ Dec(RP, 0, -1, 0, "dec_list")
      BY <1>1, <1>3
    <2> QED BY <2>1, <2>2, <1>5, <1>8, DecStep
  <1>10. PICK l \in {"dec_list", "release", "collected"} : Decided(RP, l, 0, -1, 0, "dec_list")
    BY <1>9
  <1>11. /\ l \in {"dec_list", "release", "collected"}
         /\ header.collected => header'.collected
         /\ header'.collected => header.collected \/ l = "collected"
         /\ l = "collected" => ~header.collected /\ header'.collected
    BY <1>10, Zenon DEF Decided
  <1>12. l = "dec_list"
    BY <1>10, <1>8, <1>6 DEF B2N, Decided, Sums
  <1>13. Moved(RP, l, arg[RP], "dec_list") /\ Recounted(RP, l, arg[RP])
    <2>1. l \in Labels /\ arg[RP] \in Slots /\ "dec_list" \in Labels
      BY <1>1, <1>3, <1>10 DEF Labels, Slots, Referents, Facts, Decided
    <2> QED BY <2>1, <1>1, <1>10, StepEffect DEF IInv, Decided
  <1>14. StrongRefs' = StrongRefs
    BY <1>1, <1>3, <1>4, <1>6, <1>7, <1>13, <1>10, <1>12 DEF B2N, InFinalizer, Owned, Ops, RpInv,
       FinalInv, Finalizing, MutatorInv, Facts, Sums, Moved, Recounted, Decided
  <1>15. ReferentRefs("weak")' = ReferentRefs("weak")
    BY <1>1, <1>3, <1>6, <1>7, <1>13, <1>10, <1>12 DEF B2N, MutatorInv, Slots, Referents, Facts,
       Sums, Moved, Recounted, Decided
  <1>16. ReferentRefs("phantom")' = ReferentRefs("phantom")
    BY <1>1, <1>3, <1>6, <1>7, <1>13, <1>10, <1>12 DEF B2N, MutatorInv, Slots, Referents, Facts,
       Sums, Moved, Recounted, Decided
  <1>17. OwnRef' = OwnRef - 1
    <2>1. \A b \in Actors : pc[b] \notin Last
      BY <1>1, <1>3 DEF LastInv, Alone, InFinalizer, Facts
    <2>2. OwnRef = 1
      BY <1>3 DEF OwnRef, B2N
    <2>3. \A b \in Actors : pc'[b] \notin {"collected", "weak_release"}
      BY <2>1, <1>1, <1>3, <1>13, <1>12 DEF Last, Facts, Moved
    <2>4. ~finalizable' /\ header'.collected /\ pc'[RP] # "post_finalizable"
      BY <1>3, <1>13, <1>12, <1>11 DEF Moved
    <2>5. OwnRef' = 0
      BY <2>3, <2>4 DEF OwnRef, B2N
    <2> QED BY <2>2, <2>5
  <1>18. Balanced(0, -1, 0)
    <2>1. /\ StrongRefs \in Nat /\ ReferentRefs("weak") \in Nat
          /\ ReferentRefs("phantom") \in Nat /\ OwnRef \in Nat
      BY <1>6 DEF B2N, Sums
    <2> QED BY <2>1, <1>14, <1>15, <1>16, <1>17 DEF Balanced
  <1>19. l # "dec_list" => NothingLeft' /\ (l = "release" => Gone')
    BY <1>12
  <1>20. l # "dec_list" => \A b \in Actors : b # RP => pc[b] \notin Last
    BY <1>12
  <1>21. Bits'
    BY <1>2, <1>3, Zenon DEF Bits
  <1>22. TypeOK'
    BY <1>1, <1>4, <1>21, <1>3, <1>13, <1>11, <1>12, <1>9 DEF TypeOK, Header, Slots, Referents,
       Facts, Bits, Moved, CountedNext
  <1>23. LockInv'
    BY <1>1, <1>2, <1>3, <1>13, <1>11, <1>12 DEF LockInv, Facts, Bits, Moved
  <1>24. MutatorInv'
    <2>1. \A s \in Threads : pc'[s] \in MutatorLabels /\ cont'[s] = "idle"
      BY <1>1, <1>3, <1>13, <1>11, <1>12 DEF MutatorInv, MutatorLabels, Facts, Moved
    <2>2. \A b \in Actors : pc'[b] \in {"write_referent", "dec_referent"} => arg'[b] \in Referents
      BY <1>1, <1>3, <1>13, <1>11, <1>12 DEF MutatorInv, RpInv, Facts, Moved
    <2>3. \A b, d \in Actors :
             pc'[b] = "write_referent"
                => /\ slot'[arg'[b]] = "null"
                   /\ pc'[d] = "write_referent" /\ arg'[b] = arg'[d] => b = d
      BY <1>1, <1>3, <1>13, <1>11, <1>12 DEF MutatorInv, Referents, Slots, Facts, Moved
    <2> QED BY <2>1, <2>2, <2>3 DEF MutatorInv
  <1>25. RpInv'
    BY <1>1, <1>2, <1>3, <1>13, <1>11, <1>12 DEF RpInv, Facts, Bits, Moved
  <1>26. FinalInv'
    BY <1>1, <1>2, <1>3, <1>13, <1>11, <1>12, <1>19 DEF FinalInv, Finalizing, InFinalizer, Facts,
       Bits, Moved, NothingLeft
  <1>27. DeadInv'
    <2>1. CASE l = "collected"
      BY <2>1, <1>3, <1>19, <1>11 DEF DeadInv, NothingLeft
    <2>2. CASE l # "collected"
      <3>1. header'.collected => header.collected
        BY <2>2, <1>11
      <3>2. NoMutator => NoMutator'
        BY <1>1, <1>3, <1>13, <1>11 DEF NoMutator, Ops, Facts, Moved
      <3> QED BY <3>1, <3>2, <1>1, <1>3 DEF DeadInv, Facts
    <2> QED BY <2>1, <2>2
  <1>28. LastInv'
    <2> SUFFICES ASSUME NEW b \in Actors, pc'[b] \in Last PROVE Alone(b)'
      BY DEF LastInv
    <2>1. CASE b = RP
      BY <2>1, <1>1, <1>3, <1>13, <1>11, <1>12, <1>5, <1>19, <1>20, <1>26 DEF FinalInv,
         Finalizing, InFinalizer, Alone, Last, Facts, Moved, NothingLeft
    <2>2. CASE b # RP
      BY <2>2, <1>1, <1>2, <1>3, <1>13, <1>11, <1>12, <1>20, <1>5 DEF LastInv, Alone, Last,
         NoMutator, Gone, InFinalizer, Ops, Facts, Bits, Moved
    <2> QED BY <2>1, <2>2
  <1>29. FreedInv'
    BY <1>1, <1>2, <1>3, <1>13, <1>11, <1>12, <1>19, <1>20, <1>5 DEF FreedInv, NoMutator, Gone,
       Ops, Last, Facts, Bits, Moved, NothingLeft
  <1>30. CountInv'
    BY <1>9, <1>18, CountsKept
  <1> QED BY <1>4, <1>22, <1>23, <1>24, <1>25, <1>26, <1>27, <1>28, <1>29, <1>30 DEF IInv

\* RpPostFinalizable, when only the reference of the list is left.
LEMMA RpPostRelease ==
    ASSUME IInv, RpPostFinalizable, header.collected, OnlyListLeft(header)
    PROVE  IInv'
  <1>1. Facts /\ RP \in Actors
    BY IInvFacts DEF Actors
  <1>2. Bits
    BY IInvFacts
  <1>3. /\ pc[RP] = "post_finalizable" /\ header.collected /\ ~finalizable
        /\ header' = header /\ finalizable' = finalizable /\ enqueued' = enqueued
        /\ queued' = queued /\ slot' = slot /\ active' = active /\ held' = held
        /\ ran' = ran /\ freed' = freed
        /\ Step(RP, "release", arg[RP], "idle")
    BY <1>1 DEF RpPostFinalizable, FinalInv, Facts
  <1>4. IsFiniteSet(Locals') /\ held' \in [Actors -> Nat] /\ InLocals' = InLocals
    <2>1. held' \in [Actors -> Nat]
      BY <1>1, <1>3 DEF Facts
    <2>2. RP \in Actors /\ held \in [Actors -> Nat] /\ IsFiniteSet(Locals)
      BY <1>1 DEF Facts
    <2>3. held' = held
      BY <1>3
    <2> QED BY <2>1, <2>2, <2>3, LocalsEffect
  <1>5. Sums /\ Zeros
    BY <1>1, CountParts DEF IInv, Facts
  <1>6. Sums' /\ Zeros'
    BY <1>4, NextParts
  <1>7. Moved(RP, "release", arg[RP], "idle") /\ Recounted(RP, "release", arg[RP])
    <2>1. "release" \in Labels /\ arg[RP] \in Slots /\ "idle" \in Labels
      BY <1>1, <1>3 DEF Labels, Slots, Referents, Facts
    <2> QED BY <2>1, <1>1, <1>3, StepEffect DEF IInv
  <1>8. StrongRefs' = StrongRefs - 1
    BY <1>1, <1>3, <1>4, <1>5, <1>6, <1>7 DEF B2N, InFinalizer, Owned, Ops, RpInv, FinalInv,
       Finalizing, MutatorInv, Facts, Sums, Moved, Recounted
  <1>9. ReferentRefs("weak")' = ReferentRefs("weak")
    BY <1>1, <1>3, <1>5, <1>6, <1>7 DEF B2N, MutatorInv, Slots, Referents, Facts, Sums, Moved,
       Recounted
  <1>10. ReferentRefs("phantom")' = ReferentRefs("phantom")
    BY <1>1, <1>3, <1>5, <1>6, <1>7 DEF B2N, MutatorInv, Slots, Referents, Facts, Sums, Moved,
       Recounted
  <1>11. OwnRef' = OwnRef - 1
    <2>1. \A b \in Actors : pc[b] \notin Last
      BY <1>1, <1>3 DEF LastInv, Alone, InFinalizer, Facts
    <2>2. OwnRef = 1
      BY <1>3 DEF OwnRef, B2N
    <2>3. \A b \in Actors : pc'[b] \notin {"collected", "weak_release"}
      BY <2>1, <1>1, <1>3, <1>7 DEF Last, Facts, Moved
    <2>4. ~finalizable' /\ header'.collected /\ pc'[RP] # "post_finalizable"
      BY <1>3, <1>7 DEF Moved
    <2>5. OwnRef' = 0
      BY <2>3, <2>4 DEF OwnRef, B2N
    <2> QED BY <2>2, <2>5
  <1>12. Bits'
    BY <1>2, <1>3, Zenon DEF Bits
  <1>13. TypeOK'
    BY <1>1, <1>4, <1>12, <1>3, <1>7 DEF TypeOK, Header, Slots, Referents, Facts, Bits, Moved
  <1>14. LockInv'
    BY <1>1, <1>2, <1>3, <1>7 DEF LockInv, Facts, Bits, Moved
  <1>15. MutatorInv'
    <2>1. \A s \in Threads : pc'[s] \in MutatorLabels /\ cont'[s] = "idle"
      BY <1>1, <1>3, <1>7 DEF MutatorInv, MutatorLabels, Facts, Moved
    <2>2. \A b \in Actors : pc'[b] \in {"write_referent", "dec_referent"} => arg'[b] \in Referents
      BY <1>1, <1>3, <1>7 DEF MutatorInv, RpInv, Facts, Moved
    <2>3. \A b, d \in Actors :
             pc'[b] = "write_referent"
                => /\ slot'[arg'[b]] = "null"
                   /\ pc'[d] = "write_referent" /\ arg'[b] = arg'[d] => b = d
      BY <1>1, <1>3, <1>7 DEF MutatorInv, Referents, Slots, Facts, Moved
    <2> QED BY <2>1, <2>2, <2>3 DEF MutatorInv
  <1>16. RpInv'
    BY <1>1, <1>2, <1>3, <1>7 DEF RpInv, Facts, Bits, Moved
  <1>17. FinalInv'
    BY <1>1, <1>2, <1>3, <1>7 DEF FinalInv, Finalizing, InFinalizer, Facts, Bits, Moved
  <1>18. DeadInv'
    BY <1>1, <1>2, <1>3, <1>7 DEF DeadInv, NoMutator, Ops, Facts, Bits, Moved
  <1>19. LastInv'
    <2>1. header.strong = 1 /\ header.resurrect = 0 /\ header.weak = 1
      BY DEF OnlyListLeft, TotalRC
    <2>2. freed = 0 /\ ~Releasing
      BY <1>1, <1>3 DEF FreedInv, Releasing, Facts
    <2>3. StrongRefs = 1 /\ ReferentRefs("weak") = 0 /\ ReferentRefs("phantom") + OwnRef = 1
      BY <2>1, <2>2, <1>1, RefCountAssumption DEF CountInv, Counted, Facts
    <2>4. /\ StrongRefs' = 0 /\ ReferentRefs("weak")' = 0
          /\ ReferentRefs("phantom")' = 0
      <3>1. ReferentRefs("phantom") \in Nat /\ OwnRef = 1
        <4>1. ReferentRefs("phantom") \in Nat
          BY <1>5 DEF B2N, Sums
        <4> QED BY ONLY <4>1, <1>11, <1>6, <1>5 DEF Sums
      <3> QED BY ONLY <3>1, <2>3, <1>8, <1>9, <1>10
    <2>5. /\ B2N(slot'["field"] # "null") \in {0, 1} /\ B2N(queued') \in {0, 1}
          /\ B2N(InFinalizer') \in {0, 1} /\ B2N(slot'["weak"] # "null") \in {0, 1}
          /\ B2N(slot'["phantom"] # "null") \in {0, 1}
      BY DEF B2N
    <2>6. /\ InLocals' = 0 /\ At(Owned)' = 0 /\ B2N(slot'["field"] # "null") = 0
          /\ B2N(queued') = 0 /\ B2N(InFinalizer') = 0
      BY ONLY <2>4, <2>5, <1>6 DEF Sums
    <2>7. /\ Clearing("weak")' = 0 /\ Clearing("phantom")' = 0
          /\ B2N(slot'["weak"] # "null") = 0 /\ B2N(slot'["phantom"] # "null") = 0
      BY ONLY <2>4, <2>5, <1>6 DEF Sums
    <2>8. /\ \A j \in Slots : slot'[j] = "null"
          /\ ~queued' /\ ~InFinalizer'
      BY <2>6, <2>7 DEF B2N, Slots, Referents
    <2>9. \A b \in Actors : held'[b] = 0 /\ pc'[b] \notin Owned
      BY <2>6, <1>6 DEF Zeros
    <2>10. \A b \in Actors : pc'[b] # "dec_referent"
      <3>1. \A b \in Actors : pc'[b] = "dec_referent" => arg'[b] \in Referents
        BY <1>15 DEF MutatorInv
      <3> QED BY <3>1, <2>7, <1>6 DEF Referents, Zeros
    <2>11. NoMutator' /\ Gone'
      BY <2>8, <2>9, <2>10, <1>1 DEF NoMutator, Gone, Owned, Slots, Facts
    <2>12. ~enqueued'
      BY <1>17, <2>8, <1>7 DEF FinalInv, Finalizing, Moved
    <2>13. \A b \in Actors : pc'[b] \in Last => b = RP
      BY <1>1, <1>3, <1>7 DEF LastInv, Alone, Last, InFinalizer, Facts, Moved
    <2>14. freed' = 0 /\ pc'[RP] = "release"
      BY <2>2, <1>3, <1>7 DEF Moved
    <2>15. Alone(RP)'
      BY <2>8, <2>11, <2>12, <2>13, <2>14 DEF Alone
    <2> QED BY <2>13, <2>15 DEF LastInv
  <1>20. FreedInv'
    BY <1>1, <1>2, <1>3, <1>7 DEF FreedInv, NoMutator, Gone, Ops, Last, Facts, Bits, Moved
  <1>21. CountInv'
    BY <1>3, <1>7 DEF CountInv, Releasing, Moved
  <1> QED BY <1>4, <1>13, <1>14, <1>15, <1>16, <1>17, <1>18, <1>19, <1>20, <1>21 DEF IInv

\* RpCollect of an object that is weak collected.
LEMMA RpCollectDead ==
    ASSUME IInv, RpCollect, header.collected
    PROVE  IInv'
  <1>1. Facts /\ RP \in Actors
    BY IInvFacts DEF Actors
  <1>2. Bits
    BY IInvFacts
  <1>3. /\ pc[RP] = "process"
        /\ header' = header /\ finalizable' = finalizable /\ enqueued' = enqueued
        /\ queued' = queued /\ slot' = slot /\ active' = active /\ held' = held
        /\ ran' = ran /\ freed' = freed
        /\ Step(RP, "clear", arg[RP], cont[RP])
    <2>1. header.collected \in BOOLEAN
      BY <1>1 DEF Header, Facts
    <2>2. (header.collected \/ WeakCollectable(header)) = header.collected
      BY <2>1, Zenon
    <2>3. header' = [header EXCEPT !.collected = header.collected \/ WeakCollectable(header)]
      BY DEF RpCollect
    <2>4. header' = header
      BY <2>2, <2>3, <1>1 DEF Header, Facts
    <2> QED BY <2>4 DEF RpCollect, Goto
  <1>4. IsFiniteSet(Locals') /\ held' \in [Actors -> Nat] /\ InLocals' = InLocals
    <2>1. held' \in [Actors -> Nat]
      BY <1>1, <1>3 DEF Facts
    <2>2. RP \in Actors /\ held \in [Actors -> Nat] /\ IsFiniteSet(Locals)
      BY <1>1 DEF Facts
    <2>3. held' = held
      BY <1>3
    <2> QED BY <2>1, <2>2, <2>3, LocalsEffect
  <1>5. Sums /\ Zeros
    BY <1>1, CountParts DEF IInv, Facts
  <1>6. Sums' /\ Zeros'
    BY <1>4, NextParts
  <1>7. Moved(RP, "clear", arg[RP], cont[RP]) /\ Recounted(RP, "clear", arg[RP])
    <2>1. "clear" \in Labels /\ arg[RP] \in Slots /\ cont[RP] \in Labels
      BY <1>1, <1>3 DEF Labels, Slots, Referents, Facts
    <2> QED BY <2>1, <1>1, <1>3, StepEffect DEF IInv
  <1>8. StrongRefs' = StrongRefs
    BY <1>1, <1>3, <1>4, <1>5, <1>6, <1>7 DEF B2N, InFinalizer, Owned, Ops, RpInv, FinalInv,
       Finalizing, MutatorInv, Facts, Sums, Moved, Recounted
  <1>9. ReferentRefs("weak")' = ReferentRefs("weak")
    BY <1>1, <1>3, <1>5, <1>6, <1>7 DEF B2N, MutatorInv, Slots, Referents, Facts, Sums, Moved,
       Recounted
  <1>10. ReferentRefs("phantom")' = ReferentRefs("phantom")
    BY <1>1, <1>3, <1>5, <1>6, <1>7 DEF B2N, MutatorInv, Slots, Referents, Facts, Sums, Moved,
       Recounted
  <1>11. OwnRef' = OwnRef
    BY <1>1, <1>2, <1>3, <1>7 DEF B2N, OwnRef, Facts, Bits, Moved
  <1>12. Bits'
    BY <1>2, <1>3, Zenon DEF Bits
  <1>13. TypeOK'
    BY <1>1, <1>4, <1>12, <1>3, <1>7 DEF TypeOK, Header, Slots, Referents, Facts, Bits, Moved
  <1>14. LockInv'
    BY <1>1, <1>2, <1>3, <1>7 DEF LockInv, Facts, Bits, Moved
  <1>15. MutatorInv'
    <2>1. \A s \in Threads : pc'[s] \in MutatorLabels /\ cont'[s] = "idle"
      BY <1>1, <1>3, <1>7 DEF MutatorInv, MutatorLabels, Facts, Moved
    <2>2. \A b \in Actors : pc'[b] \in {"write_referent", "dec_referent"} => arg'[b] \in Referents
      BY <1>1, <1>3, <1>7 DEF MutatorInv, RpInv, Facts, Moved
    <2>3. \A b, d \in Actors :
             pc'[b] = "write_referent"
                => /\ slot'[arg'[b]] = "null"
                   /\ pc'[d] = "write_referent" /\ arg'[b] = arg'[d] => b = d
      BY <1>1, <1>3, <1>7 DEF MutatorInv, Referents, Slots, Facts, Moved
    <2> QED BY <2>1, <2>2, <2>3 DEF MutatorInv
  <1>16. RpInv'
    BY <1>1, <1>2, <1>3, <1>7 DEF RpInv, Facts, Bits, Moved
  <1>17. FinalInv'
    BY <1>1, <1>2, <1>3, <1>7 DEF FinalInv, Finalizing, InFinalizer, Facts, Bits, Moved
  <1>18. DeadInv'
    BY <1>1, <1>2, <1>3, <1>7 DEF DeadInv, NoMutator, Ops, Facts, Bits, Moved
  <1>19. LastInv'
    <2> SUFFICES ASSUME NEW b \in Actors, pc'[b] \in Last PROVE Alone(b)'
      BY DEF LastInv
    <2>1. CASE b = RP
      BY <2>1, <1>1, <1>2, <1>3, <1>7 DEF LastInv, Alone, Last, NoMutator, Gone, InFinalizer, Ops,
         Facts, Bits, Moved
    <2>2. CASE b # RP
      BY <2>2, <1>1, <1>2, <1>3, <1>7 DEF LastInv, Alone, Last, NoMutator, Gone, InFinalizer, Ops,
         Facts, Bits, Moved
    <2> QED BY <2>1, <2>2
  <1>20. FreedInv'
    BY <1>1, <1>2, <1>3, <1>7 DEF FreedInv, NoMutator, Gone, Ops, Last, Facts, Bits, Moved
  <1>21. CountInv'
    BY <1>1, <1>3, <1>7, <1>8, <1>9, <1>10, <1>11 DEF CountInv, Releasing, Facts, Moved
  <1> QED BY <1>4, <1>13, <1>14, <1>15, <1>16, <1>17, <1>18, <1>19, <1>20, <1>21 DEF IInv

\* RpCollect of an object that others have references to.
LEMMA RpCollectNot ==
    ASSUME IInv, RpCollect, ~header.collected, ~WeakCollectable(header)
    PROVE  IInv'
  <1>1. Facts /\ RP \in Actors
    BY IInvFacts DEF Actors
  <1>2. Bits
    BY IInvFacts
  <1>3. /\ pc[RP] = "process"
        /\ header' = header /\ finalizable' = finalizable /\ enqueued' = enqueued
        /\ queued' = queued /\ slot' = slot /\ active' = active /\ held' = held
        /\ ran' = ran /\ freed' = freed
        /\ Step(RP, "drop", arg[RP], cont[RP])
    <2>1. header.collected \in BOOLEAN
      BY <1>1 DEF Header, Facts
    <2>2. (header.collected \/ WeakCollectable(header)) = header.collected
      BY <2>1, Zenon
    <2>3. header' = [header EXCEPT !.collected = header.collected \/ WeakCollectable(header)]
      BY DEF RpCollect
    <2>4. header' = header
      BY <2>2, <2>3, <1>1 DEF Header, Facts
    <2> QED BY <2>4 DEF RpCollect, Goto
  <1>4. IsFiniteSet(Locals') /\ held' \in [Actors -> Nat] /\ InLocals' = InLocals
    <2>1. held' \in [Actors -> Nat]
      BY <1>1, <1>3 DEF Facts
    <2>2. RP \in Actors /\ held \in [Actors -> Nat] /\ IsFiniteSet(Locals)
      BY <1>1 DEF Facts
    <2>3. held' = held
      BY <1>3
    <2> QED BY <2>1, <2>2, <2>3, LocalsEffect
  <1>5. Sums /\ Zeros
    BY <1>1, CountParts DEF IInv, Facts
  <1>6. Sums' /\ Zeros'
    BY <1>4, NextParts
  <1>7. Moved(RP, "drop", arg[RP], cont[RP]) /\ Recounted(RP, "drop", arg[RP])
    <2>1. "drop" \in Labels /\ arg[RP] \in Slots /\ cont[RP] \in Labels
      BY <1>1, <1>3 DEF Labels, Slots, Referents, Facts
    <2> QED BY <2>1, <1>1, <1>3, StepEffect DEF IInv
  <1>8. StrongRefs' = StrongRefs
    BY <1>1, <1>3, <1>4, <1>5, <1>6, <1>7 DEF B2N, InFinalizer, Owned, Ops, RpInv, FinalInv,
       Finalizing, MutatorInv, Facts, Sums, Moved, Recounted
  <1>9. ReferentRefs("weak")' = ReferentRefs("weak")
    BY <1>1, <1>3, <1>5, <1>6, <1>7 DEF B2N, MutatorInv, Slots, Referents, Facts, Sums, Moved,
       Recounted
  <1>10. ReferentRefs("phantom")' = ReferentRefs("phantom")
    BY <1>1, <1>3, <1>5, <1>6, <1>7 DEF B2N, MutatorInv, Slots, Referents, Facts, Sums, Moved,
       Recounted
  <1>11. OwnRef' = OwnRef
    BY <1>1, <1>2, <1>3, <1>7 DEF B2N, OwnRef, Facts, Bits, Moved
  <1>12. Bits'
    BY <1>2, <1>3, Zenon DEF Bits
  <1>13. TypeOK'
    BY <1>1, <1>4, <1>12, <1>3, <1>7 DEF TypeOK, Header, Slots, Referents, Facts, Bits, Moved
  <1>14. LockInv'
    BY <1>1, <1>2, <1>3, <1>7 DEF LockInv, Facts, Bits, Moved
  <1>15. MutatorInv'
    <2>1. \A s \in Threads : pc'[s] \in MutatorLabels /\ cont'[s] = "idle"
      BY <1>1, <1>3, <1>7 DEF MutatorInv, MutatorLabels, Facts, Moved
    <2>2. \A b \in Actors : pc'[b] \in {"write_referent", "dec_referent"} => arg'[b] \in Referents
      BY <1>1, <1>3, <1>7 DEF MutatorInv, RpInv, Facts, Moved
    <2>3. \A b, d \in Actors :
             pc'[b] = "write_referent"
                => /\ slot'[arg'[b]] = "null"
                   /\ pc'[d] = "write_referent" /\ arg'[b] = arg'[d] => b = d
      BY <1>1, <1>3, <1>7 DEF MutatorInv, Referents, Slots, Facts, Moved
    <2> QED BY <2>1, <2>2, <2>3 DEF MutatorInv
  <1>16. RpInv'
    BY <1>1, <1>2, <1>3, <1>7 DEF RpInv, Facts, Bits, Moved
  <1>17. FinalInv'
    BY <1>1, <1>2, <1>3, <1>7 DEF FinalInv, Finalizing, InFinalizer, Facts, Bits, Moved
  <1>18. DeadInv'
    BY <1>1, <1>2, <1>3, <1>7 DEF DeadInv, NoMutator, Ops, Facts, Bits, Moved
  <1>19. LastInv'
    <2> SUFFICES ASSUME NEW b \in Actors, pc'[b] \in Last PROVE Alone(b)'
      BY DEF LastInv
    <2>1. CASE b = RP
      BY <2>1, <1>1, <1>2, <1>3, <1>7 DEF LastInv, Alone, Last, NoMutator, Gone, InFinalizer, Ops,
         Facts, Bits, Moved
    <2>2. CASE b # RP
      BY <2>2, <1>1, <1>2, <1>3, <1>7 DEF LastInv, Alone, Last, NoMutator, Gone, InFinalizer, Ops,
         Facts, Bits, Moved
    <2> QED BY <2>1, <2>2
  <1>20. FreedInv'
    BY <1>1, <1>2, <1>3, <1>7 DEF FreedInv, NoMutator, Gone, Ops, Last, Facts, Bits, Moved
  <1>21. CountInv'
    BY <1>1, <1>3, <1>7, <1>8, <1>9, <1>10, <1>11 DEF CountInv, Releasing, Facts, Moved
  <1> QED BY <1>4, <1>13, <1>14, <1>15, <1>16, <1>17, <1>18, <1>19, <1>20, <1>21 DEF IInv

\* RpCollect of an object that only the reference processor has a reference to.
LEMMA RpCollectNow ==
    ASSUME IInv, RpCollect, ~header.collected, WeakCollectable(header)
    PROVE  IInv'
  <1>1. Facts /\ RP \in Actors
    BY IInvFacts DEF Actors
  <1>2. Bits
    BY IInvFacts
  <1>3. /\ pc[RP] = "process" /\ header.strong = 1 /\ ~header.collected /\ held[RP] = 1
        /\ finalizable' = finalizable /\ enqueued' = enqueued /\ queued' = queued
        /\ slot' = slot /\ active' = active /\ held' = held /\ ran' = ran /\ freed' = freed
        /\ header' = [header EXCEPT !.collected = TRUE]
        /\ Step(RP, "weak_release", arg[RP], cont[RP])
    <2>1. /\ pc[RP] = "process" /\ held[RP] = 1 /\ header.strong = 1
          /\ header.collected \in BOOLEAN
      BY <1>1 DEF RpCollect, RpInv, WeakCollectable, Header, Facts
    <2>2. (header.collected \/ WeakCollectable(header)) = TRUE
      BY Zenon
    <2>3. header' = [header EXCEPT !.collected = header.collected \/ WeakCollectable(header)]
      BY DEF RpCollect
    <2>4. header' = [header EXCEPT !.collected = TRUE]
      BY <2>2, <2>3
    <2> QED BY <2>1, <2>4 DEF RpCollect, Goto
  <1>4. IsFiniteSet(Locals') /\ held' \in [Actors -> Nat] /\ InLocals' = InLocals
    <2>1. held' \in [Actors -> Nat]
      BY <1>1, <1>3 DEF Facts
    <2>2. RP \in Actors /\ held \in [Actors -> Nat] /\ IsFiniteSet(Locals)
      BY <1>1 DEF Facts
    <2>3. held' = held
      BY <1>3
    <2> QED BY <2>1, <2>2, <2>3, LocalsEffect
  <1>5. freed = 0 /\ ~Releasing
    BY <1>1, <1>2, <1>3 DEF Releasing, LockInv, LastInv, Alone, FreedInv, Last, NoMutator, Gone,
       InFinalizer, Ops, MutatorInv, RpInv, Facts, Bits
  <1>6. Sums /\ Zeros
    BY <1>1, CountParts DEF IInv, Facts
  <1>7. Sums' /\ Zeros'
    BY <1>4, NextParts
  <1>8. Moved(RP, "weak_release", arg[RP], cont[RP]) /\ Recounted(RP, "weak_release", arg[RP])
    <2>1. "weak_release" \in Labels /\ arg[RP] \in Slots /\ cont[RP] \in Labels
      BY <1>1, <1>3 DEF Labels, Slots, Referents, Facts
    <2> QED BY <2>1, <1>1, <1>3, StepEffect DEF IInv
  <1>9. CountedNext(0, 0, 0) /\ header'.collected
    <2>1. Counted(header, StrongRefs, ReferentRefs("weak"), ReferentRefs("phantom") + OwnRef)
      BY <1>1, <1>5 DEF CountInv, Facts
    <2>2. /\ header' \in Header /\ header'.collected /\ header'.strong = header.strong
          /\ header'.resurrect = header.resurrect /\ header'.weak = header.weak
      BY <1>1, <1>3 DEF Header, Facts
    <2>3. /\ StrongRefs \in Nat /\ ReferentRefs("weak") \in Nat
          /\ ReferentRefs("phantom") \in Nat /\ OwnRef \in Nat
      BY <1>6 DEF B2N, Sums
    <2> QED BY <2>1, <2>2, <2>3 DEF Counted, CountedNext
  <1>10. /\ NoMutator /\ ~queued /\ ~InFinalizer
         /\ \A b \in Actors : (b # RP => held[b] = 0) /\ pc[b] \notin Owned
    <2>1. StrongRefs = 1
      BY <1>1, <1>3, <1>5, RefCountAssumption DEF CountInv, Counted, Facts
    <2>2. InLocals # 0
      BY <1>1, <1>3, <1>6 DEF Facts, Zeros
    <2>3. /\ B2N(slot["field"] # "null") \in {0, 1} /\ B2N(queued) \in {0, 1}
          /\ B2N(InFinalizer) \in {0, 1}
      BY DEF B2N
    <2>4. /\ InLocals = 1 /\ At(Owned) = 0 /\ B2N(slot["field"] # "null") = 0
          /\ B2N(queued) = 0 /\ B2N(InFinalizer) = 0
      BY ONLY <2>1, <2>2, <2>3, <1>6 DEF Sums
    <2>5. \A b \in Actors : b # RP => held[b] = 0
      BY <2>4, <1>1, <1>3, OneLocal DEF InLocals, Locals, Facts
    <2>6. slot["field"] = "null" /\ ~queued /\ ~InFinalizer
      BY <2>4 DEF B2N
    <2>7. \A b \in Actors : pc[b] \notin Owned
      BY <2>4, <1>6 DEF Zeros
    <2> QED BY <2>5, <2>6, <2>7, <1>1 DEF NoMutator, Owned, Facts
  <1>11. StrongRefs' = StrongRefs
    BY <1>1, <1>3, <1>4, <1>6, <1>7, <1>8 DEF B2N, InFinalizer, Owned, Ops, RpInv, FinalInv,
       Finalizing, MutatorInv, Facts, Sums, Moved, Recounted
  <1>12. ReferentRefs("weak")' = ReferentRefs("weak")
    BY <1>1, <1>3, <1>6, <1>7, <1>8 DEF B2N, MutatorInv, Slots, Referents, Facts, Sums, Moved,
       Recounted
  <1>13. ReferentRefs("phantom")' = ReferentRefs("phantom")
    BY <1>1, <1>3, <1>6, <1>7, <1>8 DEF B2N, MutatorInv, Slots, Referents, Facts, Sums, Moved,
       Recounted
  <1>14. OwnRef' = OwnRef
    <2>1. OwnRef = 1 /\ OwnRef' = 1
      BY <1>1, <1>3, <1>8 DEF OwnRef, B2N, Facts, Moved
    <2> QED BY <2>1
  <1>15. Balanced(0, 0, 0)
    <2>1. /\ StrongRefs \in Nat /\ ReferentRefs("weak") \in Nat
          /\ ReferentRefs("phantom") \in Nat /\ OwnRef \in Nat
      BY <1>6 DEF B2N, Sums
    <2> QED BY <2>1, <1>11, <1>12, <1>13, <1>14 DEF Balanced
  <1>16. Bits'
    BY <1>2, <1>3, Zenon DEF Bits
  <1>17. TypeOK'
    BY <1>1, <1>4, <1>16, <1>3, <1>8, <1>9 DEF TypeOK, Header, Slots, Referents, Facts, Bits,
       Moved, CountedNext
  <1>18. LockInv'
    BY <1>1, <1>2, <1>3, <1>8, <1>9 DEF LockInv, Facts, Bits, Moved, CountedNext
  <1>19. MutatorInv'
    <2>1. \A s \in Threads : pc'[s] \in MutatorLabels /\ cont'[s] = "idle"
      BY <1>1, <1>3, <1>8 DEF MutatorInv, MutatorLabels, Facts, Moved
    <2>2. \A b \in Actors : pc'[b] \in {"write_referent", "dec_referent"} => arg'[b] \in Referents
      BY <1>1, <1>3, <1>8 DEF MutatorInv, RpInv, Facts, Moved
    <2>3. \A b, d \in Actors :
             pc'[b] = "write_referent"
                => /\ slot'[arg'[b]] = "null"
                   /\ pc'[d] = "write_referent" /\ arg'[b] = arg'[d] => b = d
      BY <1>1, <1>3, <1>8 DEF MutatorInv, Referents, Slots, Facts, Moved
    <2> QED BY <2>1, <2>2, <2>3 DEF MutatorInv
  <1>20. RpInv'
    BY <1>1, <1>2, <1>3, <1>8, <1>9 DEF RpInv, Facts, Bits, Moved, CountedNext
  <1>21. FinalInv'
    BY <1>1, <1>2, <1>3, <1>8, <1>9 DEF FinalInv, Finalizing, InFinalizer, Facts, Bits, Moved,
       CountedNext
  <1>22. DeadInv'
    <2>1. NoMutator'
      BY <1>10, <1>1, <1>3, <1>8 DEF NoMutator, Ops, Facts, Moved
    <2> QED BY <2>1 DEF DeadInv
  <1>23. LastInv'
    <2>1. \A b \in Actors : pc[b] \notin Last
      BY <1>1, <1>3 DEF LastInv, Alone, Last, Facts
    <2>2. NoMutator' /\ ~InFinalizer' /\ ~queued'
      BY <1>10, <1>1, <1>3, <1>8 DEF NoMutator, Ops, InFinalizer, Facts, Moved
    <2>3. ~enqueued'
      BY <2>2, <1>21, <1>8 DEF FinalInv, Finalizing, Moved
    <2>4. \A b \in Actors : pc'[b] \in Last => b = RP
      BY <2>1, <1>8 DEF Moved
    <2>5. freed' = 0 /\ pc'[RP] = "weak_release" /\ header'.collected
      BY <1>5, <1>3, <1>8, <1>9 DEF Moved, CountedNext
    <2>6. Alone(RP)'
      BY <2>2, <2>3, <2>4, <2>5 DEF Alone
    <2> QED BY <2>4, <2>6 DEF LastInv
  <1>24. FreedInv'
    BY <1>1, <1>2, <1>3, <1>8, <1>9, <1>5 DEF FreedInv, NoMutator, Gone, Ops, Last, Facts, Bits,
       Moved, CountedNext
  <1>25. CountInv'
    BY <1>9, <1>15, CountsKept
  <1> QED BY <1>4, <1>17, <1>18, <1>19, <1>20, <1>21, <1>22, <1>23, <1>24, <1>25 DEF IInv

-----------------------------------------------------------------------------
(* The specification.                                                      *)

\* Init: one reference, in the locals of the mutator that has the new object.
LEMMA InitStep == Init => IInv
  <1> SUFFICES ASSUME Init PROVE IInv
    OBVIOUS
  <1>1. PICK t \in Threads : held = [a \in Actors |-> IF a = t THEN 1 ELSE 0]
    BY DEF Init
  <1>2. /\ header = [strong |-> 1, resurrect |-> 0, weak |-> 1, collected |-> FALSE]
        /\ slot = [k \in Slots |-> "null"] /\ pc = [a \in Actors |-> "idle"]
        /\ arg = [a \in Actors |-> "field"] /\ cont = [a \in Actors |-> "idle"] /\ freed = 0
    BY DEF Init
  <1>3. /\ finalizable \in BOOLEAN /\ enqueued = FALSE /\ queued = FALSE /\ active = FALSE
        /\ ran = FALSE
    BY DEF Init
  <1>4. t \in Actors /\ RP \in Actors /\ t # RP /\ "null" \notin Actors /\ "obj" \notin Actors
    BY RefCountAssumption DEF Actors
  <1>5. held \in [Actors -> Nat] /\ \A b \in Actors : held[b] = IF b = t THEN 1 ELSE 0
    BY <1>1
  <1>6. header \in Header /\ header.strong = 1 /\ header.resurrect = 0 /\ header.weak = 1
        /\ ~header.collected
    BY <1>2, RefCountAssumption DEF Header
  <1>7. /\ pc \in [Actors -> Labels] /\ arg \in [Actors -> Slots] /\ cont \in [Actors -> Labels]
        /\ slot \in [Slots -> {"null", "obj"} \cup Actors]
        /\ \A b \in Actors : pc[b] = "idle" /\ arg[b] = "field" /\ cont[b] = "idle"
        /\ \A k \in Slots : slot[k] = "null"
    BY <1>2 DEF Labels, Slots
  <1>8. TypeOK
    <2>1. finalizable \in BOOLEAN /\ enqueued \in BOOLEAN /\ queued \in BOOLEAN
          /\ active \in BOOLEAN /\ ran \in BOOLEAN
      BY <1>3
    <2> QED BY <1>2, <1>5, <1>6, <1>7, <2>1 DEF TypeOK, Header
  <1>9. Locals = {<<t, 1>>}
    <2>1. \A b \in Actors : b # t => 1 .. held[b] = {}
      BY <1>5
    <2>2. 1 .. held[t] = {1}
      BY <1>4, <1>5
    <2>3. \A y \in Locals : y = <<t, 1>>
      BY <2>1, <2>2 DEF Locals
    <2>4. <<t, 1>> \in Locals
      BY <1>4, <2>2 DEF Locals
    <2> QED BY <2>3, <2>4
  <1>10. IsFiniteSet(Locals) /\ InLocals = 1
    <2>1. IsFiniteSet({<<t, 1>>}) /\ Cardinality({<<t, 1>>}) = 1
      BY FS_Singleton
    <2> QED BY <1>9, <2>1 DEF InLocals
  <1>11. /\ LockInv /\ MutatorInv /\ RpInv /\ FinalInv /\ DeadInv /\ LastInv /\ FreedInv
    <2>1. LockInv
      BY <1>4, <1>7 DEF LockInv
    <2>2. MutatorInv
      BY <1>7 DEF MutatorInv, MutatorLabels, Actors
    <2>3. RpInv
      BY <1>4, <1>5, <1>7 DEF RpInv
    <2>4. FinalInv
      BY <1>3, <1>4, <1>7 DEF FinalInv, Finalizing, InFinalizer
    <2>5. DeadInv /\ LastInv
      BY <1>6, <1>7 DEF DeadInv, LastInv, Last
    <2>6. FreedInv
      BY <1>2 DEF FreedInv
    <2> QED BY <2>1, <2>2, <2>3, <2>4, <2>5, <2>6
  <1>12. CountInv
    <2>1. Sums /\ Zeros
      BY <1>8, <1>10, CountParts
    <2>2. At(Owned) = 0
      BY <1>7, <2>1 DEF Owned, Ops, Zeros
    <2>3. /\ slot["weak"] = "null" /\ Clearing("weak") = 0
          /\ slot["phantom"] = "null" /\ Clearing("phantom") = 0
      BY <1>7, <2>1 DEF Slots, Referents, Zeros
    <2>4. StrongRefs = 1
      BY <1>3, <1>4, <1>7, <1>10, <2>1, <2>2 DEF B2N, InFinalizer, Slots, Sums
    <2>5. ReferentRefs("weak") = 0 /\ ReferentRefs("phantom") = 0
      BY <2>1, <2>3 DEF B2N, Sums
    <2>6. OwnRef = 1
      BY <1>6 DEF OwnRef, B2N
    <2> QED BY <1>6, <2>4, <2>5, <2>6 DEF CountInv, Counted
  <1> QED BY <1>8, <1>10, <1>11, <1>12 DEF IInv

\* A step of the environment changes nothing that IInv is about.
LEMMA StutterStep ==
    ASSUME IInv, UNCHANGED vars
    PROVE  IInv'
  <1> USE DEF vars
  <1>1. TypeOK' /\ IsFiniteSet(Locals)' /\ LockInv' /\ MutatorInv' /\ RpInv' /\ FinalInv'
    BY DEF IInv, TypeOK, Locals, LockInv, MutatorInv, RpInv, FinalInv, InFinalizer
  <1>2. DeadInv' /\ LastInv' /\ FreedInv'
    BY DEF IInv, DeadInv, LastInv, FreedInv, Alone, NoMutator, Gone, InFinalizer
  <1>3. CountInv'
    BY DEF IInv, CountInv, Counted, Releasing, StrongRefs, InLocals, Locals, ReferentRefs, OwnRef,
           At, InFinalizer
  <1> QED BY <1>1, <1>2, <1>3 DEF IInv

\* A step of Busy(): what a thread has begun goes on.
LEMMA BusyStep ==
    ASSUME IInv, NEW a \in Actors, Busy(a)
    PROVE  IInv'
  <1>1. CASE Release(a)
    BY <1>1, ReleaseFinalizable, ReleaseFrees
  <1>2. CASE CollectedWeak(a)
    BY <1>2, CollectedWeakDec, CollectedWeakFinalizable
  <1>3. CASE AddFinalizable(a) \/ PushFinalizable(a)
    BY <1>3, AddFinalizableStep, PushFinalizableStep
  <1>4. CASE IncLocked(a)
    BY <1>4, IncLockedGets, IncLockedFails
  <1>5. CASE Unlock(a) \/ WriteSwap(a)
    BY <1>5, UnlockStep, WriteSwapStep
  <1>6. CASE DecOld(a)
    <2>1. CASE a = RP
      BY <1>6, <2>1, DecOldFinalizer
    <2>2. CASE a \in Threads
      BY <1>6, <2>2, DecOldMutator
    <2> QED BY <2>1, <2>2 DEF Actors
  <1>7. CASE DecCleared(a)
    BY <1>7, DecClearedWeak, DecClearedPhantom
  <1> QED BY <1>1, <1>2, <1>3, <1>4, <1>5, <1>6, <1>7 DEF Busy

\* A step with which a mutator begins an operation, or WriteReferent().
LEMMA MutatorStep ==
    ASSUME IInv, NEW t \in Threads, Mutator(t)
    PROVE  IInv'
  <1>1. CASE IncRef(t) \/ DecRef(t)
    BY <1>1, IncRefStep, DecRefStep
  <1>2. CASE LoadRefVolatile(t)
    BY <1>2, LoadRefVolatileStep
  <1>3. CASE WriteObj(t) \/ WriteNull(t)
    BY <1>3, WriteObjMutator, WriteNullStep
  <1>4. CASE NewReference(t)
    BY <1>4, NewReferenceStep
  <1>5. CASE WriteReferent(t)
    BY <1>5, WriteReferentWeak, WriteReferentPhantom
  <1>6. CASE ClearReferent(t)
    <2>1. t \in Actors
      BY DEF Actors
    <2> QED BY <1>6, <2>1, ClearReferentStep
  <1> QED BY <1>1, <1>2, <1>3, <1>4, <1>5, <1>6 DEF Mutator

\* A step of the reference processor.
LEMMA ReferenceProcessorStep ==
    ASSUME IInv, ReferenceProcessor
    PROVE  IInv'
  <1>1. CASE \E k \in Referents : RpLoad(k)
    BY <1>1, RpLoadStep
  <1>2. CASE RpSkipActive \/ RpEmpty \/ RpCheckEmpty \/ RpClear
    BY <1>2, RpSkipActiveStep, RpEmptyStep, RpCheckEmptyStep, RpClearStep
  <1>3. CASE RpCollect
    BY <1>3, RpCollectDead, RpCollectNot, RpCollectNow
  <1>4. CASE RpWeakRelease
    BY <1>4, RpWeakReleaseFinalizable, RpWeakReleaseDec
  <1>5. CASE RpDrop
    BY <1>5, RpDropNothing, RpDropDec
  <1>6. CASE RpFinalize \/ RpFinalized \/ RpDecList
    BY <1>6, RpFinalizeStep, RpFinalizedStep, RpDecListStep
  <1>7. CASE WriteObj(RP)
    BY <1>7, WriteObjFinalizer
  <1>8. CASE ClearReferent(RP)
    <2>1. RP \in Actors
      BY DEF Actors
    <2> QED BY <1>8, <2>1, ClearReferentStep
  <1>9. CASE RpPostFinalizable
    BY <1>9, RpPostKeep, RpPostDec, RpPostRelease
  <1> QED BY <1>1, <1>2, <1>3, <1>4, <1>5, <1>6, <1>7, <1>8, <1>9 DEF ReferenceProcessor

\* IInv holds in every state, for any number of mutators and any limits of the counts.
THEOREM RefCountInvariant == Spec => []IInv
  <1>1. IInv /\ [Next]_vars => IInv'
    <2> SUFFICES ASSUME IInv, [Next]_vars PROVE IInv'
      OBVIOUS
    <2>1. CASE \E a \in Actors : Busy(a)
      BY <2>1, BusyStep
    <2>2. CASE \E t \in Threads : Mutator(t)
      BY <2>2, MutatorStep
    <2>3. CASE ReferenceProcessor
      BY <2>3, ReferenceProcessorStep
    <2>4. CASE UNCHANGED vars
      BY <2>4, StutterStep
    <2> QED BY <2>1, <2>2, <2>3, <2>4 DEF Next
  <1> QED BY <1>1, InitStep, PTL DEF Spec

\* Every variable has its type; in particular no count of the header leaves the
\* range that its bits have.
THEOREM RefCountTypeOK == Spec => []TypeOK
  <1>1. IInv => TypeOK
    BY DEF IInv
  <1> QED BY <1>1, RefCountInvariant, PTL

\* ReleaseObject() frees the object once, and then no local, no field, no Reference
\* and no list has it, and no thread is about to change its header.
THEOREM RefCountNoUseAfterFree == Spec => []NoUseAfterFree
  <1>1. ASSUME IInv PROVE NoUseAfterFree
    <2>1. /\ TypeOK /\ IsFiniteSet(Locals) /\ FreedInv /\ MutatorInv /\ RpInv
      BY <1>1 DEF IInv
    <2>2. freed <= 1
      BY <2>1 DEF FreedInv
    <2>3. ASSUME freed = 1
          PROVE  /\ StrongRefs = 0
                 /\ \A k \in Referents : ReferentRefs(k) = 0
      <3>1. /\ NoMutator /\ Gone /\ ~queued /\ held[RP] = 0
            /\ \A t \in Threads : pc[t] \in {"idle", "write_null"}
            /\ pc[RP] \in {"idle", "empty", "check", "clear", "drop"}
        BY <2>1, <2>3 DEF FreedInv
      <3>2. \A b \in Actors : held[b] = 0 /\ pc[b] \notin Owned
        BY <3>1 DEF NoMutator, Owned, Ops, Actors
      <3>3. ~InFinalizer /\ slot["field"] = "null"
        BY <3>1 DEF InFinalizer, NoMutator
      <3>4. \A k \in Referents :
               slot[k] = "null" /\ \A b \in Actors : ~(pc[b] = "dec_referent" /\ arg[b] = k)
        BY <3>1 DEF Gone, Slots
      <3>5. Sums /\ Zeros
        BY <2>1, CountParts
      <3>6. InLocals = 0 /\ At(Owned) = 0 /\ Clearing("weak") = 0 /\ Clearing("phantom") = 0
        BY <3>2, <3>4, <3>5 DEF Zeros, Referents
      <3>7. StrongRefs = 0
        BY <3>1, <3>3, <3>5, <3>6 DEF B2N, Sums
      <3>8. ReferentRefs("weak") = 0 /\ ReferentRefs("phantom") = 0
        BY <3>4, <3>5, <3>6 DEF B2N, Sums, Referents
      <3> QED BY <3>7, <3>8 DEF Referents
    <2> QED BY <2>1, <2>2, <2>3 DEF NoUseAfterFree, FreedInv
  <1> QED BY <1>1, RefCountInvariant, PTL

\* As long as no count has reached its limit the header has exactly the references
\* there are, whatever operations are under way.
THEOREM RefCountCountsExact == Spec => []CountsExact
  <1>1. ASSUME IInv, freed = 0, ~Saturated, pc[RP] # "release"
        PROVE  /\ header.strong = StrongRefs
               /\ header.resurrect = ReferentRefs("weak")
               /\ header.weak = ReferentRefs("phantom") + OwnRef
    <2>1. /\ header.strong \in 0 .. kRCBitsMsb /\ header.weak \in 0 .. kMaxWeakRC
          /\ header.resurrect \in 0 .. kMaxResurrectWeakRC
      BY <1>1 DEF IInv, TypeOK
    <2>2. /\ header.strong < kRCBitsMsb /\ header.weak < kMaxWeakRC
          /\ header.resurrect < kMaxResurrectWeakRC
      BY <1>1, <2>1, RefCountAssumption DEF Saturated
    <2>3. Counted(header, StrongRefs, ReferentRefs("weak"), ReferentRefs("phantom") + OwnRef)
      BY <1>1 DEF IInv, CountInv, Releasing
    <2> QED BY <2>2, <2>3 DEF Counted
  <1>2. IInv => CountsExact
    BY <1>1 DEF CountsExact
  <1> QED BY <1>2, RefCountInvariant, PTL

\* Once AtomicCheckWeakCollectable(), or a decrement, has invalidated the weak
\* references, no mutator has the object and none gets it again but through finalize().
THEOREM RefCountCollectedIsDead == Spec => []CollectedIsDead
  <1>1. IInv => CollectedIsDead
    BY DEF IInv, DeadInv, NoMutator, CollectedIsDead, MutatorsHaveIt, TypeOK
  <1> QED BY <1>1, RefCountInvariant, PTL

=============================================================================
