-------------------------- MODULE SatbNodesProofs ---------------------------
(***************************************************************************)
(* Proofs about SatbNodes, for any mutators, nodes and pages.              *)
(*                                                                         *)
(* Pop() reads next from a node that may have been popped meanwhile, and   *)
(* then compares only the head.  Why this is sound is said by PopInv: the  *)
(* node it remembers is not one that will still be pushed on freeNodes, so *)
(* that if it is the head, it has been in the list ever since, and no      *)
(* thread has written its next.                                            *)
(***************************************************************************)
EXTENDS SatbNodes, SequenceTheorems, TLAPS

\* The nodes that will still be pushed on freeNodes
ToBeFree == {n \in Nodes :
    \/ \E m \in Mutators : n \in Elements(list[m])
    \/ \E m \in Mutators : Pushing(m) /\ target[m] = "free" /\ n = item[m]
    \/ \E p \in unmapped : n \in Elements(p)}

\* A thread at a step of Push() or Pop() has the node that the step is about.
PcInv == \A m \in Mutators :
    /\ Pushing(m) => item[m] \in Nodes
    /\ pc[m] = "push_cas" => next[item[m]] = old[m]
    /\ pc[m] \in {"pop_cas", "pop_clear"} => old[m] \in Nodes
    /\ Pushing(m) /\ target[m] = "free" => item[m] # satbNode[m]
    /\ m \in exiting => /\ satbNode[m] = Null
                        /\ pc[m] = "dead" \/ (Pushing(m) /\ target[m] = "retired")

\* What Pop() remembers is right whenever its compare-and-swap succeeds.
PopInv == \A m \in Mutators :
    /\ pc[m] \in {"pop_read", "pop_cas"} => old[m] \notin ToBeFree
    /\ pc[m] = "pop_cas" /\ old[m] \in Elements(list["free"]) => nx[m] = next[old[m]]

\* Nobody has seen the nodes of a page that is not mapped yet.
UnmappedInv == \A p \in unmapped :
    /\ \A l \in ListIds : Elements(p) \cap Elements(list[l]) = {}
    /\ \A m \in Mutators : Elements(p) \cap Hand(m) = {}

\* A node that was never in freeNodes has no entries.
UnusedInv == used \cap ToBeFree = {}

\* The second pause, and what it leaves.
StopInv ==
    /\ stopped \/ gpc \in {"visit", "done"} => \A m \in Mutators \ exiting : pc[m] = "idle"
    /\ gpc = "visit" => stopped
    /\ gpc = "done" => \A m \in Mutators : satbNode[m] = Null
    /\ gpc # "walk" => list["taken"] = <<>>

IInv ==
    /\ TypeOK
    /\ PcInv
    /\ PopInv
    /\ UnmappedInv
    /\ UnusedInv
    /\ StopInv
    /\ OneOwner
    /\ ListsMatch
    /\ NothingLost

-----------------------------------------------------------------------------
(* Sequences without repetition, and lists linked through next.            *)

\* What the sequence lemmas below need to know of a sequence.
LEMMA SeqFacts ==
    ASSUME NEW S, NEW s \in Seq(S)
    PROVE  /\ Len(s) \in Nat /\ DOMAIN s = 1 .. Len(s)
           /\ s = <<>> <=> Len(s) = 0
           /\ \A i \in 1 .. Len(s) : s[i] \in S
           /\ Elements(s) \subseteq S
  <1>1. Len(s) \in Nat /\ DOMAIN s = 1 .. Len(s) /\ \A i \in 1 .. Len(s) : s[i] \in S
    BY LenProperties, ElementOfSeq
  <1>2. s = <<>> <=> Len(s) = 0
    BY EmptySeq
  <1>3. QED
    BY <1>1, <1>2 DEF Elements

\* A node in front
LEMMA ConsFacts ==
    ASSUME NEW S, NEW s \in Seq(S), NEW e \in S
    PROVE  /\ <<e>> \o s \in Seq(S)
           /\ Len(<<e>> \o s) = Len(s) + 1
           /\ (<<e>> \o s)[1] = e
           /\ \A i \in 1 .. Len(s) : (<<e>> \o s)[i + 1] = s[i]
           /\ \A i \in 2 .. Len(s) + 1 : (<<e>> \o s)[i] = s[i - 1]
           /\ Elements(<<e>> \o s) = Elements(s) \cup {e}
           /\ NoRepeat(s) /\ e \notin Elements(s) => NoRepeat(<<e>> \o s)
  <1> DEFINE t == <<e>> \o s
  <1>1. <<e>> \in Seq(S) /\ Len(<<e>>) = 1 /\ <<e>>[1] = e
    OBVIOUS
  <1>2. /\ t \in Seq(S) /\ Len(t) = Len(s) + 1
        /\ \A i \in 1 .. Len(t) : t[i] = IF i = 1 THEN e ELSE s[i - 1]
    BY <1>1, ConcatProperties, SeqFacts
  <1>3. DOMAIN t = 1 .. Len(s) + 1 /\ DOMAIN s = 1 .. Len(s) /\ Len(s) \in Nat
    BY <1>2, SeqFacts
  <1> HIDE DEF t
  <1>4. t[1] = e /\ \A i \in 1 .. Len(s) : t[i + 1] = s[i]
    BY <1>2, <1>3
  <1>5. \A i \in 2 .. Len(s) + 1 : t[i] = s[i - 1]
    BY <1>2, <1>3
  <1>6. Elements(t) = Elements(s) \cup {e}
    <2>1. ASSUME NEW i \in 1 .. Len(s) + 1 PROVE t[i] \in Elements(s) \cup {e}
      BY <1>2, <1>3 DEF Elements
    <2>2. ASSUME NEW i \in 1 .. Len(s) PROVE s[i] \in Elements(t)
      <3>1. i + 1 \in DOMAIN t /\ t[i + 1] = s[i]
        BY <1>3, <1>4
      <3>2. QED
        BY <3>1 DEF Elements
    <2>3. e \in Elements(t)
      BY <1>3, <1>4 DEF Elements
    <2>4. QED
      BY <1>3, <2>1, <2>2, <2>3 DEF Elements
  <1>7. ASSUME NoRepeat(s), e \notin Elements(s) PROVE NoRepeat(t)
    <2> SUFFICES ASSUME NEW i \in DOMAIN t, NEW j \in DOMAIN t, t[i] = t[j] PROVE i = j
      BY DEF NoRepeat
    <2>1. \A k \in 2 .. Len(s) + 1 : t[k] = s[k - 1] /\ k - 1 \in DOMAIN s /\ t[k] # e
      BY SMTT(40), <1>3, <1>5, <1>7 DEF Elements
    <2>2. CASE i = 1 \/ j = 1
      BY <1>3, <1>4, <2>1, <2>2
    <2>3. CASE i # 1 /\ j # 1
      <3>1. i - 1 = j - 1
        BY SMTT(40), <1>3, <1>7, <2>1, <2>3 DEF NoRepeat
      <3>2. QED
        BY <1>3, <3>1
    <2>4. QED
      BY <2>2, <2>3
  <1>8. QED
    BY <1>2, <1>4, <1>5, <1>6, <1>7 DEF t

\* The first node taken away
LEMMA RestFacts ==
    ASSUME NEW S, NEW s \in Seq(S), s # <<>>
    PROVE  /\ Tail(s) \in Seq(S) /\ s[1] \in S /\ s[1] \in Elements(s)
           /\ Len(Tail(s)) = Len(s) - 1
           /\ \A i \in 1 .. Len(Tail(s)) : Tail(s)[i] = s[i + 1]
           /\ Elements(s) = Elements(Tail(s)) \cup {s[1]}
           /\ NoRepeat(s) => NoRepeat(Tail(s)) /\ s[1] \notin Elements(Tail(s))
  <1> DEFINE t == Tail(s)
  <1>1. /\ t \in Seq(S) /\ Len(t) = Len(s) - 1
        /\ \A i \in 1 .. Len(t) : t[i] = s[i + 1]
    BY HeadTailProperties
  <1>2. /\ DOMAIN t = 1 .. Len(t) /\ DOMAIN s = 1 .. Len(s)
        /\ Len(s) \in Nat \ {0} /\ Len(t) \in Nat /\ s[1] \in S /\ s[1] \in Elements(s)
    BY <1>1, SeqFacts DEF Elements
  <1> HIDE DEF t
  <1>3. Elements(s) = Elements(t) \cup {s[1]}
    <2>1. ASSUME NEW i \in 1 .. Len(s), i # 1 PROVE s[i] \in Elements(t)
      <3>1. i - 1 \in DOMAIN t /\ t[i - 1] = s[i]
        BY <1>1, <1>2, <2>1
      <3>2. QED
        BY <3>1 DEF Elements
    <2>2. ASSUME NEW i \in 1 .. Len(t) PROVE t[i] \in Elements(s)
      <3>1. i + 1 \in DOMAIN s
        BY <1>1, <1>2
      <3>2. QED
        BY <1>1, <3>1 DEF Elements
    <2>3. QED
      BY <1>2, <2>1, <2>2 DEF Elements
  <1>4. ASSUME NoRepeat(s) PROVE NoRepeat(t) /\ s[1] \notin Elements(t)
    <2>1. \A i \in DOMAIN t : t[i] = s[i + 1] /\ i + 1 \in DOMAIN s /\ i \in Nat \ {0}
      BY <1>1, <1>2
    <2>2. s[1] \notin Elements(t)
      BY SMTT(40), <1>2, <1>4, <2>1 DEF NoRepeat, Elements
    <2>3. NoRepeat(t)
      <3> SUFFICES ASSUME NEW i \in DOMAIN t, NEW j \in DOMAIN t, t[i] = t[j] PROVE i = j
        BY DEF NoRepeat
      <3>1. i + 1 = j + 1
        BY <1>4, <2>1 DEF NoRepeat
      <3>2. QED
        BY <2>1, <3>1
    <2>4. QED
      BY <2>2, <2>3
  <1>5. QED
    BY <1>1, <1>2, <1>3, <1>4 DEF t

\* Spells, of any pointers.
Chain(ptr, h, s) ==
    /\ h = IF s = <<>> THEN Null ELSE s[1]
    /\ \A i \in DOMAIN s : ptr[s[i]] = IF i = Len(s) THEN Null ELSE s[i + 1]

\* Pointers may change outside of a list.
LEMMA ChainFrame ==
    ASSUME NEW ptr, NEW ptr2, NEW h, NEW s, Chain(ptr, h, s),
           \A n \in Elements(s) : ptr2[n] = ptr[n]
    PROVE  Chain(ptr2, h, s)
  BY DEF Chain, Elements

\* The compare-and-swap of Push()
LEMMA ChainPush ==
    ASSUME NEW ptr, NEW h, NEW s \in Seq(Nodes), NEW e \in Nodes,
           Chain(ptr, h, s), ptr[e] = h
    PROVE  Chain(ptr, e, <<e>> \o s)
  <1> DEFINE t == <<e>> \o s
  <1>1. /\ DOMAIN t = 1 .. Len(s) + 1 /\ Len(t) = Len(s) + 1 /\ t # <<>>
        /\ DOMAIN s = 1 .. Len(s) /\ Len(s) \in Nat /\ (s = <<>> <=> Len(s) = 0)
        /\ t[1] = e /\ \A i \in 1 .. Len(s) : t[i + 1] = s[i]
    BY ConsFacts, SeqFacts
  <1> HIDE DEF t
  <1>2. \A i \in 2 .. Len(s) + 1 : t[i] = s[i - 1] /\ i - 1 \in 1 .. Len(s)
    BY <1>1, ConsFacts DEF t
  <1>3. ptr[t[1]] = IF 1 = Len(t) THEN Null ELSE t[2]
    <2>1. CASE s = <<>>
      BY <1>1, <2>1 DEF Chain
    <2>2. CASE s # <<>>
      <3>1. t[2] = s[1] /\ Len(s) # 0
        BY <1>1, <1>2, <2>2
      <3>2. QED
        BY <1>1, <2>2, <3>1 DEF Chain
    <2>3. QED
      BY <2>1, <2>2
  <1>4. ASSUME NEW i \in 2 .. Len(s) + 1
        PROVE  ptr[t[i]] = IF i = Len(t) THEN Null ELSE t[i + 1]
    <2>1. ptr[s[i - 1]] = IF i - 1 = Len(s) THEN Null ELSE s[i]
      BY <1>1, <1>2 DEF Chain
    <2>2. i # Len(t) => t[i + 1] = s[i]
      BY <1>1
    <2>3. QED
      BY <1>1, <1>2, <2>1, <2>2
  <1>5. \A i \in DOMAIN t : i = 1 \/ i \in 2 .. Len(s) + 1
    BY <1>1
  <1>6. Chain(ptr, e, t)
    BY <1>1, <1>3, <1>4, <1>5 DEF Chain
  <1>7. QED
    BY <1>6 DEF t

\* Following the first pointer of a list that is not empty
LEMMA ChainTail ==
    ASSUME NEW ptr, NEW h, NEW s \in Seq(Nodes), Chain(ptr, h, s), h # Null
    PROVE  s # <<>> /\ h = s[1] /\ h \in Nodes /\ Chain(ptr, ptr[h], Tail(s))
  <1>1. s # <<>> /\ h = s[1] /\ h \in Nodes
    BY RestFacts DEF Chain
  <1> DEFINE t == Tail(s)
  <1>2. /\ DOMAIN t = 1 .. Len(t) /\ Len(t) = Len(s) - 1 /\ (t = <<>> <=> Len(t) = 0)
        /\ DOMAIN s = 1 .. Len(s) /\ Len(s) \in Nat \ {0}
        /\ \A i \in 1 .. Len(t) : t[i] = s[i + 1] /\ i + 1 \in 1 .. Len(s)
    <2>1. /\ t \in Seq(Nodes) /\ Len(t) = Len(s) - 1
          /\ \A i \in 1 .. Len(t) : t[i] = s[i + 1]
      BY <1>1, RestFacts
    <2> HIDE DEF t
    <2>2. DOMAIN t = 1 .. Len(t) /\ (t = <<>> <=> Len(t) = 0) /\ Len(t) \in Nat
      BY <2>1, SeqFacts
    <2>3. DOMAIN s = 1 .. Len(s) /\ Len(s) \in Nat \ {0}
      BY <1>1, SeqFacts
    <2>4. QED
      BY <2>1, <2>2, <2>3
  <1> HIDE DEF t
  <1>3. ptr[h] = IF t = <<>> THEN Null ELSE t[1]
    <2>1. ptr[s[1]] = IF 1 = Len(s) THEN Null ELSE s[2]
      BY <1>2 DEF Chain
    <2>2. QED
      BY <1>1, <1>2, <2>1
  <1>4. ASSUME NEW i \in DOMAIN t
        PROVE  ptr[t[i]] = IF i = Len(t) THEN Null ELSE t[i + 1]
    <2>1. ptr[s[i + 1]] = IF i + 1 = Len(s) THEN Null ELSE s[(i + 1) + 1]
      BY <1>2 DEF Chain
    <2>2. i # Len(t) => t[i + 1] = s[(i + 1) + 1]
      BY <1>2
    <2>3. QED
      BY SMTT(40), <1>2, <2>1, <2>2
  <1>5. Chain(ptr, ptr[h], t)
    BY <1>3, <1>4 DEF Chain
  <1>6. QED
    BY <1>1, <1>5 DEF t

\* A null pointer is the empty list.
LEMMA ChainEmpty ==
    ASSUME NEW ptr, NEW h, NEW s \in Seq(Nodes), Chain(ptr, h, s)
    PROVE  h = Null <=> s = <<>>
  BY RestFacts, NullAssumption DEF Chain

-----------------------------------------------------------------------------
(* Owners of nodes.  L gives the contents of the lists, H the hands.       *)

Owned(L, H) ==
    /\ \A a \in ListIds : NoRepeat(L[a])
    /\ \A a, b \in ListIds : a # b => Elements(L[a]) \cap Elements(L[b]) = {}
    /\ \A m \in Mutators, a \in ListIds : Elements(L[a]) \cap H[m] = {}
    /\ \A m, k \in Mutators : m # k => H[m] \cap H[k] = {}

\* The nodes that have been handed out at all
Held(L, H) == {n \in Nodes : \/ \E a \in ListIds : n \in Elements(L[a])
                             \/ \E m \in Mutators : n \in H[m]}

Hands == [m \in Mutators |-> Hand(m)]

\* OneOwner, put in terms of sets, now and after a step.
LEMMA OwnedIsOneOwner == OneOwner <=> Owned(list, Hands)
  BY SMTT(40) DEF OneOwner, Owned, Elements, NoRepeat, Hands

LEMMA OwnedIsOneOwnerNext == OneOwner' <=> Owned(list', Hands')
  BY SMTT(40) DEF OneOwner, Owned, Elements, NoRepeat, Hands

\* No node of a page that is not mapped is in a list or in a hand.
LEMMA HeldIsUnmapped ==
    ASSUME TypeOK
    PROVE  UnmappedInv <=> \A p \in unmapped : Elements(p) \cap Held(list, Hands) = {}
  <1>1. \A l \in ListIds : Elements(list[l]) \subseteq Nodes
    BY SeqFacts DEF TypeOK
  <1>2. \A m \in Mutators : Hand(m) \subseteq Nodes
    BY DEF Hand
  <1>3. QED
    BY <1>1, <1>2 DEF UnmappedInv, Held, Hands

LEMMA HeldIsUnmappedNext ==
    ASSUME TypeOK'
    PROVE  UnmappedInv' <=> \A p \in unmapped' : Elements(p) \cap Held(list', Hands') = {}
  <1>1. \A l \in ListIds : Elements(list'[l]) \subseteq Nodes
    BY SeqFacts DEF TypeOK
  <1>2. \A m \in Mutators : Hand(m)' \subseteq Nodes
    BY DEF Hand
  <1>3. QED
    BY <1>1, <1>2 DEF UnmappedInv, Held, Hands

\* m puts a node of its own, n, on list a: L and H become K and G.
Gives(L, H, K, G, a, m, n) ==
    /\ a \in ListIds /\ L[a] \in Seq(Nodes) /\ m \in Mutators /\ n \in Nodes /\ n \in H[m]
    /\ K[a] = <<n>> \o L[a] /\ \A b \in ListIds : b # a => K[b] = L[b]
    /\ G[m] \subseteq H[m] \ {n} /\ \A k \in Mutators : k # m => G[k] = H[k]

\* A push moves a node from a hand to a list; each node has one owner still.
LEMMA OwnedGives ==
    ASSUME NEW L, NEW H, NEW K, NEW G, NEW a, NEW m, NEW n,
           Gives(L, H, K, G, a, m, n), Owned(L, H)
    PROVE  Owned(K, G) /\ Held(K, G) \subseteq Held(L, H)
  <1> USE DEF Gives
  <1>1. /\ Elements(K[a]) = Elements(L[a]) \cup {n}
        /\ NoRepeat(K[a])
    BY ConsFacts DEF Owned
  <1>2. \A b \in ListIds : b # a => K[b] = L[b]
    OBVIOUS
  <1>3. \A b \in ListIds : NoRepeat(K[b])
    BY <1>1, <1>2 DEF Owned
  <1>4. \A b \in ListIds : Elements(K[b]) = IF b = a THEN Elements(L[a]) \cup {n}
                                                     ELSE Elements(L[b])
    BY <1>1, <1>2
  <1>a. \A b \in ListIds : n \notin Elements(L[b])
    BY DEF Owned
  <1>5. \A b, c \in ListIds : b # c => Elements(K[b]) \cap Elements(K[c]) = {}
    <2> SUFFICES ASSUME NEW b \in ListIds, NEW c \in ListIds, b # c
                 PROVE  Elements(K[b]) \cap Elements(K[c]) = {}
      OBVIOUS
    <2>1. Elements(L[b]) \cap Elements(L[c]) = {}
      BY DEF Owned
    <2>2. QED
      BY <1>4, <1>a, <2>1
  <1>6. \A k \in Mutators : n \notin G[k] /\ G[k] \subseteq H[k]
    BY DEF Owned
  <1>7. \A k \in Mutators, b \in ListIds : Elements(K[b]) \cap G[k] = {}
    BY <1>4, <1>6 DEF Owned
  <1>8. \A j, k \in Mutators : j # k => G[j] \cap G[k] = {}
    BY <1>6 DEF Owned
  <1>9. Owned(K, G)
    BY <1>3, <1>5, <1>7, <1>8 DEF Owned
  <1>10. Held(K, G) \subseteq Held(L, H)
    BY <1>4, <1>6 DEF Held
  <1>11. QED
    BY <1>9, <1>10

\* m takes the first node of list a.
Takes(L, H, K, G, a, m) ==
    /\ a \in ListIds /\ L[a] \in Seq(Nodes) /\ L[a] # <<>> /\ m \in Mutators
    /\ K[a] = Tail(L[a]) /\ \A b \in ListIds : b # a => K[b] = L[b]
    /\ G[m] \subseteq H[m] \cup {L[a][1]} /\ \A k \in Mutators : k # m => G[k] = H[k]

\* PopAll moves a whole list into a hand.
LEMMA OwnedTakes ==
    ASSUME NEW L, NEW H, NEW K, NEW G, NEW a, NEW m,
           Takes(L, H, K, G, a, m), Owned(L, H)
    PROVE  Owned(K, G) /\ Held(K, G) \subseteq Held(L, H)
  <1> USE DEF Takes
  <1> DEFINE n == L[a][1]
  <1>1. /\ Elements(L[a]) = Elements(K[a]) \cup {n} /\ n \in Nodes
        /\ NoRepeat(K[a]) /\ n \notin Elements(K[a])
    BY RestFacts DEF Owned
  <1>2. \A b \in ListIds : b # a => K[b] = L[b]
    OBVIOUS
  <1> HIDE DEF n
  <1>3. \A b \in ListIds : NoRepeat(K[b])
    BY <1>1, <1>2 DEF Owned
  <1>4. \A b \in ListIds : Elements(K[b]) \subseteq Elements(L[b]) /\ n \notin Elements(K[b])
    BY <1>1, <1>2 DEF Owned
  <1>5. \A b, c \in ListIds : b # c => Elements(K[b]) \cap Elements(K[c]) = {}
    BY ZenonT(40), <1>4 DEF Owned
  <1>6. \A k \in Mutators : n \notin H[k] /\ G[k] \subseteq H[k] \cup {n}
    BY <1>1 DEF Owned, n
  <1>7. \A k \in Mutators, b \in ListIds : Elements(K[b]) \cap G[k] = {}
    BY <1>4, <1>6 DEF Owned
  <1>8. \A j, k \in Mutators : j # k => G[j] \cap G[k] = {}
    BY <1>6 DEF Owned, n
  <1>9. Owned(K, G)
    BY <1>3, <1>5, <1>7, <1>8 DEF Owned
  <1>10. Held(K, G) \subseteq Held(L, H)
    BY <1>1, <1>4, <1>6 DEF Held
  <1>11. QED
    BY <1>9, <1>10

\* The first node of list a is dropped.
Drops(L, K, a) ==
    /\ a \in ListIds /\ L[a] \in Seq(Nodes) /\ L[a] # <<>>
    /\ K[a] = Tail(L[a]) /\ \A b \in ListIds : b # a => K[b] = L[b]

\* A pop takes the first node off a list.
LEMMA OwnedDrops ==
    ASSUME NEW L, NEW H, NEW K, NEW a, Drops(L, K, a), Owned(L, H)
    PROVE  Owned(K, H) /\ Held(K, H) \subseteq Held(L, H)
  <1> USE DEF Drops
  <1>1. Elements(L[a]) = Elements(K[a]) \cup {L[a][1]} /\ NoRepeat(K[a])
    BY RestFacts DEF Owned
  <1>2. \A b \in ListIds : b # a => K[b] = L[b]
    OBVIOUS
  <1>3. \A b \in ListIds : NoRepeat(K[b]) /\ Elements(K[b]) \subseteq Elements(L[b])
    BY <1>1, <1>2 DEF Owned
  <1>4. Owned(K, H) /\ Held(K, H) \subseteq Held(L, H)
    BY <1>3 DEF Owned, Held
  <1>5. QED
    BY <1>4

\* m, which holds nothing, gets page p and keeps its first node.
GetsPage(L, H, K, G, m, p) ==
    /\ m \in Mutators /\ p \in Seq(Nodes) /\ p # <<>> /\ NoRepeat(p)
    /\ Elements(p) \cap Held(L, H) = {} /\ \A k \in Mutators : H[k] \subseteq Nodes
    /\ K[m] = Tail(p) /\ \A b \in ListIds : b # m => K[b] = L[b]
    /\ G[m] \subseteq {p[1]} /\ \A k \in Mutators : k # m => G[k] = H[k]

\* The nodes of a new page had no owner.
LEMMA OwnedGetsPage ==
    ASSUME NEW L, NEW H, NEW K, NEW G, NEW m, NEW p,
           GetsPage(L, H, K, G, m, p), Owned(L, H)
    PROVE  Owned(K, G) /\ Held(K, G) \subseteq Held(L, H) \cup Elements(p)
  <1> USE DEF GetsPage
  <1>0. m \in ListIds
    BY DEF ListIds
  <1>1. /\ Elements(p) = Elements(Tail(p)) \cup {p[1]} /\ p[1] \in Nodes
        /\ NoRepeat(Tail(p)) /\ p[1] \notin Elements(Tail(p))
        /\ Elements(p) \subseteq Nodes
    BY RestFacts, SeqFacts
  <1>2. /\ K[m] = Tail(p)
        /\ \A b \in ListIds : b # m => K[b] = L[b]
    BY <1>0
  <1>a. \A b \in ListIds : Elements(p) \cap Elements(L[b]) = {}
    BY <1>1 DEF Held
  <1>b. \A k \in Mutators : Elements(p) \cap H[k] = {}
    BY <1>1 DEF Held
  <1>3. \A b \in ListIds : NoRepeat(K[b])
    BY <1>1, <1>2 DEF Owned
  <1>4. \A b \in ListIds : /\ p[1] \notin Elements(K[b])
                           /\ b = m => Elements(K[b]) \subseteq Elements(p)
                           /\ b # m => Elements(K[b]) = Elements(L[b])
    BY <1>1, <1>2, <1>a
  <1>5. \A b, c \in ListIds : b # c => Elements(K[b]) \cap Elements(K[c]) = {}
    BY <1>4, <1>a DEF Owned
  <1>6. \A k \in Mutators : k # m => G[k] = H[k] /\ Elements(p) \cap G[k] = {}
    BY <1>b
  <1>7. \A k \in Mutators, b \in ListIds : Elements(K[b]) \cap G[k] = {}
    BY <1>4, <1>6 DEF Owned
  <1>8. \A j, k \in Mutators : j # k => G[j] \cap G[k] = {}
    BY <1>1, <1>6 DEF Owned
  <1>9. Owned(K, G)
    BY <1>3, <1>5, <1>7, <1>8 DEF Owned
  <1>10. Held(K, G) \subseteq Held(L, H) \cup Elements(p)
    BY <1>1, <1>4, <1>6 DEF Held
  <1>11. QED
    BY <1>9, <1>10

\* Hands that hold no more than before
LEMMA OwnedKept ==
    ASSUME NEW L, NEW H, NEW G, Owned(L, H), \A k \in Mutators : G[k] \subseteq H[k]
    PROVE  Owned(L, G) /\ Held(L, G) \subseteq Held(L, H)
  BY DEF Owned, Held

\* ListsMatch and NothingLost, put in terms of the operators above.
Chained ==
    /\ \A l \in Lists : Chain(next, head[l], list[l])
    /\ gpc = "walk" => Chain(next, gold, list["taken"])
    /\ \A m \in Mutators : Chain(next, cur[m], list[m])

Kept ==
    /\ \A n \in used : \/ n \in got \/ n \in Elements(list["retired"])
                       \/ n \in Elements(list["taken"]) \/ \E m \in Mutators : n \in Hands[m]
    /\ gpc = "done" => \A m \in Mutators \ exiting : satbNode[m] = Null

\* ListsMatch in the terms of the lemmas about chains.
LEMMA ListsMatchChained == (ListsMatch <=> Chained) /\ (ListsMatch' <=> Chained')
  <1>1. ListsMatch <=> Chained
    BY DEF ListsMatch, Chained, Spells, Chain
  <1>2. ListsMatch' <=> Chained'
    BY DEF ListsMatch, Chained, Spells, Chain
  <1>3. QED
    BY <1>1, <1>2

\* NothingLost in the terms of the lemmas about elements.
LEMMA NothingLostKept == (NothingLost <=> Kept) /\ (NothingLost' <=> Kept')
  <1>1. NothingLost <=> Kept
    BY DEF NothingLost, Kept, Elements, Hands
  <1>2. NothingLost' <=> Kept'
    BY DEF NothingLost, Kept, Elements, Hands
  <1>3. QED
    BY <1>1, <1>2

\* The invariant in the form the steps below use and establish.
Unseen == \A p \in unmapped : Elements(p) \cap Held(list, Hands) = {}

SetInv ==
    /\ TypeOK /\ PcInv /\ PopInv /\ UnusedInv /\ StopInv
    /\ Owned(list, Hands) /\ Unseen /\ Chained /\ Kept

\* The invariant in the terms of these lemmas.
LEMMA IInvSets == (IInv <=> SetInv) /\ (IInv' <=> SetInv')
  <1>1. IInv <=> SetInv
    BY OwnedIsOneOwner, HeldIsUnmapped, ListsMatchChained, NothingLostKept
    DEF IInv, SetInv, Unseen
  <1>2. IInv' <=> SetInv'
    BY OwnedIsOneOwnerNext, HeldIsUnmappedNext, ListsMatchChained, NothingLostKept
    DEF IInv, SetInv, Unseen
  <1>3. QED
    BY <1>1, <1>2

\* What is known of the lists and of the free-standing nodes.
LEMMA ListFacts ==
    ASSUME SetInv
    PROVE  /\ Lists \subseteq ListIds /\ Mutators \subseteq ListIds
           /\ \A a \in ListIds : list[a] \in Seq(Nodes) /\ Elements(list[a]) \subseteq Nodes
           /\ \A m \in Mutators : Hands[m] = Hand(m) /\ Hand(m) \subseteq Nodes
           /\ \A a \in ListIds \ Mutators :
                 Elements(list[a]) \cap ToBeFree = {}
           /\ "free" \notin Mutators /\ "retired" \notin Mutators /\ "taken" \notin Mutators
           /\ Null \notin ToBeFree
  <1>1. /\ Lists \subseteq ListIds /\ Mutators \subseteq ListIds
        /\ "free" \notin Mutators /\ "retired" \notin Mutators /\ "taken" \notin Mutators
    BY MutatorsAssumption DEF Lists, ListIds
  <1>2. \A a \in ListIds : list[a] \in Seq(Nodes) /\ Elements(list[a]) \subseteq Nodes
    BY SeqFacts DEF SetInv, TypeOK
  <1>3. \A m \in Mutators : Hands[m] = Hand(m) /\ Hand(m) \subseteq Nodes
    BY DEF Hands, Hand
  <1>4. ASSUME NEW a \in ListIds \ Mutators, NEW n \in Elements(list[a]), n \in ToBeFree
        PROVE  FALSE
    <2>1. ASSUME NEW m \in Mutators, n \in Elements(list[m]) PROVE FALSE
      BY <1>1, <1>4, <2>1 DEF SetInv, Owned
    <2>2. ASSUME NEW m \in Mutators, Pushing(m), n = item[m] PROVE FALSE
      <3>1. n \in Hand(m)
        BY <1>2, <1>4, <2>2 DEF Hand
      <3>2. QED
        BY <1>3, <1>4, <3>1 DEF SetInv, Owned
    <2>3. ASSUME NEW p \in unmapped, n \in Elements(p) PROVE FALSE
      <3>1. n \in Held(list, Hands)
        BY <1>2, <1>4 DEF Held
      <3>2. QED
        BY <2>3, <3>1 DEF SetInv, Unseen
    <2>4. QED
      BY <1>4, <2>1, <2>2, <2>3 DEF ToBeFree
  <1>5. Null \notin ToBeFree
    BY NullAssumption DEF ToBeFree
  <1>6. QED
    BY <1>1, <1>2, <1>3, <1>4, <1>5

-----------------------------------------------------------------------------
(* The invariant is inductive.                                             *)

\* Init() has linked the first pages.
LEMMA InitIInv == Init => IInv
<1> SUFFICES ASSUME Init PROVE SetInv
  BY IInvSets
<1> DEFINE s == Initial
<1>0. /\ s \in Seq(Nodes) /\ NoRepeat(s) /\ DOMAIN s = 1 .. Len(s) /\ Len(s) \in Nat
      /\ Elements(s) \subseteq Nodes /\ (s = <<>> <=> Len(s) = 0)
      /\ \A i \in 1 .. Len(s) : s[i] \in Nodes
  BY SMTT(40), InitialAssumption, SeqFacts
<1> HIDE DEF s
<1>1. Chain(next, head["free"], s)
  <2>1. head["free"] = IF s = <<>> THEN Null ELSE s[1]
    BY DEF Init, Lists, s
  <2>2. ASSUME NEW i \in 1 .. Len(s)
        PROVE  next[s[i]] = IF i = Len(s) THEN Null ELSE s[i + 1]
    <3>1. next[s[i]] = IF \E j \in DOMAIN s : j < Len(s) /\ s[j] = s[i]
                       THEN s[(CHOOSE j \in DOMAIN s : s[j] = s[i]) + 1] ELSE Null
      BY <1>0 DEF Init, s
    <3>2. \A j \in DOMAIN s : s[j] = s[i] => j = i
      BY <1>0 DEF NoRepeat
    <3>3. (CHOOSE j \in DOMAIN s : s[j] = s[i]) = i
      BY <1>0, <3>2
    <3>4. (\E j \in DOMAIN s : j < Len(s) /\ s[j] = s[i]) <=> i # Len(s)
      <4>1. ASSUME i # Len(s) PROVE \E j \in DOMAIN s : j < Len(s) /\ s[j] = s[i]
        <5>1. i \in DOMAIN s /\ i < Len(s)
          <6>1. i \in 1 .. Len(s) /\ i # Len(s) /\ Len(s) \in Nat
            BY <1>0, <4>1
          <6>2. i < Len(s)
            BY <6>1
          <6>3. QED
            BY <1>0, <6>1, <6>2
        <5>2. QED
          BY <5>1
      <4>2. ASSUME NEW j \in DOMAIN s, j < Len(s), s[j] = s[i] PROVE i # Len(s)
        <5>1. j = i /\ j \in 1 .. Len(s) /\ Len(s) \in Nat
          BY <1>0, <3>2, <4>2
        <5>2. QED
          BY <4>2, <5>1
      <4>3. QED
        BY <4>1, <4>2
    <3>5. QED
      BY <3>1, <3>3, <3>4
  <2>3. QED
    BY <1>0, <2>1, <2>2 DEF Chain
<1>2. TypeOK
  <2>1. head \in [Lists -> Link] /\ list \in [ListIds -> Seq(Nodes)]
    BY <1>0, EmptySeq DEF Init, Link, s
  <2>2. next \in [Nodes -> Link]
    <3> SUFFICES ASSUME NEW n \in Nodes PROVE next[n] \in Link
      BY DEF Init
    <3>1. CASE \E i \in DOMAIN s : i < Len(s) /\ s[i] = n
      <4>1. PICK i \in DOMAIN s : i < Len(s) /\ s[i] = n
        BY <3>1
      <4>2. (CHOOSE j \in DOMAIN s : s[j] = n) = i
        BY <1>0, <4>1 DEF NoRepeat
      <4>3. next[n] = s[i + 1] /\ i + 1 \in 1 .. Len(s)
        BY SMTT(40), <1>0, <3>1, <4>1, <4>2 DEF Init, s
      <4>4. QED
        BY <1>0, <4>3 DEF Link
    <3>2. CASE ~ \E i \in DOMAIN s : i < Len(s) /\ s[i] = n
      BY <3>2 DEF Init, Link, s
    <3>3. QED
      BY <3>1, <3>2
  <2>3. QED
    BY <2>1, <2>2 DEF Init, TypeOK, Link, Lists
<1>3. /\ \A a \in ListIds : Elements(list[a]) = IF a = "free" THEN Elements(s) ELSE {}
      /\ \A a \in ListIds : NoRepeat(list[a])
  BY <1>0 DEF Init, Elements, NoRepeat, s
<1>4. \A m \in Mutators : Hands[m] = {}
  BY NullAssumption DEF Init, Hands, Hand, Pushing
<1>5. Owned(list, Hands)
  BY <1>3, <1>4 DEF Owned
<1>6. Held(list, Hands) \subseteq Elements(s)
  BY <1>3, <1>4 DEF Held
<1>7. Unseen
  BY <1>6, PagesAssumption DEF Init, Unseen, s
<1>8. Chained
  <2>1. \A a \in ListIds \ {"free"} : list[a] = <<>>
    BY DEF Init
  <2>2. \A h : h = Null => Chain(next, h, <<>>)
    BY DEF Chain
  <2>3. QED
    BY <1>1, <2>1, <2>2, MutatorsAssumption DEF Init, Chained, Lists, ListIds, s
<1>9. PcInv /\ PopInv /\ UnusedInv /\ StopInv /\ Kept
  BY MutatorsAssumption DEF Init, PcInv, PopInv, UnusedInv, StopInv, Kept, Pushing, ListIds
<1>10. QED
  BY <1>2, <1>5, <1>7, <1>8, <1>9 DEF SetInv

\* Push() up to its compare-and-swap.
LEMMA PushIInv ==
    ASSUME IInv, NEW m \in Mutators, PushLoad(m) \/ PushLink(m) \/ PushRetry(m)
    PROVE  IInv'
  <1> USE DEF popVars, gcVars, Link, Lists
  <1> SUFFICES SetInv'
    BY IInvSets
  <1>0. SetInv
    BY IInvSets
  <1>a. /\ TypeOK /\ PcInv /\ PopInv /\ UnusedInv /\ StopInv
        /\ Owned(list, Hands) /\ Unseen /\ Chained /\ Kept
    BY <1>0 DEF SetInv
  <1>1. CASE PushLoad(m)
    <2> USE <1>1 DEF PushLoad
    <2>h. \A k \in Mutators : Hand(k)' = Hand(k)
      BY <1>a, NullAssumption DEF Hand, Pushing, TypeOK
    <2>t. TypeOK'
      BY <1>a DEF TypeOK
    <2>o. Owned(list', Hands') /\ Unseen'
      <3>1. Hands' = Hands
        BY <2>h DEF Hands
      <3>2. QED
        BY <1>a, <3>1 DEF Unseen
    <2>f. ToBeFree' \subseteq ToBeFree
      BY <1>a DEF ToBeFree, Pushing, TypeOK
    <2>p. PcInv'
      BY <1>a DEF PcInv, Pushing, TypeOK
    <2>q. PopInv'
      BY <1>a, <2>f DEF PopInv, TypeOK
    <2>u. UnusedInv'
      BY <1>a, <2>f DEF UnusedInv
    <2>s. StopInv'
      BY <1>a DEF StopInv, PcInv, Pushing, TypeOK
    <2>c. Chained'
      BY <1>a DEF Chained
    <2>n. Kept'
      BY <1>a, <2>h DEF Kept, Hands, StopInv, PcInv, Pushing, TypeOK
    <2>z. QED
      BY <2>t, <2>o, <2>p, <2>q, <2>u, <2>s, <2>c, <2>n DEF SetInv
  <1>2. CASE PushLink(m)
    <2> USE <1>2 DEF PushLink
    <2>1. item[m] \in Hand(m) /\ item[m] \in Nodes
      BY <1>a DEF PcInv, Hand, Pushing
    <2>2. /\ \A n \in Nodes : n # item[m] => next'[n] = next[n]
          /\ \A a \in ListIds : item[m] \notin Elements(list[a])
          /\ \A k \in Mutators \ {m} : item[m] \notin Hand(k)
      <3>1. \A n \in Nodes : n # item[m] => next'[n] = next[n]
        BY <1>a DEF TypeOK
      <3>2. \A a \in ListIds : item[m] \notin Elements(list[a])
        BY <1>0, <1>a, <2>1, ListFacts DEF Owned
      <3>3. \A k \in Mutators \ {m} : item[m] \notin Hand(k)
        BY <1>0, <1>a, <2>1, ListFacts DEF Owned
      <3>4. QED
        BY <3>1, <3>2, <3>3
    <2>h. \A k \in Mutators : Hand(k)' = Hand(k)
      BY <1>a, NullAssumption DEF Hand, Pushing, TypeOK
    <2>t. TypeOK'
      BY <1>a DEF TypeOK
    <2>o. Owned(list', Hands') /\ Unseen'
      <3>1. Hands' = Hands
        BY <2>h DEF Hands
      <3>2. QED
        BY <1>a, <3>1 DEF Unseen
    <2>f. ToBeFree' \subseteq ToBeFree
      BY <1>a DEF ToBeFree, Pushing, TypeOK
    <2>p. PcInv'
      <3>1. \A k \in Mutators \ {m} : pc[k] = "push_cas" => next'[item[k]] = next[item[k]]
        <4> SUFFICES ASSUME NEW k \in Mutators \ {m}, pc[k] = "push_cas"
                     PROVE  next'[item[k]] = next[item[k]]
          OBVIOUS
        <4>1. item[k] \in Nodes /\ item[k] \in Hand(k)
          BY <1>a DEF PcInv, Hand, Pushing
        <4>2. QED
          BY <2>2, <4>1
      <3>2. QED
        BY <1>a, <2>1, <3>1 DEF PcInv, Pushing, TypeOK
    <2>q. PopInv'
      BY <1>0, <1>a, <2>f, <2>2, ListFacts DEF PopInv, TypeOK, ListIds
    <2>u. UnusedInv'
      BY <1>a, <2>f DEF UnusedInv
    <2>s. StopInv'
      BY <1>a DEF StopInv, PcInv, Pushing, TypeOK
    <2>c. Chained'
      <3>1. \A a \in ListIds, h \in Link : Chain(next, h, list[a]) => Chain(next', h, list[a])
        <4> SUFFICES ASSUME NEW a \in ListIds, NEW h \in Link, Chain(next, h, list[a])
                     PROVE  Chain(next', h, list[a])
          OBVIOUS
        <4>1. \A n \in Elements(list[a]) : next'[n] = next[n]
          BY <1>0, <2>2, ListFacts
        <4>2. QED
          BY <4>1, ChainFrame
      <3>2. "taken" \in ListIds
        BY DEF ListIds
      <3>3. QED
        BY <1>0, <1>a, <3>1, <3>2, ListFacts DEF Chained, TypeOK
    <2>n. Kept'
      BY <1>a, <2>h DEF Kept, Hands, StopInv, PcInv, Pushing, TypeOK
    <2>z. QED
      BY <2>t, <2>o, <2>p, <2>q, <2>u, <2>s, <2>c, <2>n DEF SetInv
  <1>3. CASE PushRetry(m)
    <2> USE <1>3 DEF PushRetry
    <2>h. \A k \in Mutators : Hand(k)' = Hand(k)
      BY <1>a, NullAssumption DEF Hand, Pushing, TypeOK
    <2>t. TypeOK'
      BY <1>a DEF TypeOK
    <2>o. Owned(list', Hands') /\ Unseen'
      <3>1. Hands' = Hands
        BY <2>h DEF Hands
      <3>2. QED
        BY <1>a, <3>1 DEF Unseen
    <2>f. ToBeFree' \subseteq ToBeFree
      BY <1>a DEF ToBeFree, Pushing, TypeOK
    <2>p. PcInv'
      BY <1>a DEF PcInv, Pushing, TypeOK
    <2>q. PopInv'
      BY <1>a, <2>f DEF PopInv, TypeOK
    <2>u. UnusedInv'
      BY <1>a, <2>f DEF UnusedInv
    <2>s. StopInv'
      BY <1>a DEF StopInv, PcInv, Pushing, TypeOK
    <2>c. Chained'
      BY <1>a DEF Chained
    <2>n. Kept'
      BY <1>a, <2>h DEF Kept, Hands, StopInv, PcInv, Pushing, TypeOK
    <2>z. QED
      BY <2>t, <2>o, <2>p, <2>q, <2>u, <2>s, <2>c, <2>n DEF SetInv
  <1>4. QED
    BY <1>1, <1>2, <1>3

\* Pop() up to its compare-and-swap, and after it.
LEMMA PopIInv ==
    ASSUME IInv, NEW m \in Mutators,
           PopLoad(m) \/ PopRead(m) \/ PopRetry(m) \/ PopClear(m)
    PROVE  IInv'
  <1> USE DEF popVars, gcVars, Link, Lists
  <1> SUFFICES SetInv'
    BY IInvSets
  <1>0. SetInv
    BY IInvSets
  <1>a. /\ TypeOK /\ PcInv /\ PopInv /\ UnusedInv /\ StopInv
        /\ Owned(list, Hands) /\ Unseen /\ Chained /\ Kept
    BY <1>0 DEF SetInv
  <1>1. CASE PopLoad(m)
    <2> USE <1>1 DEF PopLoad
    <2>h. \A k \in Mutators : Hand(k)' = Hand(k)
      BY <1>a, NullAssumption DEF Hand, Pushing, TypeOK
    <2>t. TypeOK'
      BY <1>a DEF TypeOK
    <2>o. Owned(list', Hands') /\ Unseen'
      <3>1. Hands' = Hands
        BY <2>h DEF Hands
      <3>2. QED
        BY <1>a, <3>1 DEF Unseen
    <2>f. ToBeFree' \subseteq ToBeFree
      BY <1>a DEF ToBeFree, Pushing, TypeOK
    <2>p. PcInv'
      BY <1>a DEF PcInv, Pushing, TypeOK
    <2>q. PopInv'
      <3>1. head["free"] \notin ToBeFree
        <4>1. CASE head["free"] = Null
          BY <1>0, <4>1, ListFacts
        <4>2. CASE head["free"] # Null
          <5>1. Chain(next, head["free"], list["free"]) /\ "free" \in ListIds \ Mutators
            BY <1>0, <1>a, ListFacts DEF Chained
          <5>2. head["free"] \in Elements(list["free"])
            BY <1>0, <4>2, <5>1, ListFacts, ChainTail, RestFacts
          <5>3. QED
            BY <1>0, <5>1, <5>2, ListFacts
        <4>3. QED
          BY <4>1, <4>2
      <3>2. QED
        BY <1>a, <2>f, <3>1 DEF PopInv, TypeOK
    <2>u. UnusedInv'
      BY <1>a, <2>f DEF UnusedInv
    <2>s. StopInv'
      BY <1>a DEF StopInv, PcInv, Pushing, TypeOK
    <2>c. Chained'
      BY <1>a DEF Chained
    <2>n. Kept'
      BY <1>a, <2>h DEF Kept, Hands, StopInv, PcInv, Pushing, TypeOK
    <2>z. QED
      BY <2>t, <2>o, <2>p, <2>q, <2>u, <2>s, <2>c, <2>n DEF SetInv
  <1>2. CASE PopRead(m)
    <2> USE <1>2 DEF PopRead
    <2>h. \A k \in Mutators : Hand(k)' = Hand(k)
      BY <1>a, NullAssumption DEF Hand, Pushing, TypeOK
    <2>t. TypeOK'
      BY ZenonT(40), <1>a DEF TypeOK
    <2>o. Owned(list', Hands') /\ Unseen'
      <3>1. Hands' = Hands
        BY <2>h DEF Hands
      <3>2. QED
        BY <1>a, <3>1 DEF Unseen
    <2>f. ToBeFree' \subseteq ToBeFree
      BY <1>a DEF ToBeFree, Pushing, TypeOK
    <2>p. PcInv'
      BY <1>a DEF PcInv, Pushing, TypeOK
    <2>q. PopInv'
      BY <1>a, <2>f DEF PopInv, TypeOK
    <2>u. UnusedInv'
      BY <1>a, <2>f DEF UnusedInv
    <2>s. StopInv'
      BY <1>a DEF StopInv, PcInv, Pushing, TypeOK
    <2>c. Chained'
      BY <1>a DEF Chained
    <2>n. Kept'
      BY <1>a, <2>h DEF Kept, Hands, StopInv, PcInv, Pushing, TypeOK
    <2>z. QED
      BY <2>t, <2>o, <2>p, <2>q, <2>u, <2>s, <2>c, <2>n DEF SetInv
  <1>3. CASE PopRetry(m)
    <2> USE <1>3 DEF PopRetry
    <2>h. \A k \in Mutators : Hand(k)' = Hand(k)
      BY <1>a, NullAssumption DEF Hand, Pushing, TypeOK
    <2>t. TypeOK'
      BY <1>a DEF TypeOK
    <2>o. Owned(list', Hands') /\ Unseen'
      <3>1. Hands' = Hands
        BY <2>h DEF Hands
      <3>2. QED
        BY <1>a, <3>1 DEF Unseen
    <2>f. ToBeFree' \subseteq ToBeFree
      BY <1>a DEF ToBeFree, Pushing, TypeOK
    <2>p. PcInv'
      BY <1>a DEF PcInv, Pushing, TypeOK
    <2>q. PopInv'
      <3>1. head["free"] \notin ToBeFree
        <4>1. CASE head["free"] = Null
          BY <1>0, <4>1, ListFacts
        <4>2. CASE head["free"] # Null
          <5>1. Chain(next, head["free"], list["free"]) /\ "free" \in ListIds \ Mutators
            BY <1>0, <1>a, ListFacts DEF Chained
          <5>2. head["free"] \in Elements(list["free"])
            BY <1>0, <4>2, <5>1, ListFacts, ChainTail, RestFacts
          <5>3. QED
            BY <1>0, <5>1, <5>2, ListFacts
        <4>3. QED
          BY <4>1, <4>2
      <3>2. QED
        BY <1>a, <2>f, <3>1 DEF PopInv, TypeOK
    <2>u. UnusedInv'
      BY <1>a, <2>f DEF UnusedInv
    <2>s. StopInv'
      BY <1>a DEF StopInv, PcInv, Pushing, TypeOK
    <2>c. Chained'
      BY <1>a DEF Chained
    <2>n. Kept'
      BY <1>a, <2>h DEF Kept, Hands, StopInv, PcInv, Pushing, TypeOK
    <2>z. QED
      BY <2>t, <2>o, <2>p, <2>q, <2>u, <2>s, <2>c, <2>n DEF SetInv
  <1>4. CASE PopClear(m)
    <2> USE <1>4 DEF PopClear
    <2>1. old[m] \in Hand(m) /\ old[m] \in Nodes
      BY <1>a DEF PcInv, Hand, Pushing
    <2>2. /\ \A n \in Nodes : n # old[m] => next'[n] = next[n]
          /\ \A a \in ListIds : old[m] \notin Elements(list[a])
          /\ \A k \in Mutators \ {m} : old[m] \notin Hand(k)
      <3>1. \A n \in Nodes : n # old[m] => next'[n] = next[n]
        BY <1>a DEF TypeOK
      <3>2. \A a \in ListIds : old[m] \notin Elements(list[a])
        BY <1>0, <1>a, <2>1, ListFacts DEF Owned
      <3>3. \A k \in Mutators \ {m} : old[m] \notin Hand(k)
        BY <1>0, <1>a, <2>1, ListFacts DEF Owned
      <3>4. QED
        BY <3>1, <3>2, <3>3
    <2>h. \A k \in Mutators : Hand(k)' = Hand(k)
      BY <1>a, NullAssumption DEF Hand, Pushing, TypeOK
    <2>t. TypeOK'
      BY <1>a DEF TypeOK
    <2>o. Owned(list', Hands') /\ Unseen'
      <3>1. Hands' = Hands
        BY <2>h DEF Hands
      <3>2. QED
        BY <1>a, <3>1 DEF Unseen
    <2>f. ToBeFree' \subseteq ToBeFree
      BY <1>a DEF ToBeFree, Pushing, TypeOK
    <2>p. PcInv'
      <3>1. \A k \in Mutators \ {m} : pc[k] = "push_cas" => next'[item[k]] = next[item[k]]
        <4> SUFFICES ASSUME NEW k \in Mutators \ {m}, pc[k] = "push_cas"
                     PROVE  next'[item[k]] = next[item[k]]
          OBVIOUS
        <4>1. item[k] \in Nodes /\ item[k] \in Hand(k)
          BY <1>a DEF PcInv, Hand, Pushing
        <4>2. QED
          BY <2>2, <4>1
      <3>2. QED
        BY <1>a, <2>1, <3>1 DEF PcInv, Pushing, TypeOK
    <2>q. PopInv'
      BY <1>0, <1>a, <2>f, <2>2, ListFacts DEF PopInv, TypeOK, ListIds
    <2>u. UnusedInv'
      BY <1>a, <2>f DEF UnusedInv
    <2>s. StopInv'
      BY <1>a DEF StopInv, PcInv, Pushing, TypeOK
    <2>c. Chained'
      <3>1. \A a \in ListIds, h \in Link : Chain(next, h, list[a]) => Chain(next', h, list[a])
        <4> SUFFICES ASSUME NEW a \in ListIds, NEW h \in Link, Chain(next, h, list[a])
                     PROVE  Chain(next', h, list[a])
          OBVIOUS
        <4>1. \A n \in Elements(list[a]) : next'[n] = next[n]
          BY <1>0, <2>2, ListFacts
        <4>2. QED
          BY <4>1, ChainFrame
      <3>2. "taken" \in ListIds
        BY DEF ListIds
      <3>3. QED
        BY <1>0, <1>a, <3>1, <3>2, ListFacts DEF Chained, TypeOK
    <2>n. Kept'
      BY <1>a, <2>h DEF Kept, Hands, StopInv, PcInv, Pushing, TypeOK
    <2>z. QED
      BY <2>t, <2>o, <2>p, <2>q, <2>u, <2>s, <2>c, <2>n DEF SetInv
  <1>5. QED
    BY <1>1, <1>2, <1>3, <1>4

\* EnsureGoodNode() with what it has, the writing of entries, and ~Mutator().
LEMMA IdleIInv ==
    ASSUME IInv, NEW m \in Mutators, EnsureGoodNode(m) \/ Fill(m) \/ Exit(m)
    PROVE  IInv'
  <1> USE DEF popVars, gcVars, Link, Lists
  <1> SUFFICES SetInv'
    BY IInvSets
  <1>0. SetInv
    BY IInvSets
  <1>a. /\ TypeOK /\ PcInv /\ PopInv /\ UnusedInv /\ StopInv
        /\ Owned(list, Hands) /\ Unseen /\ Chained /\ Kept
    BY <1>0 DEF SetInv
  <1>1. CASE EnsureGoodNode(m)
    <2> USE <1>1 DEF EnsureGoodNode, MayStart
    <2>h. \A k \in Mutators : Hand(k)' = Hand(k)
      BY <1>a, NullAssumption DEF Hand, Pushing, TypeOK
    <2>t. TypeOK'
      BY <1>a DEF TypeOK
    <2>o. Owned(list', Hands') /\ Unseen'
      <3>1. Hands' = Hands
        BY <2>h DEF Hands
      <3>2. QED
        BY <1>a, <3>1 DEF Unseen
    <2>f. ToBeFree' \subseteq ToBeFree
      BY <1>a DEF ToBeFree, Pushing, TypeOK
    <2>p. PcInv'
      BY <1>a DEF PcInv, Pushing, TypeOK
    <2>q. PopInv'
      BY <1>a, <2>f DEF PopInv, TypeOK
    <2>u. UnusedInv'
      BY <1>a, <2>f DEF UnusedInv
    <2>s. StopInv'
      BY <1>a DEF StopInv, PcInv, Pushing, TypeOK
    <2>c. Chained'
      BY <1>a DEF Chained
    <2>n. Kept'
      BY <1>a, <2>h DEF Kept, Hands, StopInv, PcInv, Pushing, TypeOK
    <2>z. QED
      BY <2>t, <2>o, <2>p, <2>q, <2>u, <2>s, <2>c, <2>n DEF SetInv
  <1>2. CASE Fill(m)
    <2> USE <1>2 DEF Fill, MayStart
    <2>h. \A k \in Mutators : Hand(k)' = Hand(k)
      BY <1>a, NullAssumption DEF Hand, Pushing, TypeOK
    <2>t. TypeOK'
      BY <1>a DEF TypeOK
    <2>o. Owned(list', Hands') /\ Unseen'
      <3>1. Hands' = Hands
        BY <2>h DEF Hands
      <3>2. QED
        BY <1>a, <3>1 DEF Unseen
    <2>f. ToBeFree' \subseteq ToBeFree
      BY <1>a DEF ToBeFree, Pushing, TypeOK
    <2>p. PcInv'
      BY <1>a DEF PcInv, Pushing, TypeOK
    <2>q. PopInv'
      BY <1>a, <2>f DEF PopInv, TypeOK
    <2>u. UnusedInv'
      <3>1. satbNode[m] \in Hand(m)
        BY <1>a DEF Hand
      <3>2. satbNode[m] \notin ToBeFree
        <4>1. ASSUME NEW k \in Mutators, Pushing(k), satbNode[m] = item[k] PROVE FALSE
          <5>1. satbNode[m] \in Hand(k) /\ k # m
            BY <1>a, <4>1 DEF Hand, Pushing
          <5>2. QED
            BY <1>0, <1>a, <3>1, <5>1, ListFacts DEF Owned
        <4>2. ASSUME NEW k \in Mutators, satbNode[m] \in Elements(list[k]) PROVE FALSE
          BY <1>0, <1>a, <3>1, <4>2, ListFacts DEF Owned
        <4>3. ASSUME NEW p \in unmapped, satbNode[m] \in Elements(p) PROVE FALSE
          <5>1. satbNode[m] \in Held(list, Hands)
            BY <1>0, <3>1, ListFacts DEF Held
          <5>2. QED
            BY <1>a, <4>3, <5>1 DEF Unseen
        <4>4. QED
          BY <4>1, <4>2, <4>3 DEF ToBeFree
      <3>3. QED
        BY <1>a, <2>f, <3>2 DEF UnusedInv
    <2>s. StopInv'
      BY <1>a DEF StopInv, PcInv, Pushing, TypeOK
    <2>c. Chained'
      BY <1>a DEF Chained
    <2>n. Kept'
      <3>1. satbNode[m] \in Hand(m)
        BY <1>a DEF Hand
      <3>2. QED
        BY <1>a, <2>h, <3>1 DEF Kept, Hands, MayStart
    <2>z. QED
      BY <2>t, <2>o, <2>p, <2>q, <2>u, <2>s, <2>c, <2>n DEF SetInv
  <1>3. CASE Exit(m)
    <2> USE <1>3 DEF Exit, RetiresNode
    <2>h. \A k \in Mutators : Hand(k)' = Hand(k)
      BY <1>a, NullAssumption DEF Hand, Pushing, TypeOK
    <2>t. TypeOK'
      BY ZenonT(40), <1>a DEF TypeOK
    <2>o. Owned(list', Hands') /\ Unseen'
      <3>1. Hands' = Hands
        BY <2>h DEF Hands
      <3>2. QED
        BY <1>a, <3>1 DEF Unseen
    <2>f. ToBeFree' \subseteq ToBeFree
      BY <1>a DEF ToBeFree, Pushing, TypeOK
    <2>p. PcInv'
      BY <1>a DEF PcInv, Pushing, TypeOK
    <2>q. PopInv'
      BY <1>a, <2>f DEF PopInv, TypeOK
    <2>u. UnusedInv'
      BY <1>a, <2>f DEF UnusedInv
    <2>s. StopInv'
      BY <1>a DEF StopInv, PcInv, Pushing, TypeOK
    <2>c. Chained'
      BY <1>a DEF Chained
    <2>n. Kept'
      BY <1>a, <2>h DEF Kept, Hands, StopInv, PcInv, Pushing, TypeOK
    <2>z. QED
      BY <2>t, <2>o, <2>p, <2>q, <2>u, <2>s, <2>c, <2>n DEF SetInv
  <1>4. QED
    BY <1>1, <1>2, <1>3

\* The compare-and-swap of Push().
LEMMA PushCasIInv ==
    ASSUME IInv, NEW m \in Mutators, PushCas(m)
    PROVE  IInv'
  <1> USE DEF popVars, gcVars, Link, Lists
  <1> SUFFICES SetInv'
    BY IInvSets
  <1>0. SetInv
    BY IInvSets
  <1>a. /\ TypeOK /\ PcInv /\ PopInv /\ UnusedInv /\ StopInv
        /\ Owned(list, Hands) /\ Unseen /\ Chained /\ Kept
    BY <1>0 DEF SetInv
  <1>1. CASE PushCas(m)
    <2> USE <1>1 DEF PushCas, AfterPush
    <2>1. /\ item[m] \in Nodes /\ item[m] \in Hand(m) /\ target[m] \in Lists
          /\ head[target[m]] = next[item[m]]
      BY <1>a DEF PcInv, Hand, Pushing, TypeOK, MayLink
    <2>2. \A a \in ListIds : list'[a] = IF a = target[m] THEN <<item[m]>> \o list[a] ELSE list[a]
      BY <1>a, <2>1 DEF TypeOK
    <2>3. Elements(list'[target[m]]) = Elements(list[target[m]]) \cup {item[m]}
      BY <1>0, <2>1, <2>2, ListFacts, ConsFacts
    <2>4. target[m] = "free" => item[m] \in ToBeFree
      BY <2>1 DEF ToBeFree, Pushing
    <2>h. (\A k \in Mutators \ {m} : Hand(k)' = Hand(k)) /\ Hand(m)' \subseteq Hand(m) \ {item[m]}
      BY <1>a, <2>1, NullAssumption DEF Hand, Pushing, PcInv, TypeOK
    <2>t. TypeOK'
      <3>1. list' \in [ListIds -> Seq(Nodes)]
        <4>1. <<item[m]>> \o list[target[m]] \in Seq(Nodes)
          BY <1>0, <2>1, ListFacts, ConsFacts
        <4>2. QED
          BY ZenonT(40), <1>a, <4>1 DEF TypeOK
      <3>2. QED
        BY <1>a, <2>1, <3>1 DEF TypeOK
    <2>o. Owned(list', Hands') /\ Unseen'
      <3>1. /\ item[m] \in Hands[m] /\ Hands'[m] \subseteq Hands[m] \ {item[m]}
            /\ \A k \in Mutators : k # m => Hands'[k] = Hands[k]
        BY <2>1, <2>h DEF Hands
      <3>2. Owned(list', Hands') /\ Held(list', Hands') \subseteq Held(list, Hands)
        <4>1. /\ target[m] \in ListIds /\ list[target[m]] \in Seq(Nodes)
              /\ list'[target[m]] = <<item[m]>> \o list[target[m]]
              /\ \A a \in ListIds : a # target[m] => list'[a] = list[a]
          BY <1>0, <2>1, <2>2, ListFacts
        <4>2. Owned(list, Hands) /\ item[m] \in Nodes
          BY <1>a, <2>1
        <4>3. Gives(list, Hands, list', Hands', target[m], m, item[m])
          BY <3>1, <4>1, <4>2 DEF Gives
        <4>4. QED
          BY <4>2, <4>3, OwnedGives
      <3>3. QED
        BY <1>a, <3>2 DEF Unseen
    <2>f. ToBeFree' \subseteq ToBeFree
      <3>1. \A k \in Mutators : list'[k] = list[k]
        BY <1>0, <2>1, <2>2, ListFacts
      <3>2. QED
        BY <1>a, <3>1 DEF ToBeFree, Pushing, TypeOK
    <2>p. PcInv'
      BY <1>a DEF PcInv, Pushing, TypeOK
    <2>q. PopInv'
      <3>1. Elements(list'["free"]) \subseteq Elements(list["free"]) \cup ToBeFree
        BY <2>1, <2>2, <2>3, <2>4 DEF ListIds
      <3>2. QED
        BY <1>a, <2>f, <3>1 DEF PopInv, TypeOK
    <2>u. UnusedInv'
      BY <1>a, <2>f DEF UnusedInv
    <2>s. StopInv'
      BY <1>0, <1>a, <2>1, <2>2, ListFacts DEF StopInv, PcInv, Pushing, TypeOK, ListIds
    <2>c. Chained'
      <3>1. Chain(next, item[m], list'[target[m]])
        <4>1. Chain(next, next[item[m]], list[target[m]])
          BY <1>a, <2>1 DEF Chained
        <4>2. QED
          BY <1>0, <2>1, <2>2, <4>1, ListFacts, ChainPush
      <3>2. \A l \in Lists : Chain(next, head'[l], list'[l])
        BY <1>0, <1>a, <2>1, <2>2, <3>1, ListFacts DEF Chained, TypeOK
      <3>3. \A k \in Mutators : list'[k] = list[k]
        BY <1>0, <2>1, <2>2, ListFacts
      <3>4. list'["taken"] = list["taken"]
        BY <2>1, <2>2 DEF ListIds
      <3>5. QED
        BY <1>a, <3>2, <3>3, <3>4 DEF Chained
    <2>n. Kept'
      <3>1. ASSUME NEW n \in used, n \in Hand(m)
            PROVE  n \in Elements(list'["retired"]) \/ n \in Hand(m)'
        <4>1. n = item[m] => target[m] = "retired"
          BY <1>a, <2>1, <2>4, <3>1 DEF UnusedInv
        <4>2. n # item[m] => n = satbNode[m] /\ target[m] = "free" /\ n \in Nodes
          BY <1>a, <3>1 DEF Hand, Pushing
        <4>3. target[m] = "free" => m \notin exiting
          BY <1>a DEF PcInv, Pushing
        <4>4. n # item[m] => n \in Hand(m)'
          BY <1>a, <4>2, <4>3 DEF Hand, TypeOK
        <4>5. QED
          BY <2>3, <4>1, <4>4
      <3>2. /\ list'["taken"] = list["taken"]
            /\ Elements(list["retired"]) \subseteq Elements(list'["retired"])
        BY <2>1, <2>2, <2>3 DEF ListIds
      <3>3. QED
        BY <1>a, <2>h, <3>1, <3>2 DEF Kept, Hands
    <2>z. QED
      BY <2>t, <2>o, <2>p, <2>q, <2>u, <2>s, <2>c, <2>n DEF SetInv
  <1>2. QED
    BY <1>1

\* The compare-and-swap of Pop(): here the ABA problem would bite.
LEMMA PopCasIInv ==
    ASSUME IInv, NEW m \in Mutators, PopCas(m)
    PROVE  IInv'
  <1> USE DEF popVars, gcVars, Link, Lists
  <1> SUFFICES SetInv'
    BY IInvSets
  <1>0. SetInv
    BY IInvSets
  <1>a. /\ TypeOK /\ PcInv /\ PopInv /\ UnusedInv /\ StopInv
        /\ Owned(list, Hands) /\ Unseen /\ Chained /\ Kept
    BY <1>0 DEF SetInv
  <1>1. CASE PopCas(m)
    <2> USE <1>1 DEF PopCas
    <2>0. "free" \in ListIds /\ "free" \in Lists /\ old[m] \in Nodes
      BY <1>a DEF ListIds, PcInv
    <2>1. /\ list["free"] # <<>> /\ old[m] = list["free"][1]
          /\ Chain(next, next[old[m]], Tail(list["free"]))
      <3>1. Chain(next, old[m], list["free"]) /\ old[m] # Null
        BY <1>a, <2>0, NullAssumption DEF Chained
      <3>2. QED
        BY <1>0, <2>0, <3>1, ListFacts, ChainTail
    <2>2. /\ old[m] \in Elements(list["free"]) /\ nx[m] = next[old[m]]
          /\ Elements(Tail(list["free"])) \subseteq Elements(list["free"])
      <3>1. /\ old[m] \in Elements(list["free"])
            /\ Elements(Tail(list["free"])) \subseteq Elements(list["free"])
        BY <1>0, <2>0, <2>1, ListFacts, RestFacts
      <3>2. QED
        BY <1>a, <3>1 DEF PopInv
    <2>3. \A a \in ListIds : list'[a] = IF a = "free" THEN Tail(list["free"]) ELSE list[a]
      BY <1>a DEF TypeOK
    <2>h. (\A k \in Mutators \ {m} : Hand(k)' = Hand(k)) /\ Hand(m) = {} /\ Hand(m)' = {old[m]}
      BY <1>a, <2>0 DEF Hand, Pushing, TypeOK
    <2>t. TypeOK'
      <3>1. Tail(list["free"]) \in Seq(Nodes)
        BY <1>0, <2>0, <2>1, ListFacts, RestFacts
      <3>2. QED
        BY <1>a, <2>0, <3>1 DEF TypeOK
    <2>o. Owned(list', Hands') /\ Unseen'
      <3>1. /\ Hands'[m] \subseteq Hands[m] \cup {list["free"][1]}
            /\ \A k \in Mutators : k # m => Hands'[k] = Hands[k]
        BY <2>1, <2>h DEF Hands
      <3>2. Owned(list', Hands') /\ Held(list', Hands') \subseteq Held(list, Hands)
        <4>1. /\ list["free"] \in Seq(Nodes) /\ list'["free"] = Tail(list["free"])
              /\ \A a \in ListIds : a # "free" => list'[a] = list[a]
          BY <1>0, <2>0, <2>3, ListFacts
        <4>2. Owned(list, Hands) /\ list["free"] # <<>>
          BY <1>a, <2>1
        <4>3. Takes(list, Hands, list', Hands', "free", m)
          BY <2>0, <3>1, <4>1, <4>2 DEF Takes
        <4>4. QED
          BY <4>2, <4>3, OwnedTakes
      <3>3. QED
        BY <1>a, <3>2 DEF Unseen
    <2>f. ToBeFree' \subseteq ToBeFree
      <3>1. \A k \in Mutators : list'[k] = list[k]
        BY <1>0, <2>3, ListFacts
      <3>2. QED
        BY <1>a, <3>1 DEF ToBeFree, Pushing, TypeOK
    <2>p. PcInv'
      BY <1>a, <2>0 DEF PcInv, Pushing, TypeOK
    <2>q. PopInv'
      <3>1. Elements(list'["free"]) \subseteq Elements(list["free"])
        BY <2>0, <2>2, <2>3
      <3>2. QED
        BY <1>a, <2>f, <3>1 DEF PopInv, TypeOK
    <2>u. UnusedInv'
      BY <1>a, <2>f DEF UnusedInv
    <2>s. StopInv'
      BY <1>0, <1>a, <2>3, ListFacts DEF StopInv, PcInv, Pushing, TypeOK, ListIds
    <2>c. Chained'
      <3>1. \A l \in Lists : Chain(next, head'[l], list'[l])
        BY <1>0, <1>a, <2>0, <2>1, <2>2, <2>3, ListFacts DEF Chained, TypeOK
      <3>2. \A k \in Mutators : list'[k] = list[k]
        BY <1>0, <2>3, ListFacts
      <3>3. list'["taken"] = list["taken"]
        BY <2>3 DEF ListIds
      <3>4. QED
        BY <1>a, <3>1, <3>2, <3>3 DEF Chained
    <2>n. Kept'
      <3>1. list'["taken"] = list["taken"] /\ list'["retired"] = list["retired"]
        BY <2>3 DEF ListIds
      <3>2. QED
        BY <1>a, <2>h, <3>1 DEF Kept, Hands, StopInv, TypeOK
    <2>z. QED
      BY <2>t, <2>o, <2>p, <2>q, <2>u, <2>s, <2>c, <2>n DEF SetInv
  <1>2. QED
    BY <1>1

\* The loop that gives the rest of a page to everybody.
LEMMA PushRestIInv ==
    ASSUME IInv, NEW m \in Mutators, PushRest(m)
    PROVE  IInv'
  <1> USE DEF popVars, gcVars, Link, Lists
  <1> SUFFICES SetInv'
    BY IInvSets
  <1>0. SetInv
    BY IInvSets
  <1>a. /\ TypeOK /\ PcInv /\ PopInv /\ UnusedInv /\ StopInv
        /\ Owned(list, Hands) /\ Unseen /\ Chained /\ Kept
    BY <1>0 DEF SetInv
  <1>1. CASE PushRest(m) /\ cur[m] = Null
    <2> USE <1>1 DEF PushRest
    <2>h. \A k \in Mutators : Hand(k)' = Hand(k)
      BY <1>a, NullAssumption DEF Hand, Pushing, TypeOK
    <2>t. TypeOK'
      BY <1>a DEF TypeOK
    <2>o. Owned(list', Hands') /\ Unseen'
      <3>1. Hands' = Hands
        BY <2>h DEF Hands
      <3>2. QED
        BY <1>a, <3>1 DEF Unseen
    <2>f. ToBeFree' \subseteq ToBeFree
      BY <1>a DEF ToBeFree, Pushing, TypeOK
    <2>p. PcInv'
      BY <1>a DEF PcInv, Pushing, TypeOK
    <2>q. PopInv'
      BY <1>a, <2>f DEF PopInv, TypeOK
    <2>u. UnusedInv'
      BY <1>a, <2>f DEF UnusedInv
    <2>s. StopInv'
      BY <1>a DEF StopInv, PcInv, Pushing, TypeOK
    <2>c. Chained'
      BY <1>a DEF Chained
    <2>n. Kept'
      BY <1>a, <2>h DEF Kept, Hands, StopInv, PcInv, Pushing, TypeOK
    <2>z. QED
      BY <2>t, <2>o, <2>p, <2>q, <2>u, <2>s, <2>c, <2>n DEF SetInv
  <1>2. CASE PushRest(m) /\ cur[m] # Null
    <2> USE <1>2 DEF PushRest
    <2>0. m \in ListIds /\ m \notin Lists /\ m # "taken"
      BY <1>0, ListFacts
    <2>1. /\ list[m] # <<>> /\ cur[m] = list[m][1] /\ cur[m] \in Nodes
          /\ Chain(next, next[cur[m]], Tail(list[m]))
      <3>1. Chain(next, cur[m], list[m])
        BY <1>a DEF Chained
      <3>2. QED
        BY <1>0, <2>0, <3>1, ListFacts, ChainTail
    <2>2. /\ cur[m] \in Elements(list[m]) /\ Tail(list[m]) \in Seq(Nodes)
          /\ Elements(Tail(list[m])) \subseteq Elements(list[m])
      BY <1>0, <2>0, <2>1, ListFacts, RestFacts
    <2>3. \A a \in ListIds : list'[a] = IF a = m THEN Tail(list[m]) ELSE list[a]
      BY <1>a DEF TypeOK
    <2>4. cur[m] # satbNode[m]
      <3>1. satbNode[m] \in Nodes => satbNode[m] \in Hand(m)
        BY DEF Hand
      <3>2. QED
        BY <1>0, <1>a, <2>0, <2>1, <2>2, <3>1, ListFacts DEF Owned
    <2>h. (\A k \in Mutators \ {m} : Hand(k)' = Hand(k)) /\ Hand(m)' = Hand(m) \cup {cur[m]}
      BY <1>a, <2>1 DEF Hand, Pushing, TypeOK
    <2>t. TypeOK'
      <3>1. list' \in [ListIds -> Seq(Nodes)]
        BY <1>a, <2>0, <2>2 DEF TypeOK
      <3>2. next[cur[m]] \in Link
        BY <1>a, <2>1 DEF TypeOK
      <3>3. QED
        BY ZenonT(40), <1>a, <2>1, <3>1, <3>2 DEF TypeOK
    <2>o. Owned(list', Hands') /\ Unseen'
      <3>1. /\ Hands'[m] \subseteq Hands[m] \cup {list[m][1]}
            /\ \A k \in Mutators : k # m => Hands'[k] = Hands[k]
        BY <2>1, <2>h DEF Hands
      <3>2. Owned(list', Hands') /\ Held(list', Hands') \subseteq Held(list, Hands)
        <4>1. /\ list[m] \in Seq(Nodes) /\ list'[m] = Tail(list[m])
              /\ \A a \in ListIds : a # m => list'[a] = list[a]
          BY <1>0, <2>0, <2>3, ListFacts
        <4>2. Owned(list, Hands) /\ list[m] # <<>>
          BY <1>a, <2>1
        <4>3. Takes(list, Hands, list', Hands', m, m)
          BY <2>0, <3>1, <4>1, <4>2 DEF Takes
        <4>4. QED
          BY <4>2, <4>3, OwnedTakes
      <3>3. QED
        BY <1>a, <3>2 DEF Unseen
    <2>f. ToBeFree' \subseteq ToBeFree
      <3>1. \A k \in Mutators : Elements(list'[k]) \subseteq Elements(list[k])
        BY <1>0, <2>2, <2>3, ListFacts
      <3>2. \A k \in Mutators \ {m} : Pushing(k)' <=> Pushing(k)
        BY <1>a DEF Pushing, TypeOK
      <3>3. \A k \in Mutators \ {m} : target'[k] = target[k] /\ item'[k] = item[k]
        BY <1>a DEF TypeOK
      <3>4. item'[m] = cur[m] /\ cur[m] \in ToBeFree
        BY <1>a, <2>1, <2>2 DEF ToBeFree, TypeOK
      <3>5. QED
        BY <3>1, <3>2, <3>3, <3>4 DEF ToBeFree
    <2>p. PcInv'
      BY SMTT(40), <1>a, <2>1, <2>4 DEF PcInv, Pushing, TypeOK
    <2>q. PopInv'
      <3>1. list'["free"] = list["free"]
        BY <2>0, <2>3 DEF ListIds
      <3>2. QED
        BY <1>a, <2>f, <3>1 DEF PopInv, TypeOK
    <2>u. UnusedInv'
      BY <1>a, <2>f DEF UnusedInv
    <2>s. StopInv'
      BY <1>a, <2>0, <2>3 DEF StopInv, PcInv, Pushing, TypeOK, ListIds
    <2>c. Chained'
      <3>1. \A l \in Lists : list'[l] = list[l]
        BY <2>0, <2>3 DEF ListIds
      <3>2. list'["taken"] = list["taken"]
        BY <2>0, <2>3 DEF ListIds
      <3>3. \A k \in Mutators : Chain(next, cur'[k], list'[k])
        BY ZenonT(40), <1>0, <1>a, <2>1, <2>3, ListFacts DEF Chained, TypeOK
      <3>4. QED
        BY <1>a, <3>1, <3>2, <3>3 DEF Chained
    <2>n. Kept'
      <3>1. list'["taken"] = list["taken"] /\ list'["retired"] = list["retired"]
        BY <2>0, <2>3 DEF ListIds
      <3>2. QED
        BY SMTT(40), <1>a, <2>h, <3>1 DEF Kept, Hands, StopInv, TypeOK
    <2>z. QED
      BY <2>t, <2>o, <2>p, <2>q, <2>u, <2>s, <2>c, <2>n DEF SetInv
  <1>3. QED
    BY <1>1, <1>2

\* NewPage(m) with page p
NewPageOf(m, p) ==
    /\ pc[m] = "page"
    /\ unmapped' = unmapped \ {p}
    /\ next' = [n \in Nodes |->
                  IF \E i \in DOMAIN p : i > 1 /\ i < Len(p) /\ p[i] = n
                  THEN p[(CHOOSE i \in DOMAIN p : p[i] = n) + 1]
                  ELSE IF n \in Elements(p) THEN Null ELSE next[n]]
    /\ satbNode' = [satbNode EXCEPT ![m] = p[1]]
    /\ cur' = [cur EXCEPT ![m] = IF RestOf(p) = <<>> THEN Null ELSE RestOf(p)[1]]
    /\ list' = [list EXCEPT ![m] = RestOf(p)]
    /\ pc' = [pc EXCEPT ![m] = "rest"]
    /\ UNCHANGED <<head, used, popVars, exiting, gcVars>>

\* GetPages() and ConstructFreeNodeList().
LEMMA NewPageIInv ==
    ASSUME IInv, NEW m \in Mutators, NewPage(m)
    PROVE  IInv'
  <1> USE DEF popVars, gcVars, Link, Lists
  <1> SUFFICES SetInv'
    BY IInvSets
  <1>0. SetInv
    BY IInvSets
  <1>a. /\ TypeOK /\ PcInv /\ PopInv /\ UnusedInv /\ StopInv
        /\ Owned(list, Hands) /\ Unseen /\ Chained /\ Kept
    BY <1>0 DEF SetInv
  <1>1. ASSUME NEW p \in unmapped, NewPageOf(m, p) PROVE SetInv'
    <2> USE <1>1 DEF NewPageOf, RestOf
    <2>0. /\ m \in ListIds /\ m \notin Lists /\ m # "taken" /\ m \notin exiting
          /\ p \in Seq(Nodes) /\ p # <<>> /\ NoRepeat(p) /\ Elements(p) \subseteq Nodes
      <3>1. p \in Pages
        BY <1>a DEF TypeOK
      <3>2. QED
        BY <1>0, <1>a, <3>1, ListFacts, PagesAssumption, SeqFacts
        DEF PcInv, Pushing
    <2>1. /\ Tail(p) \in Seq(Nodes) /\ p[1] \in Nodes /\ p[1] \in Elements(p)
          /\ Elements(Tail(p)) \subseteq Elements(p)
      BY <2>0, RestFacts
    <2>2. /\ \A n \in Nodes : n \notin Elements(p) => next'[n] = next[n]
          /\ \A a \in ListIds : Elements(p) \cap Elements(list[a]) = {}
          /\ \A k \in Mutators : Elements(p) \cap Hand(k) = {}
      <3>1. Elements(p) \cap Held(list, Hands) = {}
        BY <1>a DEF Unseen
      <3>2. \A n \in Elements(p) : n \in Nodes
        BY <2>0
      <3>3. ASSUME NEW n \in Nodes, n \notin Elements(p) PROVE next'[n] = next[n]
        BY <3>3 DEF Elements
      <3>4. \A a \in ListIds, n \in Elements(p) : n \notin Elements(list[a])
        BY <3>1, <3>2 DEF Held
      <3>5. \A k \in Mutators, n \in Elements(p) : n \notin Hand(k)
        BY <1>0, <3>1, <3>2, ListFacts DEF Held
      <3>6. QED
        BY <3>3, <3>4, <3>5
    <2>3. \A a \in ListIds : list'[a] = IF a = m THEN Tail(p) ELSE list[a]
      BY <1>a, <2>0 DEF TypeOK
    <2>4. Chain(next', cur'[m], Tail(p))
      <3> DEFINE t == Tail(p)
      <3>1. /\ Len(p) \in Nat \ {0} /\ DOMAIN p = 1 .. Len(p) /\ DOMAIN t = 1 .. Len(t)
            /\ Len(t) = Len(p) - 1 /\ \A i \in 1 .. Len(t) : t[i] = p[i + 1]
            /\ \A i \in 1 .. Len(p) : p[i] \in Nodes
        BY <2>0, <2>1, RestFacts, SeqFacts
      <3> HIDE DEF t
      <3>2. cur'[m] = IF t = <<>> THEN Null ELSE t[1]
        BY <1>a DEF TypeOK, t
      <3>3. ASSUME NEW j \in 2 .. Len(p)
            PROVE  next'[p[j]] = IF j = Len(p) THEN Null ELSE p[j + 1]
        <4>1. /\ j \in DOMAIN p /\ p[j] \in Nodes /\ p[j] \in Elements(p)
              /\ \A i \in DOMAIN p : p[i] = p[j] => i = j
          BY SMTT(40), <2>0, <3>1 DEF NoRepeat, Elements
        <4>2. next'[p[j]] = IF \E i \in DOMAIN p : i > 1 /\ i < Len(p) /\ p[i] = p[j]
                            THEN p[(CHOOSE i \in DOMAIN p : p[i] = p[j]) + 1] ELSE Null
          BY <4>1
        <4>3. (CHOOSE i \in DOMAIN p : p[i] = p[j]) = j
          BY <4>1
        <4>4. CASE j = Len(p)
          <5>1. ~ \E i \in DOMAIN p : i > 1 /\ i < Len(p) /\ p[i] = p[j]
            BY <3>1, <4>1, <4>4
          <5>2. QED
            BY <4>2, <4>4, <5>1
        <4>5. CASE j # Len(p)
          <5>0. j \in 2 .. Len(p) /\ Len(p) \in Nat
            BY <3>1
          <5>1. j > 1 /\ j < Len(p)
            BY ONLY <5>0, <4>5
          <5>2. \E i \in DOMAIN p : i > 1 /\ i < Len(p) /\ p[i] = p[j]
            BY <4>1, <5>1
          <5>3. next'[p[j]] = p[(CHOOSE i \in DOMAIN p : p[i] = p[j]) + 1]
            BY ONLY <4>2, <5>2
          <5>4. QED
            BY ONLY <4>3, <4>5, <5>3
        <4>6. QED
          BY <4>4, <4>5
      <3>4. ASSUME NEW i \in DOMAIN t
            PROVE  next'[t[i]] = IF i = Len(t) THEN Null ELSE t[i + 1]
        <4>1. i \in 1 .. Len(t) /\ i + 1 \in 2 .. Len(p) /\ t[i] = p[i + 1]
              /\ (i + 1 = Len(p) <=> i = Len(t))
          BY <3>1
        <4>2. i # Len(t) => t[i + 1] = p[(i + 1) + 1]
          BY <3>1, <4>1
        <4>3. QED
          BY <3>3, <4>1, <4>2
      <3>5. Chain(next', cur'[m], t)
        BY <3>2, <3>4 DEF Chain
      <3>6. QED
        BY <3>5 DEF t
    <2>h. (\A k \in Mutators \ {m} : Hand(k)' = Hand(k)) /\ Hand(m) = {} /\ Hand(m)' = {p[1]}
      BY <1>a, <2>1 DEF Hand, Pushing, TypeOK
    <2>t. TypeOK'
      <3>1. list' \in [ListIds -> Seq(Nodes)]
        BY <1>a, <2>1 DEF TypeOK
      <3>2. ASSUME NEW n \in Nodes PROVE next'[n] \in Link
        <4>1. CASE \E i \in DOMAIN p : i > 1 /\ i < Len(p) /\ p[i] = n
          <5>1. PICK i \in DOMAIN p : i > 1 /\ i < Len(p) /\ p[i] = n
            BY <4>1
          <5>2. (CHOOSE j \in DOMAIN p : p[j] = n) = i
            BY <2>0, <5>1 DEF NoRepeat
          <5>3. DOMAIN p = 1 .. Len(p) /\ Len(p) \in Nat /\ \A j \in 1 .. Len(p) : p[j] \in Nodes
            BY <2>0, SeqFacts
          <5>4. next'[n] = p[i + 1] /\ i + 1 \in 1 .. Len(p)
            BY <4>1, <5>1, <5>2, <5>3
          <5>5. QED
            BY <5>3, <5>4
        <4>2. CASE ~ \E i \in DOMAIN p : i > 1 /\ i < Len(p) /\ p[i] = n
          <5>1. next'[n] = Null \/ next'[n] = next[n]
            BY <4>2
          <5>2. QED
            BY <1>a, <5>1 DEF TypeOK
        <4>3. QED
          BY <4>1, <4>2
      <3>3. next' \in [Nodes -> Link]
        BY <3>2
      <3>4. (IF Tail(p) = <<>> THEN Null ELSE Tail(p)[1]) \in Link
        BY <2>1, RestFacts
      <3>5. cur' \in [Mutators -> Link] /\ satbNode' \in [Mutators -> Link]
        BY <1>a, <2>1, <3>4 DEF TypeOK
      <3>6. QED
        BY <1>a, <3>1, <3>3, <3>5 DEF TypeOK
    <2>o. Owned(list', Hands') /\ Unseen'
      <3>1. /\ Hands'[m] \subseteq {p[1]}
            /\ \A k \in Mutators : k # m => Hands'[k] = Hands[k]
        BY <2>h DEF Hands
      <3>2. Elements(p) \cap Held(list, Hands) = {} /\ \A k \in Mutators : Hands[k] \subseteq Nodes
        BY <1>0, <1>a, ListFacts DEF Unseen
      <3>3. GetsPage(list, Hands, list', Hands', m, p)
        BY <2>0, <2>3, <3>1, <3>2 DEF GetsPage
      <3>4. Owned(list', Hands') /\ Held(list', Hands') \subseteq Held(list, Hands) \cup Elements(p)
        BY <1>a, <3>3, OwnedGetsPage
      <3>5. ASSUME NEW q \in unmapped' PROVE Elements(q) \cap Held(list', Hands') = {}
        <4>1. q \in unmapped /\ q # p /\ q \in Pages /\ p \in Pages
          BY <1>a DEF TypeOK
        <4>2. Elements(q) \cap Held(list, Hands) = {} /\ Elements(p) \cap Elements(q) = {}
          BY <1>a, <4>1, PagesAssumption DEF Unseen
        <4>3. QED
          BY <3>4, <4>2
      <3>6. QED
        BY <3>4, <3>5 DEF Unseen
    <2>f. ToBeFree' \subseteq ToBeFree
      <3>1. \A k \in Mutators : Elements(list'[k]) \subseteq Elements(list[k])
                                 \/ Elements(list'[k]) \subseteq Elements(p)
        BY <1>0, <2>1, <2>3, ListFacts
      <3>2. \A k \in Mutators : Pushing(k)' => Pushing(k)
        BY <1>a DEF Pushing, TypeOK
      <3>3. QED
        BY <3>1, <3>2 DEF ToBeFree
    <2>p. PcInv'
      <3>1. \A k \in Mutators \ {m} : pc[k] = "push_cas" => next'[item[k]] = next[item[k]]
        <4> SUFFICES ASSUME NEW k \in Mutators \ {m}, pc[k] = "push_cas"
                     PROVE  next'[item[k]] = next[item[k]]
          OBVIOUS
        <4>1. item[k] \in Nodes /\ item[k] \in Hand(k)
          BY <1>a DEF PcInv, Hand, Pushing
        <4>2. QED
          BY <2>2, <4>1
      <3>2. QED
        BY ZenonT(40), <1>a, <2>0, <3>1 DEF PcInv, Pushing, TypeOK
    <2>q. PopInv'
      <3>1. list'["free"] = list["free"]
        BY <2>0, <2>3 DEF ListIds
      <3>2. \A n \in Elements(list["free"]) : next'[n] = next[n]
        BY <1>0, <2>2, ListFacts DEF ListIds
      <3>3. QED
        BY <1>a, <2>f, <3>1, <3>2 DEF PopInv, TypeOK
    <2>u. UnusedInv'
      BY <1>a, <2>f DEF UnusedInv
    <2>s. StopInv'
      BY <1>a, <2>0, <2>3 DEF StopInv, PcInv, Pushing, TypeOK, ListIds
    <2>c. Chained'
      <3>1. \A a \in ListIds \ {m}, h \in Link : Chain(next, h, list[a]) => Chain(next', h, list'[a])
        <4> SUFFICES ASSUME NEW a \in ListIds \ {m}, NEW h \in Link, Chain(next, h, list[a])
                     PROVE  Chain(next', h, list[a])
          BY <2>3
        <4>1. \A n \in Elements(list[a]) : next'[n] = next[n]
          BY <1>0, <2>2, ListFacts
        <4>2. QED
          BY <4>1, ChainFrame
      <3>2. "taken" \in ListIds \ {m} /\ Lists \subseteq ListIds \ {m}
        BY <2>0 DEF ListIds
      <3>3. \A k \in Mutators : k # m => cur'[k] = cur[k]
        BY <1>a DEF TypeOK
      <3>4. \A k \in Mutators : Chain(next', cur'[k], list'[k])
        BY <1>0, <1>a, <2>3, <2>4, <3>1, <3>3, ListFacts DEF Chained, TypeOK
      <3>5. QED
        BY <1>a, <3>1, <3>2, <3>4 DEF Chained, TypeOK
    <2>n. Kept'
      <3>1. list'["taken"] = list["taken"] /\ list'["retired"] = list["retired"]
        BY <2>0, <2>3 DEF ListIds
      <3>2. QED
        BY <1>a, <2>0, <2>h, <3>1 DEF Kept, Hands, StopInv, TypeOK
    <2>z. QED
      BY <2>t, <2>o, <2>p, <2>q, <2>u, <2>s, <2>c, <2>n DEF SetInv
  <1>2. PICK p \in unmapped : NewPageOf(m, p)
    BY DEF NewPage, NewPageOf
  <1>3. QED
    BY <1>1, <1>2

\* The GC thread's steps.
LEMMA GCIInv ==
    ASSUME IInv, GCThread
    PROVE  IInv'
  <1> USE DEF popVars, gcVars, Link, Lists
  <1> SUFFICES SetInv'
    BY IInvSets
  <1>0. SetInv
    BY IInvSets
  <1>a. /\ TypeOK /\ PcInv /\ PopInv /\ UnusedInv /\ StopInv
        /\ Owned(list, Hands) /\ Unseen /\ Chained /\ Kept
    BY <1>0 DEF SetInv
  <1>1. CASE StopTheWorld
    <2> USE <1>1 DEF StopTheWorld
    <2>h. \A k \in Mutators : Hand(k)' = Hand(k)
      BY <1>a, NullAssumption DEF Hand, Pushing, TypeOK
    <2>t. TypeOK'
      BY <1>a DEF TypeOK
    <2>o. Owned(list', Hands') /\ Unseen'
      <3>1. Hands' = Hands
        BY <2>h DEF Hands
      <3>2. QED
        BY <1>a, <3>1 DEF Unseen
    <2>f. ToBeFree' \subseteq ToBeFree
      BY <1>a DEF ToBeFree, Pushing, TypeOK
    <2>p. PcInv'
      BY <1>a DEF PcInv, Pushing, TypeOK
    <2>q. PopInv'
      BY <1>a, <2>f DEF PopInv, TypeOK
    <2>u. UnusedInv'
      BY <1>a, <2>f DEF UnusedInv
    <2>s. StopInv'
      BY <1>a DEF StopInv, PcInv, Pushing, TypeOK
    <2>c. Chained'
      BY <1>a DEF Chained
    <2>n. Kept'
      BY <1>a, <2>h DEF Kept, Hands, StopInv, PcInv, Pushing, TypeOK
    <2>z. QED
      BY <2>t, <2>o, <2>p, <2>q, <2>u, <2>s, <2>c, <2>n DEF SetInv
  <1>2. CASE PopAllLoad
    <2> USE <1>2 DEF PopAllLoad
    <2>h. \A k \in Mutators : Hand(k)' = Hand(k)
      BY <1>a, NullAssumption DEF Hand, Pushing, TypeOK
    <2>t. TypeOK'
      BY <1>a DEF TypeOK
    <2>o. Owned(list', Hands') /\ Unseen'
      <3>1. Hands' = Hands
        BY <2>h DEF Hands
      <3>2. QED
        BY <1>a, <3>1 DEF Unseen
    <2>f. ToBeFree' \subseteq ToBeFree
      BY <1>a DEF ToBeFree, Pushing, TypeOK
    <2>p. PcInv'
      BY <1>a DEF PcInv, Pushing, TypeOK
    <2>q. PopInv'
      BY <1>a, <2>f DEF PopInv, TypeOK
    <2>u. UnusedInv'
      BY <1>a, <2>f DEF UnusedInv
    <2>s. StopInv'
      BY <1>a DEF StopInv, PcInv, Pushing, TypeOK
    <2>c. Chained'
      BY <1>a DEF Chained
    <2>n. Kept'
      BY <1>a, <2>h DEF Kept, Hands, StopInv, PcInv, Pushing, TypeOK
    <2>z. QED
      BY <2>t, <2>o, <2>p, <2>q, <2>u, <2>s, <2>c, <2>n DEF SetInv
  <1>3. CASE PopAllRetry
    <2> USE <1>3 DEF PopAllRetry
    <2>h. \A k \in Mutators : Hand(k)' = Hand(k)
      BY <1>a, NullAssumption DEF Hand, Pushing, TypeOK
    <2>t. TypeOK'
      BY <1>a DEF TypeOK
    <2>o. Owned(list', Hands') /\ Unseen'
      <3>1. Hands' = Hands
        BY <2>h DEF Hands
      <3>2. QED
        BY <1>a, <3>1 DEF Unseen
    <2>f. ToBeFree' \subseteq ToBeFree
      BY <1>a DEF ToBeFree, Pushing, TypeOK
    <2>p. PcInv'
      BY <1>a DEF PcInv, Pushing, TypeOK
    <2>q. PopInv'
      BY <1>a, <2>f DEF PopInv, TypeOK
    <2>u. UnusedInv'
      BY <1>a, <2>f DEF UnusedInv
    <2>s. StopInv'
      BY <1>a DEF StopInv, PcInv, Pushing, TypeOK
    <2>c. Chained'
      BY <1>a DEF Chained
    <2>n. Kept'
      BY <1>a, <2>h DEF Kept, Hands, StopInv, PcInv, Pushing, TypeOK
    <2>z. QED
      BY <2>t, <2>o, <2>p, <2>q, <2>u, <2>s, <2>c, <2>n DEF SetInv
  <1>4. CASE PopAllCas
    <2> USE <1>4 DEF PopAllCas
    <2>0. "retired" \in ListIds /\ "taken" \in ListIds /\ "retired" \in Lists /\ Lists \subseteq ListIds
      BY DEF ListIds
    <2>1. /\ \A a \in ListIds : list'[a] = CASE a = "retired" -> <<>>
                                             [] a = "taken" -> list["retired"]
                                             [] OTHER -> list[a]
          /\ list["taken"] = <<>>
      BY <1>a, <2>0 DEF TypeOK, StopInv
    <2>2. Elements(<<>>) = {} /\ NoRepeat(<<>>) /\ <<>> \in Seq(Nodes)
      BY EmptySeq DEF Elements, NoRepeat
    <2>h. \A k \in Mutators : Hand(k)' = Hand(k)
      BY <1>a, NullAssumption DEF Hand, Pushing, TypeOK
    <2>t. TypeOK'
      BY <1>a, <2>0, <2>2 DEF TypeOK
    <2>o. Owned(list', Hands') /\ Unseen'
      <3>1. Hands' = Hands
        BY <2>h DEF Hands
      <3>2. Elements(list'["retired"]) = {} /\ Elements(list'["taken"]) = Elements(list["retired"])
        BY <2>0, <2>1, <2>2
      <3>3. \A a \in ListIds \ {"retired", "taken"} : list'[a] = list[a]
        BY <2>1
      <3>4. \A a \in ListIds : NoRepeat(list'[a])
        BY <1>a, <2>0, <2>1, <2>2 DEF Owned
      <3>5. Owned(list', Hands)
        <4>1. ASSUME NEW a \in ListIds, NEW b \in ListIds, a # b
              PROVE  Elements(list'[a]) \cap Elements(list'[b]) = {}
          <5>1. CASE a = "retired" \/ b = "retired"
            BY <3>2, <5>1
          <5>2. CASE a = "taken" /\ b # "retired"
            BY <1>a, <2>0, <3>2, <3>3, <4>1, <5>2 DEF Owned
          <5>3. CASE b = "taken" /\ a # "retired"
            BY <1>a, <2>0, <3>2, <3>3, <4>1, <5>3 DEF Owned
          <5>4. CASE a \notin {"retired", "taken"} /\ b \notin {"retired", "taken"}
            BY <1>a, <3>3, <4>1, <5>4 DEF Owned
          <5>5. QED
            BY <5>1, <5>2, <5>3, <5>4
        <4>2. \A k \in Mutators, a \in ListIds : Elements(list'[a]) \cap Hands[k] = {}
          BY <1>a, <2>0, <3>2, <3>3 DEF Owned
        <4>3. \A j, k \in Mutators : j # k => Hands[j] \cap Hands[k] = {}
          BY <1>a DEF Owned
        <4>4. QED
          BY <3>4, <4>1, <4>2, <4>3 DEF Owned
      <3>6. Held(list', Hands) \subseteq Held(list, Hands)
        BY <2>0, <3>2, <3>3 DEF Held
      <3>7. QED
        BY <1>a, <3>1, <3>5, <3>6 DEF Unseen
    <2>f. ToBeFree' \subseteq ToBeFree
      <3>1. \A k \in Mutators : list'[k] = list[k]
        BY <1>0, <2>1, ListFacts
      <3>2. QED
        BY <3>1 DEF ToBeFree, Pushing
    <2>p. PcInv'
      BY <1>a DEF PcInv, Pushing, TypeOK
    <2>q. PopInv'
      <3>1. list'["free"] = list["free"]
        BY <2>1 DEF ListIds
      <3>2. QED
        BY <1>a, <2>f, <3>1 DEF PopInv
    <2>u. UnusedInv'
      BY <1>a, <2>f DEF UnusedInv
    <2>s. StopInv'
      BY <1>a DEF StopInv, PcInv, Pushing, TypeOK
    <2>c. Chained'
      <3>1. Chain(next, Null, <<>>)
        BY DEF Chain
      <3>2. list'["free"] = list["free"] /\ list'["retired"] = <<>> /\ list'["taken"] = list["retired"]
        BY <2>1 DEF ListIds
      <3>3. \A k \in Mutators : list'[k] = list[k]
        BY <1>0, <2>1, ListFacts
      <3>4. head'["free"] = head["free"] /\ head'["retired"] = Null
        BY <1>a DEF TypeOK
      <3>5. QED
        BY <1>a, <3>1, <3>2, <3>3, <3>4 DEF Chained
    <2>n. Kept'
      <3>1. list'["taken"] = list["retired"] /\ Elements(list["taken"]) = {}
        BY <2>0, <2>1, <2>2
      <3>2. QED
        BY <1>a, <2>h, <3>1 DEF Kept, Hands
    <2>z. QED
      BY <2>t, <2>o, <2>p, <2>q, <2>u, <2>s, <2>c, <2>n DEF SetInv
  <1>5. CASE Walk /\ gold = Null
    <2> USE <1>5 DEF Walk
    <2>h. \A k \in Mutators : Hand(k)' = Hand(k)
      BY <1>a, NullAssumption DEF Hand, Pushing, TypeOK
    <2>t. TypeOK'
      BY <1>a DEF TypeOK
    <2>o. Owned(list', Hands') /\ Unseen'
      <3>1. Hands' = Hands
        BY <2>h DEF Hands
      <3>2. QED
        BY <1>a, <3>1 DEF Unseen
    <2>f. ToBeFree' \subseteq ToBeFree
      BY <1>a DEF ToBeFree, Pushing, TypeOK
    <2>p. PcInv'
      BY <1>a DEF PcInv, Pushing, TypeOK
    <2>q. PopInv'
      BY <1>a, <2>f DEF PopInv, TypeOK
    <2>u. UnusedInv'
      BY <1>a, <2>f DEF UnusedInv
    <2>s. StopInv'
      <3>1. Chain(next, gold, list["taken"]) /\ list["taken"] \in Seq(Nodes)
        BY <1>a DEF Chained, TypeOK, ListIds
      <3>2. list["taken"] = <<>>
        BY <3>1, ChainEmpty
      <3>3. QED
        BY <1>a, <3>2 DEF StopInv, TypeOK
    <2>c. Chained'
      BY <1>a DEF Chained
    <2>n. Kept'
      BY <1>a, <2>h DEF Kept, Hands, StopInv, PcInv, Pushing, TypeOK
    <2>z. QED
      BY <2>t, <2>o, <2>p, <2>q, <2>u, <2>s, <2>c, <2>n DEF SetInv
  <1>6. CASE Walk /\ gold # Null
    <2> USE <1>6 DEF Walk
    <2>0. "taken" \in ListIds /\ "taken" \notin Lists /\ "taken" \notin Mutators
          /\ "retired" # "taken"
      BY <1>0, ListFacts DEF ListIds
    <2>1. /\ list["taken"] # <<>> /\ gold = list["taken"][1] /\ gold \in Nodes
          /\ Chain(next, next[gold], Tail(list["taken"])) /\ list["taken"] \in Seq(Nodes)
      <3>1. Chain(next, gold, list["taken"]) /\ list["taken"] \in Seq(Nodes)
        BY <1>a, <2>0 DEF Chained, TypeOK
      <3>2. QED
        BY <3>1, ChainTail
    <2>2. /\ Tail(list["taken"]) \in Seq(Nodes)
          /\ Elements(list["taken"]) = Elements(Tail(list["taken"])) \cup {gold}
      BY <2>1, RestFacts
    <2>3. \A a \in ListIds : list'[a] = IF a = "taken" THEN Tail(list["taken"]) ELSE list[a]
      BY <1>a DEF TypeOK
    <2>h. \A k \in Mutators : Hand(k)' = Hand(k)
      BY <1>a, NullAssumption DEF Hand, Pushing, TypeOK
    <2>t. TypeOK'
      <3>1. list' \in [ListIds -> Seq(Nodes)]
        BY <1>a, <2>0, <2>2 DEF TypeOK
      <3>2. next[gold] \in Link
        BY <1>a, <2>1 DEF TypeOK
      <3>3. QED
        BY <1>a, <2>1, <3>1, <3>2 DEF TypeOK
    <2>o. Owned(list', Hands') /\ Unseen'
      <3>1. Hands' = Hands
        BY <2>h DEF Hands
      <3>2. Drops(list, list', "taken")
        BY <2>0, <2>1, <2>3 DEF Drops
      <3>3. Owned(list', Hands) /\ Held(list', Hands) \subseteq Held(list, Hands)
        BY <1>a, <3>2, OwnedDrops
      <3>4. QED
        BY <1>a, <3>1, <3>3 DEF Unseen
    <2>f. ToBeFree' \subseteq ToBeFree
      <3>1. \A k \in Mutators : list'[k] = list[k]
        BY <1>0, <2>0, <2>3, ListFacts
      <3>2. QED
        BY <3>1 DEF ToBeFree, Pushing
    <2>p. PcInv'
      BY <1>a DEF PcInv, Pushing, TypeOK
    <2>q. PopInv'
      <3>1. list'["free"] = list["free"]
        BY <2>3 DEF ListIds
      <3>2. QED
        BY <1>a, <2>f, <3>1 DEF PopInv
    <2>u. UnusedInv'
      BY <1>a, <2>f DEF UnusedInv
    <2>s. StopInv'
      BY <1>a DEF StopInv, PcInv, Pushing, TypeOK
    <2>c. Chained'
      <3>1. \A l \in Lists : list'[l] = list[l]
        BY <2>0, <2>3 DEF ListIds
      <3>2. \A k \in Mutators : list'[k] = list[k]
        BY <1>0, <2>0, <2>3, ListFacts
      <3>3. list'["taken"] = Tail(list["taken"])
        BY <2>0, <2>3
      <3>4. QED
        BY <1>a, <2>1, <3>1, <3>2, <3>3 DEF Chained
    <2>n. Kept'
      <3>1. list'["taken"] = Tail(list["taken"]) /\ list'["retired"] = list["retired"]
        BY <2>0, <2>3 DEF ListIds
      <3>2. QED
        BY <1>a, <2>2, <2>h, <3>1 DEF Kept, Hands
    <2>z. QED
      BY <2>t, <2>o, <2>p, <2>q, <2>u, <2>s, <2>c, <2>n DEF SetInv
  <1>7. CASE VisitMutators
    <2> USE <1>7 DEF VisitMutators
    <2>h. \A k \in Mutators : Hand(k)' \subseteq Hand(k) /\ (k \in exiting => Hand(k)' = Hand(k))
      BY <1>a, NullAssumption DEF Hand, Pushing, TypeOK, PcInv
    <2>t. TypeOK'
      <3>1. got' \subseteq Nodes
        BY <1>a DEF TypeOK
      <3>2. satbNode' \in [Mutators -> Link]
        OBVIOUS
      <3>3. QED
        BY <1>a, <3>1, <3>2 DEF TypeOK
    <2>o. Owned(list', Hands') /\ Unseen'
      <3>1. \A k \in Mutators : Hands'[k] \subseteq Hands[k]
        BY <2>h DEF Hands
      <3>2. Owned(list, Hands') /\ Held(list, Hands') \subseteq Held(list, Hands)
        BY <1>a, <3>1, OwnedKept
      <3>3. QED
        BY <1>a, <3>2 DEF Unseen
    <2>f. ToBeFree' \subseteq ToBeFree
      BY <1>a DEF ToBeFree, Pushing, TypeOK
    <2>p. PcInv'
      BY <1>a, NullAssumption DEF PcInv, Pushing, TypeOK
    <2>q. PopInv'
      BY <1>a, <2>f DEF PopInv, TypeOK
    <2>u. UnusedInv'
      BY <1>a, <2>f DEF UnusedInv
    <2>s. StopInv'
      BY <1>a DEF StopInv, PcInv, Pushing, TypeOK
    <2>c. Chained'
      BY <1>a DEF Chained
    <2>n. Kept'
      <3>1. ASSUME NEW k \in Mutators, NEW n \in Hand(k)
            PROVE  n \in got' \/ n \in Hand(k)'
        <4>1. CASE k \in exiting
          BY <2>h, <3>1, <4>1
        <4>2. CASE k \notin exiting
          <5>1. pc[k] = "idle"
            BY <1>a, <4>2 DEF StopInv
          <5>2. n = satbNode[k] /\ n # Null
            BY <3>1, <5>1, NullAssumption DEF Hand, Pushing
          <5>3. QED
            BY <5>2
        <4>3. QED
          BY <4>1, <4>2
      <3>2. QED
        BY <1>a, <3>1 DEF Kept, Hands
    <2>z. QED
      BY <2>t, <2>o, <2>p, <2>q, <2>u, <2>s, <2>c, <2>n DEF SetInv
  <1>8. QED
    BY <1>1, <1>2, <1>3, <1>4, <1>5, <1>6, <1>7 DEF GCThread

\* Every step preserves the invariant.
LEMMA NextIInv == IInv /\ [Next]_vars => IInv'
<1> SUFFICES ASSUME IInv, [Next]_vars PROVE IInv'
  OBVIOUS
<1>1. CASE Next
  BY <1>1, GCIInv, PushIInv, PushCasIInv, PopIInv, PopCasIInv, IdleIInv, NewPageIInv,
     PushRestIInv DEF Next, Mutator, Push, Pop
<1>2. CASE UNCHANGED vars
  <2>1. Hands' = Hands /\ ToBeFree' = ToBeFree
    BY <1>2 DEF vars, popVars, gcVars, Hands, Hand, Pushing, ToBeFree
  <2>2. SetInv
    BY IInvSets
  <2>3. SetInv'
    BY <1>2, <2>1, <2>2 DEF vars, popVars, gcVars, SetInv, TypeOK, PcInv, PopInv, UnusedInv,
       StopInv, Unseen, Chained, Kept, Pushing
  <2>4. QED
    BY <2>3, IInvSets
<1>3. QED
  BY <1>1, <1>2

-----------------------------------------------------------------------------
(* The properties.                                                         *)

\* The conjunction of everything above holds throughout.
THEOREM SatbNodesInvariant == Spec => []IInv
<1>. QED
  BY InitIInv, NextIInv, PTL DEF Spec

\* The lists are what the pushes and pops so far make of them, in order: there
\* is no ABA problem, for any number of mutators, nodes and pages.
THEOREM SatbNodesListsMatch == Spec => []ListsMatch
<1>1. IInv => ListsMatch
  BY DEF IInv
<1>2. QED
  BY <1>1, SatbNodesInvariant, PTL

\* No node is in two places: a mutator writes entries only to a node of its own.
THEOREM SatbNodesOneOwner == Spec => []OneOwner
<1>1. IInv => OneOwner
  BY DEF IInv
<1>2. QED
  BY <1>1, SatbNodesInvariant, PTL

\* The GC thread finds, or has read, every node with entries.
THEOREM SatbNodesNothingLost == Spec => []NothingLost
<1>1. IInv => NothingLost
  BY DEF IInv
<1>2. QED
  BY <1>1, SatbNodesInvariant, PTL
=============================================================================
