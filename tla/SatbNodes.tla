----------------------------- MODULE SatbNodes -----------------------------
(***************************************************************************)
(* The lock-free lists of the SATB buffer (compiler-rt:                    *)
(* include/collector/satb_buffer.h), one memory access per step.           *)
(*                                                                         *)
(* Mutators take nodes from freeNodes, fill them and push them on          *)
(* retiredNodes while the GC thread pops all of retiredNodes at once.  The *)
(* lists are linked through Node::next, which Pop() reads from a node that *)
(* another thread may have popped meanwhile.  Module ConcurrentMark takes  *)
(* the lists for sets; this module shows that it may.                      *)
(*                                                                         *)
(* Weak compare-and-swaps may fail without a reason.  The loads of head    *)
(* are relaxed, but what is read through the pointer depends on its value, *)
(* so that on the hardware the runtime is built for a thread sees what was *)
(* stored before the pointer was published.                                *)
(***************************************************************************)
EXTENDS Naturals, Sequences

CONSTANTS
    Mutators,
    Nodes,      \* the nodes of all pages
    Null,       \* nullptr
    Initial,    \* the list that Init() builds from the first pages
    Pages       \* the lists that ConstructFreeNodeList() builds from later pages

NoRepeat(s) == \A i, j \in DOMAIN s : s[i] = s[j] => i = j
Elements(s) == {s[i] : i \in DOMAIN s}

ASSUME NullAssumption == Null \notin Nodes
ASSUME InitialAssumption == Initial \in Seq(Nodes) /\ NoRepeat(Initial)
ASSUME PagesAssumption ==
    \A p \in Pages :
       /\ p \in Seq(Nodes) /\ p # <<>> /\ NoRepeat(p)
       /\ Elements(p) \cap Elements(Initial) = {}
       /\ \A q \in Pages : p # q => Elements(p) \cap Elements(q) = {}

VARIABLES
    head,       \* LockFreeList::head of freeNodes and of retiredNodes
    next,       \* Node::next
    used,       \* the nodes that hold entries
    satbNode,   \* Mutator::satbNode
    pc,         \* where each mutator is in EnsureGoodNode() or ~Mutator()
    item, target, \* the node it pushes, and on which list
    old, nx,    \* locals of Push() and Pop()
    cur,        \* the rest of a new page, still to be pushed
    exiting,    \* mutators in their destructor
    unmapped,   \* pages that GetPages() has not returned yet
    gpc, gold,  \* where the GC thread is, and its local in PopAll()
    stopped,    \* is it in the second pause?
    got,        \* the nodes whose entries it has read
    list        \* history: the contents of each linked list, by the operations done on it

popVars  == <<item, target, old, nx>>
gcVars   == <<gpc, gold, stopped, got>>
vars     == <<head, next, used, satbNode, pc, popVars, cur, exiting, unmapped, gcVars, list>>

Lists == {"free", "retired"}
Link  == Nodes \cup {Null}

\* The lists that exist: the two shared ones, what the GC thread has taken,
\* and the rest of the page each mutator is distributing.
ListIds == {"free", "retired", "taken"} \cup Mutators

ASSUME MutatorsAssumption == Mutators \cap {"free", "retired", "taken"} = {}

\* Following next from h gives exactly s.
Spells(h, s) ==
    /\ h = IF s = <<>> THEN Null ELSE s[1]
    /\ \A i \in DOMAIN s : next[s[i]] = IF i = Len(s) THEN Null ELSE s[i + 1]

Init ==
    /\ head = [l \in Lists |-> IF l = "free" /\ Initial # <<>> THEN Initial[1] ELSE Null]
    /\ next = [n \in Nodes |->
                 IF \E i \in DOMAIN Initial : i < Len(Initial) /\ Initial[i] = n
                 THEN Initial[(CHOOSE i \in DOMAIN Initial : Initial[i] = n) + 1]
                 ELSE Null]
    /\ used = {}
    /\ satbNode = [m \in Mutators |-> Null]
    /\ pc = [m \in Mutators |-> "idle"]
    /\ item = [m \in Mutators |-> Null] /\ target = [m \in Mutators |-> "free"]
    /\ old = [m \in Mutators |-> Null] /\ nx = [m \in Mutators |-> Null]
    /\ cur = [m \in Mutators |-> Null]
    /\ exiting = {}
    /\ unmapped = Pages
    /\ gpc = "mark" /\ gold = Null /\ stopped = FALSE /\ got = {}
    /\ list = [l \in ListIds |-> IF l = "free" THEN Initial ELSE <<>>]

-----------------------------------------------------------------------------
(* LockFreeList::Push() and Pop()                                          *)

PushLoad(m) ==
    /\ pc[m] = "push_load"
    /\ old' = [old EXCEPT ![m] = head[target[m]]]
    /\ pc' = [pc EXCEPT ![m] = "push_link"]
    /\ UNCHANGED <<head, next, used, satbNode, item, target, nx, cur, exiting, unmapped,
                   gcVars, list>>

PushLink(m) ==
    /\ pc[m] = "push_link"
    /\ next' = [next EXCEPT ![item[m]] = old[m]]
    /\ pc' = [pc EXCEPT ![m] = "push_cas"]
    /\ UNCHANGED <<head, used, satbNode, popVars, cur, exiting, unmapped, gcVars, list>>

\* Mutant: head is stored without the comparison.
MayLinkUnchecked(m) == TRUE

MayLink(m) == head[target[m]] = old[m]

\* What the caller of Push() does next.
AfterPush(m) ==
    CASE m \in exiting -> "dead"
      [] m \notin exiting /\ target[m] = "retired" -> "pop_load"
      [] OTHER -> "rest"

PushCas(m) ==
    /\ pc[m] = "push_cas"
    /\ MayLink(m)
    /\ head' = [head EXCEPT ![target[m]] = item[m]]
    /\ list' = [list EXCEPT ![target[m]] = <<item[m]>> \o @]
    /\ pc' = [pc EXCEPT ![m] = AfterPush(m)]
    /\ UNCHANGED <<next, used, satbNode, popVars, cur, exiting, unmapped, gcVars>>

PushRetry(m) ==
    /\ pc[m] = "push_cas"
    /\ old' = [old EXCEPT ![m] = head[target[m]]]
    /\ pc' = [pc EXCEPT ![m] = "push_link"]
    /\ UNCHANGED <<head, next, used, satbNode, item, target, nx, cur, exiting, unmapped,
                   gcVars, list>>

PopLoad(m) ==
    /\ pc[m] = "pop_load"
    /\ old' = [old EXCEPT ![m] = head["free"]]
    /\ pc' = [pc EXCEPT ![m] = "pop_read"]
    /\ UNCHANGED <<head, next, used, satbNode, item, target, nx, cur, exiting, unmapped,
                   gcVars, list>>

\* The argument old->next of the compare-and-swap; nullptr goes for a page.
PopRead(m) ==
    /\ pc[m] = "pop_read"
    /\ IF old[m] = Null
       THEN pc' = [pc EXCEPT ![m] = "page"] /\ UNCHANGED nx
       ELSE pc' = [pc EXCEPT ![m] = "pop_cas"] /\ nx' = [nx EXCEPT ![m] = next[old[m]]]
    /\ UNCHANGED <<head, next, used, satbNode, item, target, old, cur, exiting, unmapped,
                   gcVars, list>>

PopCas(m) ==
    /\ pc[m] = "pop_cas"
    /\ head["free"] = old[m]
    /\ head' = [head EXCEPT !["free"] = nx[m]]
    /\ list' = [list EXCEPT !["free"] = Tail(@)]
    /\ pc' = [pc EXCEPT ![m] = "pop_clear"]
    /\ UNCHANGED <<next, used, satbNode, popVars, cur, exiting, unmapped, gcVars>>

PopRetry(m) ==
    /\ pc[m] = "pop_cas"
    /\ old' = [old EXCEPT ![m] = head["free"]]
    /\ pc' = [pc EXCEPT ![m] = "pop_read"]
    /\ UNCHANGED <<head, next, used, satbNode, item, target, nx, cur, exiting, unmapped,
                   gcVars, list>>

PopClear(m) ==
    /\ pc[m] = "pop_clear"
    /\ next' = [next EXCEPT ![old[m]] = Null]
    /\ satbNode' = [satbNode EXCEPT ![m] = old[m]]
    /\ pc' = [pc EXCEPT ![m] = "idle"]
    /\ UNCHANGED <<head, used, popVars, cur, exiting, unmapped, gcVars, list>>

-----------------------------------------------------------------------------
(* EnsureGoodNode(), Node::Push() and ~Mutator()                           *)

\* A mutator is stopped only where it is not in the barrier; one in its
\* destructor is not in the list of mutators any more and not stopped.
MayStart(m) == pc[m] = "idle" /\ ~stopped /\ gpc # "done"

\* PushIntoSatbBuffer() with no node, or with a full one.
EnsureGoodNode(m) ==
    /\ MayStart(m)
    /\ \/ /\ satbNode[m] = Null
          /\ pc' = [pc EXCEPT ![m] = "pop_load"]
          /\ UNCHANGED <<item, target>>
       \/ /\ satbNode[m] \in used
          /\ pc' = [pc EXCEPT ![m] = "push_load"]
          /\ item' = [item EXCEPT ![m] = satbNode[m]]
          /\ target' = [target EXCEPT ![m] = "retired"]
    /\ UNCHANGED <<head, next, used, satbNode, old, nx, cur, exiting, unmapped, gcVars, list>>

\* The entries of a node are written without a lock: it is the mutator's own.
Fill(m) ==
    /\ MayStart(m)
    /\ satbNode[m] \in Nodes \ used
    /\ used' = used \cup {satbNode[m]}
    /\ UNCHANGED <<head, next, satbNode, pc, popVars, cur, exiting, unmapped, gcVars, list>>

\* Mutant: the loop starts at the node that the mutator keeps.
RestOfAll(p) == p

RestOf(p) == Tail(p)

\* GetPages() and ConstructFreeNodeList(): the mutator keeps the first node.
NewPage(m) ==
    /\ pc[m] = "page"
    /\ \E p \in unmapped :
          /\ unmapped' = unmapped \ {p}
          /\ next' = [n \in Nodes |->
                        IF \E i \in DOMAIN p : i > 1 /\ i < Len(p) /\ p[i] = n
                        THEN p[(CHOOSE i \in DOMAIN p : p[i] = n) + 1]
                        ELSE IF n \in Elements(p) THEN Null ELSE next[n]]
          /\ satbNode' = [satbNode EXCEPT ![m] = p[1]]
          /\ cur' = [cur EXCEPT ![m] = IF RestOf(p) = <<>> THEN Null ELSE RestOf(p)[1]]
          /\ list' = [list EXCEPT ![m] = RestOf(p)]
    /\ pc' = [pc EXCEPT ![m] = "rest"]
    /\ UNCHANGED <<head, used, popVars, exiting, gcVars>>

\* The loop that gives the other nodes of the page to everybody.
PushRest(m) ==
    /\ pc[m] = "rest"
    /\ IF cur[m] = Null
       THEN pc' = [pc EXCEPT ![m] = "idle"] /\ UNCHANGED <<item, target, cur, list>>
       ELSE /\ pc' = [pc EXCEPT ![m] = "push_load"]
            /\ item' = [item EXCEPT ![m] = cur[m]]
            /\ target' = [target EXCEPT ![m] = "free"]
            /\ cur' = [cur EXCEPT ![m] = next[cur[m]]]
            /\ list' = [list EXCEPT ![m] = Tail(@)]
    /\ UNCHANGED <<head, next, used, satbNode, old, nx, exiting, unmapped, gcVars>>

\* Mutant: the destructor drops the node.
RetiresNodeNever(m) == FALSE

RetiresNode(m) == satbNode[m] # Null

\* ~Mutator(), after the mutator has left the list of mutators.
Exit(m) ==
    /\ pc[m] = "idle" /\ ~stopped
    /\ exiting' = exiting \cup {m}
    /\ IF RetiresNode(m)
       THEN /\ pc' = [pc EXCEPT ![m] = "push_load"]
            /\ item' = [item EXCEPT ![m] = satbNode[m]]
            /\ target' = [target EXCEPT ![m] = "retired"]
       ELSE pc' = [pc EXCEPT ![m] = "dead"] /\ UNCHANGED <<item, target>>
    /\ satbNode' = [satbNode EXCEPT ![m] = Null]
    /\ UNCHANGED <<head, next, used, old, nx, cur, unmapped, gcVars, list>>

-----------------------------------------------------------------------------
(* The GC thread: GetRetiredObjects() while mutators run and once more in  *)
(* the second pause, which then reads the nodes the mutators still hold.   *)

StopTheWorld ==
    /\ gpc = "mark" /\ ~stopped
    /\ \A m \in Mutators \ exiting : pc[m] = "idle"
    /\ stopped' = TRUE
    /\ UNCHANGED <<head, next, used, satbNode, pc, popVars, cur, exiting, unmapped,
                   gpc, gold, got, list>>

PopAllLoad ==
    /\ gpc = "mark"
    /\ gold' = head["retired"]
    /\ gpc' = "pop_all"
    /\ UNCHANGED <<head, next, used, satbNode, pc, popVars, cur, exiting, unmapped,
                   stopped, got, list>>

PopAllCas ==
    /\ gpc = "pop_all"
    /\ head["retired"] = gold
    /\ head' = [head EXCEPT !["retired"] = Null]
    /\ list' = [list EXCEPT !["retired"] = <<>>, !["taken"] = list["retired"]]
    /\ gpc' = "walk"
    /\ UNCHANGED <<next, used, satbNode, pc, popVars, cur, exiting, unmapped, gold, stopped, got>>

PopAllRetry ==
    /\ gpc = "pop_all"
    /\ gold' = head["retired"]
    /\ UNCHANGED <<head, next, used, satbNode, pc, popVars, cur, exiting, unmapped,
                   gpc, stopped, got, list>>

\* The loop of GetRetiredObjects().
Walk ==
    /\ gpc = "walk"
    /\ IF gold = Null
       THEN gpc' = (IF stopped THEN "visit" ELSE "mark") /\ UNCHANGED <<gold, got, list>>
       ELSE /\ got' = got \cup {gold}
            /\ gold' = next[gold]
            /\ list' = [list EXCEPT !["taken"] = Tail(@)]
            /\ UNCHANGED gpc
    /\ UNCHANGED <<head, next, used, satbNode, pc, popVars, cur, exiting, unmapped, stopped>>

\* VisitMutators() with the lambda of the second pause; then the world starts.
VisitMutators ==
    /\ gpc = "visit"
    /\ got' = got \cup {satbNode[m] : m \in {x \in Mutators : satbNode[x] # Null}}
    /\ satbNode' = [m \in Mutators |-> Null]
    /\ gpc' = "done"
    /\ stopped' = FALSE
    /\ UNCHANGED <<head, next, used, pc, popVars, cur, exiting, unmapped, gold, list>>

Push(m) == PushLoad(m) \/ PushLink(m) \/ PushCas(m) \/ PushRetry(m)

Pop(m) == PopLoad(m) \/ PopRead(m) \/ PopCas(m) \/ PopRetry(m) \/ PopClear(m)

Mutator(m) ==
    \/ Push(m) \/ Pop(m)
    \/ EnsureGoodNode(m) \/ Fill(m) \/ NewPage(m) \/ PushRest(m) \/ Exit(m)

GCThread ==
    \/ StopTheWorld \/ PopAllLoad \/ PopAllCas \/ PopAllRetry \/ Walk \/ VisitMutators

Next == GCThread \/ \E m \in Mutators : Mutator(m)

Spec == Init /\ [][Next]_vars

-----------------------------------------------------------------------------
(* Properties                                                              *)

TypeOK ==
    /\ head \in [Lists -> Link]
    /\ next \in [Nodes -> Link]
    /\ used \subseteq Nodes /\ got \subseteq Nodes
    /\ satbNode \in [Mutators -> Link]
    /\ pc \in [Mutators -> {"idle", "push_load", "push_link", "push_cas", "pop_load",
                            "pop_read", "pop_cas", "pop_clear", "page", "rest", "dead"}]
    /\ item \in [Mutators -> Link] /\ target \in [Mutators -> Lists]
    /\ old \in [Mutators -> Link] /\ nx \in [Mutators -> Link]
    /\ cur \in [Mutators -> Link]
    /\ exiting \subseteq Mutators
    /\ unmapped \subseteq Pages
    /\ gpc \in {"mark", "pop_all", "walk", "visit", "done"}
    /\ gold \in Link
    /\ stopped \in BOOLEAN
    /\ list \in [ListIds -> Seq(Nodes)]

Pushing(m) == pc[m] \in {"push_load", "push_link", "push_cas"}

\* The nodes that m alone may touch.
Hand(m) ==
    {n \in Nodes :
       \/ Pushing(m) /\ n = item[m]
       \/ pc[m] = "pop_clear" /\ n = old[m]
       \/ pc[m] = "idle" /\ n = satbNode[m]
       \/ pc[m] = "rest" /\ n = satbNode[m]
       \/ Pushing(m) /\ target[m] = "free" /\ n = satbNode[m]}

\* Following the pointers gives what the pushes and pops so far must have
\* left in each list, in order: the compare-and-swaps neither lose a node nor
\* bring one back although Pop() reads next from a node that may be gone
\* ("there is no need to use LL/SC to avoid ABA problem").
ListsMatch ==
    /\ \A l \in Lists : Spells(head[l], list[l])
    /\ gpc = "walk" => Spells(gold, list["taken"])
    /\ \A m \in Mutators : Spells(cur[m], list[m])

\* No node is in two lists, twice in one, in a list and in the hand of a
\* mutator, or in the hands of two: entries are written without a lock.
OneOwner ==
    /\ \A a, b \in ListIds : \A i \in DOMAIN list[a], j \in DOMAIN list[b] :
          list[a][i] = list[b][j] => a = b /\ i = j
    /\ \A m \in Mutators, a \in ListIds : \A i \in DOMAIN list[a] : list[a][i] \notin Hand(m)
    /\ \A m, k \in Mutators : m # k => Hand(m) \cap Hand(k) = {}

\* Every node with entries is where the GC thread will find it, or was read;
\* after the pause only nodes of mutators that were in their destructor are
\* not read.
NothingLost ==
    /\ \A n \in used :
          \/ n \in got
          \/ \E i \in DOMAIN list["retired"] : list["retired"][i] = n
          \/ \E i \in DOMAIN list["taken"] : list["taken"][i] = n
          \/ \E m \in Mutators : n \in Hand(m)
    /\ gpc = "done" => \A m \in Mutators \ exiting : satbNode[m] = Null
=============================================================================
