-------------------------- MODULE MCConcurrentMark --------------------------
(* Instances of ConcurrentMark for TLC.                                    *)
EXTENDS ConcurrentMark, TLC

Symmetry == Permutations(Mutators) \cup Permutations(Objects)

\* Before the first pause, what mutators do only leads to another state of
\* Init, and an object that nobody reaches stays so: the heap operations are
\* spent on one collection of a heap whose objects are all in use.
OneCollection ==
    gpc \in {"idle", "init"} =>
      /\ ops = 0
      /\ \A m \in Mutators : pc[m] \in {"outside", "native"}
      /\ allocated \subseteq Reachable(heap, StaticRefs(heap) \cup UNION {local[m] : m \in Mutators})
=============================================================================
