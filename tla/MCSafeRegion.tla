---------------------------- MODULE MCSafeRegion ----------------------------
(* Model checking instances of SafeRegion. *)
EXTENDS SafeRegion, TLC

\* Mutators are interchangeable, and so are GC threads.
Symmetry == Permutations(Mutators) \cup Permutations(GCThreads)
=============================================================================
