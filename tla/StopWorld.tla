------------------------------ MODULE StopWorld ------------------------------
(***************************************************************************)
(* What stop-the-world promises to a collector, without the mechanism.     *)
(* `running' is the set of mutators that may touch the heap.  A mutator    *)
(* may park whenever it likes; it resumes only when the world is not       *)
(* stopped, and the world is stopped only when nobody is running.          *)
(***************************************************************************)
CONSTANT Mutators

VARIABLES running,  \* mutators outside the saferegion
          stopped   \* WorldStopped()

vars == <<running, stopped>>

Init == running = {} /\ stopped = FALSE

Resume(m) == ~stopped /\ running' = running \cup {m} /\ UNCHANGED stopped
Park(m)   == running' = running \ {m} /\ UNCHANGED stopped
Stop      == running = {} /\ stopped' = TRUE /\ UNCHANGED running
Start     == stopped' = FALSE /\ UNCHANGED running

Next == Stop \/ Start \/ \E m \in Mutators : Resume(m) \/ Park(m)

Spec == Init /\ [][Next]_vars
=============================================================================
