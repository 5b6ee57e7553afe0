---------------------------- MODULE MCThreadPool ----------------------------
(* Instance of ThreadPool for TLC.  Its runs check liveness, for which a symmetry
   reduction would not be sound. *)
EXTENDS ThreadPool
=============================================================================
