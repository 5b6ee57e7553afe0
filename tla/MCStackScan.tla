---------------------------- MODULE MCStackScan ----------------------------
(* Instance of StackScan for TLC.  Its runs check liveness, for which a symmetry
   reduction would not be sound. *)
EXTENDS StackScan
============================================================================
