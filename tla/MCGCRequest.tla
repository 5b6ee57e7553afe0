---------------------------- MODULE MCGCRequest ----------------------------
(* Instance of GCRequest for TLC.  Its runs check liveness, for which a symmetry
   reduction would not be sound. *)
EXTENDS GCRequest
============================================================================
