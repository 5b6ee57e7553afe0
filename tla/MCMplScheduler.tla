--------------------------- MODULE MCMplScheduler ---------------------------
(* MplScheduler with three workers and up to four tasks per round.         *)
EXTENDS MplScheduler
=============================================================================
