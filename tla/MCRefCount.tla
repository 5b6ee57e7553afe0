----------------------------- MODULE MCRefCount -----------------------------
(* RefCount for two mutators and the reference processor.                  *)
EXTENDS RefCount
CONSTANTS t1, t2
MCThreads == {t1, t2}
=============================================================================
