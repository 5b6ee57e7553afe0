---------------------------- MODULE MCClassInit ----------------------------
(* Two threads and six classes: C extends P and implements J, an interface
   without default methods that extends I, which has some, as has its super
   interface K; the super class of E is missing.  The initialiser of C uses C
   itself and E, that of P uses I. *)
EXTENDS ClassInit, TLC

CONSTANTS C, P, I, J, K, E

MCSuperClassArray == C :> <<P, J>> @@ P :> <<>> @@ J :> <<I>> @@ I :> <<K>> @@ K :> <<>> @@ E :> <<Missing>>
MCUses == C :> {C, E} @@ P :> {I} @@ J :> {} @@ I :> {} @@ K :> {} @@ E :> {}
=============================================================================
