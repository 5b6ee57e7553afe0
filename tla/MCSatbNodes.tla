---------------------------- MODULE MCSatbNodes ----------------------------
(* SatbNodes with two mutators, two nodes at the start and one page.       *)
EXTENDS SatbNodes, TLC

CONSTANTS n1, n2, n3, n4

MCInitial == <<n1, n2>>
MCPages == {<<n3, n4>>}
MCSymmetry == Permutations(Mutators)
=============================================================================
