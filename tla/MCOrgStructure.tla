--------------------------- MODULE MCOrgStructure ---------------------------
(***************************************************************************)
(* A top with three units, three people and two names: a move can try to   *)
(* close a loop of two or three units, two creations race each other, a    *)
(* rename, a move and an archiving, and a head can sit above a head.       *)
(***************************************************************************)
EXTENDS OrgStructure, TLC

CONSTANTS u1, u2, u3, u4, ann, bob, cid, n1, n2

FourUnits == {u1, u2, u3, u4}
ThreePeople == {ann, bob, cid}
TwoNames == {n1, n2}

Symmetry == Permutations(FourUnits) \cup Permutations(ThreePeople) \cup Permutations(TwoNames)
=============================================================================
