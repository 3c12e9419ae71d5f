----------------------------- MODULE MCSessions -----------------------------
(***************************************************************************)
(* Two sign-ins, two requests in flight and three tokens of a family: a    *)
(* renewal can be joined, overtaken, lost, replayed and overlap a sign-out *)
(* and the next sign-in.                                                   *)
(***************************************************************************)
EXTENDS Sessions, TLC

CONSTANTS s1, s2, r1, r2

TwoSessions == {s1, s2}
TwoRequests == {r1, r2}
Alike == Permutations(TwoSessions) \cup Permutations(TwoRequests)
=============================================================================
