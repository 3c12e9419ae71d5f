------------------------------ MODULE MCTeams ------------------------------
(***************************************************************************)
(* Two teams and two people: both can leave a team of two at the same      *)
(* time, a team can be founded with somebody who is just being added to    *)
(* another, and the notices of two changes can pass each other.            *)
(***************************************************************************)
EXTENDS Teams, TLC

CONSTANTS t1, t2, ann, bob, lead, sales, n1, n2

TwoTeams == {t1, t2}
TwoUsers == {ann, bob}
TwoRoles == {lead, sales}
TwoNames == {n1, n2}

Symmetry == Permutations(TwoTeams) \cup Permutations(TwoUsers) \cup Permutations(TwoRoles)
            \cup Permutations(TwoNames)
=============================================================================
