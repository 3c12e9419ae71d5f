------------------------------- MODULE MCTab -------------------------------
(***************************************************************************)
(* Two edits and two calls under way; a task with two ticks in flight on   *)
(* boards of two ranges; two teams, two people and two moves; two items    *)
(* to pick by their labels or by two words, one of which finds nothing.    *)
(***************************************************************************)
EXTENDS Tab, TLC

CONSTANTS e1, e2, c1, c2, t, k1, k2, day, week, hr, it, ann, bob, m1, m2,
          lead, member, i1, i2, w1, w2

TwoEdits == {e1, e2}
TwoCalls == {c1, c2}
OneTask == {t}
TwoTicks == {k1, k2}
TwoRanges == {day, week}
TwoTeams == {hr, it}
TwoPeople == {ann, bob}
TwoMoves == {m1, m2}
TwoRoles == {lead, member}
TwoItems == {i1, i2}
TwoWords == {w1, w2}

Found == [x \in TwoItems \cup TwoWords \cup {Blank} |->
  CASE x = Blank -> TwoItems [] x = w1 -> {i1} [] x = w2 -> {} [] OTHER -> {x}]

Alike == Permutations(TwoEdits) \cup Permutations(TwoCalls) \cup Permutations(TwoTicks)
=============================================================================
