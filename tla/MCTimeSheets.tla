---------------------------- MODULE MCTimeSheets ----------------------------
(***************************************************************************)
(* One sheet (sheets share nothing), its owner and one other person, three *)
(* days of two lengths and two saves at once: a save can meet a first      *)
(* save, a removal, a submission and every decision.                       *)
(***************************************************************************)
EXTENDS TimeSheets

CONSTANTS owner, boss, d1, d2, d3

OneOwner == {owner}
TwoPeople == {owner, boss}
ThreeDays == {d1, d2, d3}
TwoDurations == {5, 480}
=============================================================================
