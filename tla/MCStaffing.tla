----------------------------- MODULE MCStaffing -----------------------------
(***************************************************************************)
(* Two instances of Staffing.  The calendar one has two assignments of one *)
(* person on one position, so that every overlap is possible; the seats    *)
(* one has a single assignment that moves between two positions, so that   *)
(* messages about one seat can overtake each other.                        *)
(***************************************************************************)
EXTENDS Staffing, TLC

CONSTANTS w1, w2, p1, p2, a1, a2

MCDays == 1..2
CalendarWorkers == {w1}
CalendarPositions == {p1}
CalendarAssignments == {a1, a2}
CalendarPeriods == {<<1, 1>>, <<2, NoEnd>>}
CalendarLastDays == {NoEnd, 1}
CalendarSymmetry == Permutations(CalendarAssignments)

SeatWorkers == {w1}
SeatPositions == {p1, p2}
SeatAssignments == {a1}
SeatPeriods == {<<1, 1>>}
SeatLastDays == {NoEnd}
=============================================================================
