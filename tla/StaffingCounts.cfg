SPECIFICATION Spec
CONSTANTS
  w1 = w1
  w2 = w2
  p1 = p1
  p2 = p2
  a1 = a1
  a2 = a2
  Days <- MCDays
  Workers <- SeatWorkers
  Positions <- SeatPositions
  Assignments <- SeatAssignments
  Periods <- SeatPeriods
  LastDays <- SeatLastDays
  MaxCalls = 1
  MaxCopies = 1
  CanFail = FALSE
INVARIANTS
  SeatsAgree
