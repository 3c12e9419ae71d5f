SPECIFICATION Spec
CONSTANTS
  w1 = w1
  w2 = w2
  p1 = p1
  p2 = p2
  a1 = a1
  a2 = a2
  Days <- MCDays
  Workers <- CalendarWorkers
  Positions <- CalendarPositions
  Assignments <- CalendarAssignments
  Periods <- CalendarPeriods
  LastDays <- CalendarLastDays
  MaxCalls = 2
  MaxCopies = 1
  CanFail = FALSE
SYMMETRY CalendarSymmetry
INVARIANTS
  TypeOK
  OverlapOnlyByRace
PROPERTIES
  ImplementsStay
