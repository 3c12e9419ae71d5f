SPECIFICATION FairSpec
CONSTANTS
  o1 = o1
  o2 = o2
  g1 = g1
  g2 = g2
  Organizations <- TwoOrganizations
  Generators <- OneGenerator
  BatchSize = 2
  MaxEdits = 0
  CanBeInterrupted = TRUE
PROPERTIES
  QueuedAgain
CHECK_DEADLOCK FALSE
