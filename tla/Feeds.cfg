SPECIFICATION FairSpec
CONSTANTS
  o1 = o1
  o2 = o2
  g1 = g1
  g2 = g2
  Organizations <- TwoOrganizations
  Generators <- TwoGenerators
  BatchSize = 2
  MaxEdits = 1
  CanBeInterrupted = TRUE
INVARIANTS
  TypeOK
  OneWriterPerFeed
  FilesAgree
PROPERTIES
  ImplementsPublication
  TaskGoesOn
  TaskIsClosed
CHECK_DEADLOCK FALSE
