SPECIFICATION Spec
CONSTANTS
  u1 = u1
  u2 = u2
  u3 = u3
  u4 = u4
  ann = ann
  bob = bob
  cid = cid
  n1 = n1
  n2 = n2
  NoUnit = NoUnit
  Nobody = Nobody
  UnitIds <- FourUnits
  People <- ThreePeople
  Names <- TwoNames
  MaxCreates = 2
SYMMETRY Symmetry
INVARIANTS
  TypeOK
  ChartIsATree
  EveryoneIsPlaced
  ScreenMatchesAuthority
  SupervisorMayDecide
  AuthorityIsOneLine
  AmbiguousOnlyAfterRace
