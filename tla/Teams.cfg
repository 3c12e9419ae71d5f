SPECIFICATION Spec
\* Nobody has to act: with every message handled and the bounds reached, the system rests.
CHECK_DEADLOCK FALSE
CONSTANTS
  t1 = t1
  t2 = t2
  ann = ann
  bob = bob
  lead = lead
  sales = sales
  n1 = n1
  n2 = n2
  NoTeam = NoTeam
  NoRole = NoRole
  NoName = NoName
  Nobody = Nobody
  TeamIds <- TwoTeams
  UserIds <- TwoUsers
  Roles <- TwoRoles
  Names <- TwoNames
  MaxVersion = 3
  MaxTold = 2
  MaxCalls = 2
SYMMETRY Symmetry
INVARIANTS
  TypeOK
  RosterMatchesSeats
  CopyFollowsRoster
PROPERTIES
  ImplementsMembership
