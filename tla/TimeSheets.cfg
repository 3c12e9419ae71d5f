SPECIFICATION Spec
CONSTANTS
  owner = owner
  boss = boss
  d1 = d1
  d2 = d2
  d3 = d3
  Nobody = Nobody
  Owners <- OneOwner
  People <- TwoPeople
  Days <- ThreeDays
  Durations <- TwoDurations
  MaxSaves = 2
INVARIANTS
  TypeOK
  HoursAreAgreed
  DecisionsAreSigned
PROPERTIES
  ImplementsMonth
