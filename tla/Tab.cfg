SPECIFICATION Spec
CONSTANTS
  e1 = e1
  e2 = e2
  c1 = c1
  c2 = c2
  t = t
  k1 = k1
  k2 = k2
  day = day
  week = week
  hr = hr
  it = it
  ann = ann
  bob = bob
  m1 = m1
  m2 = m2
  lead = lead
  member = member
  i1 = i1
  i2 = i2
  w1 = w1
  w2 = w2
  NoCall = NoCall
  NoTick = NoTick
  NoTeam = NoTeam
  NoRole = NoRole
  NoMove = NoMove
  Blank = Blank
  Nothing = Nothing
  Edits <- TwoEdits
  Calls <- TwoCalls
  MaxOutside = 2
  Tasks <- OneTask
  Ranges <- TwoRanges
  Ticks <- TwoTicks
  MaxElsewhere = 1
  MaxBehind = 2
  TeamIds <- TwoTeams
  UserIds <- TwoPeople
  Person = ann
  Roles <- TwoRoles
  Moves <- TwoMoves
  MaxMeddling = 1
  Items <- TwoItems
  Typed <- TwoWords
  Answers <- Found
SYMMETRY Alike
INVARIANT EditsSurvive
INVARIANT BoardSettles
INVARIANT DetachedIsTrue
INVARIANT PickerSettles
PROPERTY PublishCarriesEdits
