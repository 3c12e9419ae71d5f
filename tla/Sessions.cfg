SPECIFICATION Spec
CONSTANTS
  s1 = s1
  s2 = s2
  r1 = r1
  r2 = r2
  None = None
  Other = Other
  Sessions <- TwoSessions
  Requests <- TwoRequests
  MaxTokens = 3
  MaxLost = 1
SYMMETRY Alike
INVARIANT SessionSurvives
INVARIANT SignedOutIsRevoked
PROPERTY IdentityChangesBySignIn
