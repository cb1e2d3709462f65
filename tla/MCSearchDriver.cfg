\* Every kind of go, stopped or timed out at every point.
SPECIFICATION FairSpec
CONSTANTS
  None = None
  Unlimited = Unlimited
  a = a
  b = b
  MaxU64 = 1000
  MaxPly = 4
  BareDepth = 2
  LegalSets <- MCLegalSets
  LimitsSet <- MCLimits
  ParamsSet <- MCParams
  Scores <- MCScores
  Inf = 5
  AspirationMinDepth = 2
  HalfWidth = 1
  MoveOverhead = 1
  MaxTime = 2
  MaxPolls = 1
INVARIANTS
  ForfeitGuard
  AspirationIsExact
  BestmoveIsKnown
PROPERTIES
  ImplementsAnytime
  Answers
