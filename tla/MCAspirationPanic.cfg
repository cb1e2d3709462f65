\* Aspiration_Min above Aspiration_Max, each in its advertised range.
SPECIFICATION Spec
CONSTANTS
  None = None
  Unlimited = Unlimited
  a = a
  b = b
  MaxU64 = 1000
  MaxPly = 4
  BareDepth = 2
  LegalSets <- MCLegalSets
  LimitsSet <- DepthThree
  ParamsSet <- AdvertisedParams
  Scores <- MCScores
  Inf = 5
  AspirationMinDepth = 2
  HalfWidth = 1
  MoveOverhead = 1
  MaxTime = 2
  MaxPolls = 1
INVARIANT EveryGoIsAnswered
