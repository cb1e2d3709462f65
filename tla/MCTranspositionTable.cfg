\* Sessions of a few searches over a table small enough to collide everywhere.
SPECIFICATION Spec
CONSTANTS
  Keys <- MCKeys
  EntryCounts = {1, 2}
  Generations = 2
  Depths = {0, 1}
  BestMoves <- MCBestMoves
  Mate = 9
  MaxPly = 3
  Truth <- MCTruth
  None = None
  MaxSearches = 2
  MaxStored = 3
INVARIANTS
  ProbedScoreIsTrue
PROPERTIES
  ImplementsLossyMap
