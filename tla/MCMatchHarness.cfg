\* Matches and tuning runs with two workers, one of which may lose an engine.
SPECIFICATION FairSpec
CONSTANTS
  NWorkers = 2
  Pairs <- MCPairs
  Winners = {"engine", "draw"}
  MaxFaults = 1
  Modes = {"estimate", "sprt", "spsa"}
  MaxGames = 6
  LlrVerdict <- MCVerdict
  MinStable = 3
  NIters = 2
  PairsPerIter = 2
INVARIANTS
  TallyIsTrue
  PairsAreWhole
  StepsDoNotMix
PROPERTIES
  FirstCrossingDecides
  RunEnds

