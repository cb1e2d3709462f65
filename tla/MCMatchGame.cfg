\* The worker of a match between two engine processes.
SPECIFICATION FairSpec
CONSTANTS
  Scenarios <- MCScenarios
  MaxPairs = 2
  Graph <- MCGraph
  Capacity = 4
  PipeSize = 2
  WATCHDOG = 3
  SUSPEND_SLACK = 1
  HARNESS_OVERHEAD = 1
  MaxElapsed = 4
  FIFTY_MOVES = 9
  RESIGN_MOVECOUNT = 2
  RESIGN_SCORE = 6
  DRAW_MOVENUMBER = 3
  DRAW_MOVECOUNT = 2
  DRAW_SCORE = 2
INVARIANTS
  AnswersItsGo
  ClocksAreTrue
PROPERTIES
  VerdictIsEarned
  HungIsHung
  ImplementsPool
  WorkerEnds
