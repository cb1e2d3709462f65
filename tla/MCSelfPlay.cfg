\* A campaign that is killed, fails, is resumed and is extended, and killed
\* again while it is being extended.
SPECIFICATION FairSpec
CONSTANTS
  NGames = 3
  Workers = {w1, w2}
  Targets = {1, 3}
  Caps = {1, 2}
  Survivors <- MCSurvivors
  Fens = {"a", "b", "c", "d"}
  None = None
  Torn = Torn
  MaxStarts = 3
  MaxFaults = 1
INVARIANTS
  LaneIsCanonical
  EachGameHasOnePlace
PROPERTIES
  RunEnds
