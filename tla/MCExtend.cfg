\* A finished run is repeated, then extended.
SPECIFICATION Spec
CONSTANTS
  NGames = 3
  Workers = {w1}
  Targets = {1, 3}
  Caps = {}
  Survivors <- MCSurvivors
  Fens = {"a", "b", "c", "d"}
  None = None
  Torn = Torn
  MaxStarts = 3
  MaxFaults = 0
INVARIANTS
  ExtendIsExact
