\* A fetch that is killed in an append, and repeated.
SPECIFICATION Spec
CONSTANTS
  NRaw = 4
  Parsable = {1, 3, 4}
  recs <- MCRecordsOf
  Survivors <- MCSurvivors
  Fens = {"a", "b", "c", "d"}
  BadLines = {None}
  Codecs = {"zst"}
  Targets = {9}
  Unbounded = 9
  max_noprogress_resumes = 1
  Preflights = {2}
  Buffer = 2
  None = None
  Torn = Torn
  MaxStarts = 2
  MaxAppendFaults = 0
INVARIANTS
  NothingBuried
