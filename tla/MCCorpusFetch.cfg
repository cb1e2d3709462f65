\* A dump of four raw games, over connections that fail in every way, by
\* commands that are killed, repeated and extended.
SPECIFICATION FairSpec
CONSTANTS
  NRaw = 4
  Parsable = {1, 3, 4}
  recs <- MCRecordsOf
  Survivors <- MCSurvivors
  Fens = {"a", "b", "c", "d"}
  BadLines = {3, None}
  Codecs = {"zst", "zip"}
  Targets = {1, 3, 9}
  Unbounded = 9
  max_noprogress_resumes = 1
  Preflights = {2, 5}
  Buffer = 2
  None = None
  Torn = Torn
  MaxStarts = 3
  MaxAppendFaults = 1
INVARIANTS
  FetchedLaneIsCanonical
  DrainedMeansDrained
PROPERTIES
  FetchEnds
