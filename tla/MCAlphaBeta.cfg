SPECIFICATION Spec
CONSTANTS
  MATE = 30000
  MAX_PLY = 16
  INF = 30001
  RFP_MAX_DEPTH = 2
  RFP_MARGIN_PER_DEPTH = 100
  NMP_MIN_DEPTH = 3
  NMP_BASE_R = 2
  NMP_DEPTH_DIVISOR = 6
  FFP_MAX_DEPTH = 1
  FFP_MARGIN <- MCMargin
  LMR_MIN_DEPTH = 3
  LMR_MIN_QUIET_INDEX = 2
  LMR_HIGH_HISTORY_THRESHOLD = 4096
  LMR_RAW <- MCRaw
  SE_MIN_DEPTH = 3
  SE_MARGIN_PER_DEPTH = 1
  SE_TT_DEPTH_DELTA = 3
  PVS_RAMP_D0 = 2
  PVS_RAMP_BASE = 2
  PVS_RAMP_SLOPE = 1
  QS_SEE_RAMP_D0 = 2
  QS_SEE_RAMP_SLOPE = 16
  QS_SEE_RAMP_FLOOR <- MCFloor
  MAX_HISTORY = 16384
  Games <- MCGames
  Slots = 13
  MaxDepth = 4
  ASPIRATION_MIN_DEPTH = 3
  HalfWidths = {50}
  SearchMoves <- MCSearchMoves
  AbortAt <- MCAbortAt
  NeverAbort = 1000000
INVARIANTS
  ScoresAreProven
  PvIsPlayable
  LeavesNoTrace
CHECK_DEADLOCK FALSE
