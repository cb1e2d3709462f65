SPECIFICATION Spec
CONSTANTS
  PieceSquare <- MCPieceSquare
  Weights <- MCWeights
  TunedCore <- MCCore
  ScoredLine = 1
  HashSlots = 2
  PawnSlot <- MCPawnSlot
  Games <- MCGames
  MaxLine <- MCMaxLine
INVARIANTS
  GeneratesLegalMoves
  IsWhatItsFenSays
  SeeIsTheExchange
  EvaluationIsFair
  CacheIsTransparent
  TunedIsPlayed
PROPERTIES
  UnmakeRestores
CHECK_DEADLOCK FALSE
