SPECIFICATION ServerSpec
CONSTANTS
  MaxSeats = 3
  BuyIns <- OneChip
  Carries <- MCCarries
  MaxMoves = 2
  MaxSeq = 1
  MaxHands = 2
PROPERTIES RequestIdMovesOnce
CHECK_DEADLOCK FALSE
