SPECIFICATION ServerSpec
CONSTANTS
  MaxSeats = 3
  BuyIns <- OneChip
  Carries <- MCCarries
  MaxMoves = 1
  MaxSeq = 1
  MaxHands = 2
PROPERTIES FinishedHandIsFollowedUp
CHECK_DEADLOCK FALSE
