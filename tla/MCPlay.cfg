SPECIFICATION PlaySpec
CONSTANTS
  Setups <- MCSetups
  Amounts <- MCAmounts
  Ranks <- MCRanks
  MaxSeats = 3
  BuyIns <- OneChip
  Carries <- MCCarries
  MaxMoves = 2
  MaxSeq = 1
  MaxHands = 2
INVARIANTS TypeOK ChipConservation ActedSeatsHaveMatched TurnIsLive LimitStreetIsCapped
  StakeBoundsWinnings BestHandCollects UncalledBetReturns OddChipsGoLeft
  ScriptsAreHeard  BetsReplay ServerTypeOK TimerIffHand
PROPERTIES RoundEndsMatched HandMovesOn KeepsMoneyPromise
  OnlyJoinsBringChips HandIsNotDealtOver ButtonMovesOn RetryMovesNothing HandsEnd
