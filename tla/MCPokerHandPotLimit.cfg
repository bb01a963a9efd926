SPECIFICATION Spec
CONSTANTS
  Setups <- PotLimitSetups
  Amounts <- LargeAmounts
  Ranks <- MCRanks
PROPERTIES PotLimitHolds
