SPECIFICATION Spec
CONSTANTS
  Setups <- BigAnteSetups
  Amounts <- MCAmounts
  Ranks <- MCRanks
INVARIANTS ChipConservation
