SPECIFICATION Spec
CONSTANTS
  w1 = w1
  w2 = w2
  Wallets = {w1, w2}
  Holder = w1
  Nobody = Nobody
  Quantum = 2
  BuyAmounts = {2}
  Amounts = {3, 5}
  Recipients = {w2}
  Bought = {3}
  MaxGeneration = 5
  MaxMoves = 2
  MaxSwitches = 1
CHECK_DEADLOCK FALSE
INVARIANTS
  SettlesOwnReceipts
  FreshPlanAccepted
  SuccessMeansLanded
PROPERTIES
  LandsAsPreviewed
  OperationsEnd
