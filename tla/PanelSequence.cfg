SPECIFICATION Spec
CONSTANTS
  w1 = w1
  w2 = w2
  Wallets = {w1, w2}
  Holder = w1
  Nobody = Nobody
  Quantum = 2
  BuyAmounts = {2}
  Amounts = {2, 3}
  Recipients = {w2}
  Bought = {1}
  MaxGeneration = 3
  MaxMoves = 2
  MaxSwitches = 0
CHECK_DEADLOCK FALSE
INVARIANT
  QualifyingBuyIssues
