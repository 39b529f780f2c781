SPECIFICATION Spec
CONSTANTS
  w1 = w1
  w2 = w2
  Wallets = {w1, w2}
  Nobody = Nobody
  Quantum = 2
  MaxClaims = 3
  MaxGeneration = 3
  Balances <- MCBalances
  TokenAmounts <- MCTokenAmounts
SYMMETRY MCSymmetry
INVARIANTS
  ReceiptLadder
  ClaimedFromBuy
  OneEventPerGeneration
  RegistryTallies
PROPERTIES
  ReceiptsAreFinal
