SPECIFICATION Spec
CONSTANTS
  w1 = w1
  w2 = w2
  Wallets = {w1}
  Nobody = Nobody
  Quantum = 2500
  MaxClaims = 2
  MaxGeneration = 2
  Balances <- MCAmounts
  TokenAmounts <- MCAmounts
  Scale = 1000
  MaxExpX = 4605
  ExpNegInt <- MCExpNegInt
  Rounds = 10
  CurveS = 500
  CurveK = 21000
  MaxBuySol = 1200
  Admins = {a1}
  Deployer = a1
  NoAdmin = NoAdmin
  SolAmounts = {160}
  Portions = {1}
  VaultRent = 1
  LaunchFee = 2
  RoundingSlack = 3
  MaxGifts = 0
  MaxSlot = 3
  MaxTreasury = 4
  MoveAmounts = {2500}
  MaxSteps = 3
  MaxBurned = 2500
CHECK_DEADLOCK FALSE
INVARIANTS
  ReceiptsBacked
  SupplyAgrees
  SoulsStaySound
  CurveStaysSound
PROPERTIES
  SettlementMovesTokens
  CommittedReceiptsAreFinal
  ImplementsBoundUnits
