SPECIFICATION HistorySpec
CONSTANTS
  Scale = 1000
  MaxExpX = 4605
  ExpNegInt <- MCExpNegInt
  Rounds = 10
  CurveS = 500
  CurveK = 21000
  MaxBuySol = 1200
  a1 = a1
  a2 = a2
  Admins = {a1, a2}
  Deployer = a1
  NoAdmin = NoAdmin
  SolAmounts = {37, 400, 1150, 1202}
  Portions = {1, 2, 5}
  VaultRent = 1
  LaunchFee = 2
  RoundingSlack = 3
  MaxGifts = 1
  MaxSlot = 7
  MaxTreasury = 4
CHECK_DEADLOCK FALSE
INVARIANTS
  VaultHoldsReserve
  ReserveCoversSupply
  OneTradePerSlot
PROPERTIES
  NoMintAfterDeprecation
