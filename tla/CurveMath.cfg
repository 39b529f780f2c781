SPECIFICATION LawsSpec
CONSTANTS
  Scale = 1000
  MaxExpX = 4605
  ExpNegInt <- MCExpNegInt
  Rounds = 10
  CurveS = 500
  CurveK = 21000
  MaxBuySol = 1200
  MaxArgument = 4800
  Tolerance = 3
  Disorder = 3
CHECK_DEADLOCK FALSE
INVARIANTS
  BisectionInverts
  NearlyDecreasing
  MintIsCovered
