SPECIFICATION Spec
CONSTANTS
  Kinds = {"trade", "other", "claim", "failed"}
  Targets = {2}
  PageLimit = 2
  ScanCap = 7
  MaxTransactions = 4
  Concurrency = 2
  Window = 1
  MaxLength = 5
  MaxVisits = 2
CHECK_DEADLOCK FALSE
INVARIANTS ShowsOwnTrade
