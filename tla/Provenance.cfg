SPECIFICATION Spec
CONSTANTS
  Kinds = {"trade", "claim", "failed"}
  Targets = {1,2}
  PageLimit = 2
  ScanCap = 6
  MaxTransactions = 3
  Concurrency = 2
  Window = 1
  MaxLength = 4
  MaxVisits = 2
CHECK_DEADLOCK FALSE
INVARIANTS SearchIsComplete WithinBudgets FailuresAreMarked
PROPERTIES HydrationEnds
