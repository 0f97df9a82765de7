SPECIFICATION FairSpec
CONSTANTS
  w1 = w1
  w2 = w2
  Workers <- TwoWorkers
  NLessons = 1
  NRuns = 1
  MaxAttempts = 2
  Quote = 2
  Budgets = {1, 3}
  Fixes = {"REVOICE"}
  MaxEdits = 1
  MaxMessages = 1
  MaxCrashes = 2
  MaxBill = 3
  Faults = {"provider", "quality", "crash", "broker"}
INVARIANTS
  SpentIsSumOfCosts
PROPERTIES
  RunSettles
