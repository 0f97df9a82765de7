SPECIFICATION Spec
CONSTANTS
  w1 = w1
  w2 = w2
  Workers <- TwoWorkers
  NLessons = 1
  NRuns = 2
  MaxAttempts = 1
  Quote = 2
  Budgets = {3}
  Fixes = {"REVOICE"}
  MaxEdits = 1
  MaxMessages = 2
  MaxCrashes = 1
  MaxBill = 2
  Faults = {"crash", "quality"}
SYMMETRY Symmetry
INVARIANTS
  TypeOK
  OneWorkerPerRun
  
  
