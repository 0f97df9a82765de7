SPECIFICATION Spec
CONSTANTS
  t1 = t1
  t2 = t2
  c1 = c1
  k1 = k1
  k2 = k2
  Withdrawals <- OneTransfer
  Amount <- OneAmount
  Courses <- Earned
  Price <- Prices
  Adjustments <- NoKeys
  AdjustBy <- NoAdjustment
  MaxRetries = 1
  Faults = {}
INVARIANTS
  ReversalRefunds
CHECK_DEADLOCK FALSE
