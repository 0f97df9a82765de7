SPECIFICATION FairSpec
CONSTANTS
  t1 = t1
  t2 = t2
  c1 = c1
  k1 = k1
  k2 = k2
  Withdrawals <- Transfers
  Amount <- Amounts
  Courses <- Earned
  Price <- Prices
  Adjustments <- NoKeys
  AdjustBy <- NoAdjustment
  MaxRetries = 1
  Faults = {"webhook", "ambiguous"}
INVARIANTS
  ProcessedEventSettles
PROPERTIES
  DecidedSettles
  StoredIsProcessed
CHECK_DEADLOCK FALSE
