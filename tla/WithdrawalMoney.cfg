SPECIFICATION Spec
CONSTANTS
  t1 = t1
  t2 = t2
  c1 = c1
  k1 = k1
  k2 = k2
  Withdrawals <- Transfers
  Amount <- Amounts
  Courses <- Earned
  Price <- Prices
  Adjustments <- Keys
  AdjustBy <- AdjustedBy
  MaxRetries = 2
  Faults = {"network", "error", "webhook", "crash", "broker", "early"}
INVARIANTS
  TypeOK
  
  BalancesAgree
  RequestAgrees
  
  PaidNotRefunded
  ProcessedWasPaid
  ProcessorAgrees
PROPERTIES
  TransferIsFinal
  KeepsPayout
CHECK_DEADLOCK FALSE
