CONSTANTS
  r1 = r1
  r2 = r2
  r3 = r3
  b1 = b1
  Runs = {r1, r2}
  Bases = {b1}
  Requests <- AllRequests
  Promotion = "promote-bytes"
  PolicyFloor = 1
  MaxBuild = 3
  MaxPlans = 2
  MaxAttempts = 2
  Serialized = TRUE
  NoPlan = NoPlan
SPECIFICATION Spec
INVARIANT MissingLedgerHasHistory
CHECK_DEADLOCK FALSE
