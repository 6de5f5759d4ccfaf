CONSTANTS
  r1 = r1
  r2 = r2
  r3 = r3
  b1 = b1
  Runs = {r1, r2, r3}
  Bases = {b1}
  Requests <- AllRequests
  Promotion = "promote-bytes"
  PolicyFloor = 1
  MaxBuild = 4
  MaxPlans = 3
  MaxAttempts = 2
  Serialized = TRUE
  NoPlan = NoPlan
SPECIFICATION Spec
PROPERTY NoDowngrade
PROPERTY CycleClosed
SYMMETRY RunSymmetry
CHECK_DEADLOCK FALSE
