CONSTANTS
  r1 = r1
  r2 = r2
  r3 = r3
  b1 = b1
  Runs = {r1, r2}
  Bases = {b1}
  Requests <- AllRequests
  Promotion = "promote-bytes"
  PolicyFloor = 1
  MaxBuild = 3
  MaxPlans = 2
  MaxAttempts = 2
  Serialized = FALSE
  NoPlan = NoPlan
SPECIFICATION Spec
INVARIANT TypeOK
INVARIANT ReservationsUnique
INVARIANT IssuedDurable
INVARIANT ConsumedBeforeTag
INVARIANT NumberBacksOneTag
INVARIANT CandidateTagNeverReused
PROPERTY ImplementsLedger
CHECK_DEADLOCK FALSE
