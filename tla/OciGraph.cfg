CONSTANTS
  Size = 4
  MaxList = 2
  MaxDepth = 1
  Limits = {3, 5}
SPECIFICATION Spec
INVARIANT TypeOK
INVARIANT WalkExact
CHECK_DEADLOCK FALSE
