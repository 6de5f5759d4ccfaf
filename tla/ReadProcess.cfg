CONSTANTS
  Limit = 2
  Capacity = 1
  MaxBytes = 4
SPECIFICATION Spec
INVARIANT TypeOK
INVARIANT CompleteOrNothing
PROPERTY Ends
CHECK_DEADLOCK FALSE
