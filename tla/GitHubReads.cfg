CONSTANTS
  Pages = 2
  Attempts = 3
  MaxChanges = 2
SPECIFICATION Spec
INVARIANT TypeOK
INVARIANT WholeOrNothing
PROPERTY Ends
CHECK_DEADLOCK FALSE
