CONSTANTS
  Jobs = {j1, j2}
  Other = other
  Missing = missing
  MaxEdits = 1
SPECIFICATION Spec
INVARIANT TypeOK
INVARIANT OneRevision
INVARIANT AllOrNothing
INVARIANT StagedWhole
PROPERTY NoClobber
CHECK_DEADLOCK FALSE
