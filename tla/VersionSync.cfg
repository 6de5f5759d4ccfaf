CONSTANTS
  Files = {f1, f2}
  NoFile = none
  MaxEdits = 2
  MaxFaults = 2
SPECIFICATION Spec
INVARIANT TypeOK
INVARIANT EditsKept
INVARIANT Resumable
INVARIANT BuiltAsReceipted
INVARIANT CleanTarget
CHECK_DEADLOCK FALSE
