CONSTANTS
  Jobs = {j1, j2}
  Other = other
  Missing = missing
  PairEdits = 1
  Size = 4
  MaxList = 2
  MaxDepth = 1
  Limits = {3, 5}
  Files = {f1, f2}
  NoFile = none
  SyncEdits = 2
  MaxFaults = 2
  Targets = {package, fuzz}
  Required = {package}
  Fuzz = fuzz
  Payloads = {file, report}
  Report = report
  ReceiptList = 2
SPECIFICATION Spec
SYMMETRY Symmetric
INVARIANT TypeOK
INVARIANT OneRevision
INVARIANT WholePairs
INVARIANT WalkExact
INVARIANT EditsKept
INVARIANT FailsClean
INVARIANT BuiltAsReceipted
INVARIANT CoverageExact
PROPERTY NoClobber
CHECK_DEADLOCK FALSE
