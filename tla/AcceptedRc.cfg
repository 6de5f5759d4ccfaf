CONSTANTS
  Payload = {receipt, package}
  Receipt = receipt
  Manifest = manifest
  Stray = stray
  Wait = 2
  MaxEdits = 2
SPECIFICATION Spec
INVARIANT TypeOK
INVARIANT AcceptsGenuine
INVARIANT AcceptsUnrevoked
INVARIANT ReadyInTime
PROPERTY Decides
CHECK_DEADLOCK FALSE
