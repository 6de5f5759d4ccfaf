CONSTANTS
  Payload = {receipt, package}
  Receipt = receipt
  Manifest = manifest
  Stray = stray
  Wait = 2
  MaxEdits = 2
  Pages = 2
  Attempts = 3
  MaxChanges = 2
  Limit = 2
  Capacity = 1
  MaxBytes = 4
  Setups = 1
  Replays = 2
  Targets = 2
SPECIFICATION PartSpec
INVARIANT AcceptsGenuine
INVARIANT AcceptsUnrevoked
INVARIANT ReadyInTime
INVARIANT PartTypeOK
INVARIANT ReadsWhole
INVARIANT CampaignSound
PROPERTY Ends
CHECK_DEADLOCK FALSE
