CONSTANTS
  Setups = 1
  Replays = 2
  Targets = 2
SPECIFICATION Spec
INVARIANT TypeOK
INVARIANT CampaignSound
PROPERTY Ends
CHECK_DEADLOCK FALSE
