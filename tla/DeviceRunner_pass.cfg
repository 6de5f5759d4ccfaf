CONSTANTS
  Duration = 2
  CollectFor = 4
  MinSamples = 3
  Gap = 2
  ZeroLimit = 1
  RestoreAfter = 1
  ProbeDeadline = 3
  ReconnectCount = 1
  QueueSize = 1
  MaxClock = 6
  Disturbances = {}
SPECIFICATION Spec
INVARIANT PassIsSound
CHECK_DEADLOCK FALSE
