CONSTANTS
  Duration = 2
  CollectFor = 3
  MinSamples = 3
  Gap = 2
  ZeroLimit = 1
  RestoreAfter = 1
  ProbeDeadline = 3
  ReconnectCount = 1
  QueueSize = 1
  MaxClock = 4
  Disturbances = {"pipe", "signal"}
SPECIFICATION Spec
INVARIANT TypeOK
INVARIANT JournaledStop
PROPERTY ImplementsCustody
PROPERTY Termination
CHECK_DEADLOCK FALSE
