CONSTANTS
  Duration = 2
  CollectFor = 3
  MinSamples = 3
  Gap = 2
  ZeroLimit = 1
  RestoreAfter = 1
  ProbeDeadline = 4
  ReconnectCount = 1
  QueueSize = 1
  MaxClock = 5
  Disturbances = {"pipe", "signal", "lateSignal"}
SPECIFICATION Spec
CHECK_DEADLOCK FALSE
INVARIANT MeterRestored
