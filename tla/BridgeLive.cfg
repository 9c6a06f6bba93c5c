CONSTANTS
  None = None
  MaxLen = 2
  MaxSeq = 3
  Limit = 2
  QueueMax = 2
  MaxFaults = 2
  MaxWorlds = 1
  SignalInRewind = FALSE
SPECIFICATION Spec
INVARIANTS FailuresResent
CHECK_DEADLOCK FALSE
