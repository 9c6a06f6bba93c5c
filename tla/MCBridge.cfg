CONSTANTS
  None = None
  MaxLen = 2
  MaxSeq = 3
  Limit = 2
  QueueMax = 2
  MaxFaults = 2
  MaxWorlds = 2
  SignalInRewind = FALSE
SPECIFICATION Spec
INVARIANTS TypeOK Accounted
PROPERTIES CopiesAtLeastOnce EventuallySettled
CHECK_DEADLOCK FALSE
