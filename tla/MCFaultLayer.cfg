CONSTANTS
  Stations = {"s1"}
  None = None
  MaxEvents = 3
  MaxFaults = 2
  MaxDelay = 1
  MaxDuration = 2
SPECIFICATION FaultSpec
INVARIANTS FaultTypeOK EmittedAsLogged
PROPERTIES EventuallyEmitted
CHECK_DEADLOCK FALSE
