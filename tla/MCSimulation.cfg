CONSTANTS
  StepLen = 2
  MaxSteps = 2
  Speeds = {1, 2}
  DefaultSpeed = 1
  MaxNow = 6
  MaxElapsed = 2
  MaxAdmin = 2
  MaxStops = 2
  MaxWorlds = 2
SPECIFICATION Spec
INVARIANTS TypeOK ReplayIdentical
PROPERTIES TimeHolds EngineCatchesUp
CHECK_DEADLOCK FALSE
