CONSTANTS
  Stations <- MCStations
  Bikes = {b1, b2, b3}
  None = None
  Capacity <- MCCapacity
  Near <- MCNear
  StepLen = 2
  MaxRide = 2
  AddedDocks = {2}
  MaxTrips = 2
  MaxExpansions = 1
SPECIFICATION Spec
INVARIANTS TypeOK FleetFits NoFalseStale BikeHistoryInOrder
PROPERTIES RidesEnd
CHECK_DEADLOCK FALSE
