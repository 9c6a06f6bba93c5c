CONSTANTS
  Trips = {"t1", "t2"}
  None = None
  Forever = 99
  Landings <- MCLandings
  MaxBatches = 2
  MaxSource = 2
SPECIFICATION Spec
INVARIANTS TypeOK FctTripsComplete HistoryTrue ServingWhole
PROPERTIES EventuallyShown
