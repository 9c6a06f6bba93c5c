CONSTANTS
  Trips = {"long", "short", "later"}
  None = None
  StartedAt <- MCStartedAt
  EndedAt <- MCEndedAt
  Watermark = 2
  MaxDuration = 3
  WindowLen = 2
  MaxReads = 7
  MaxCrashes = 1
  Ttl = 1
  MaxTime = 4
  MaxCapacity = 2
SPECIFICATION Spec
INVARIANTS TypeOK NoFalseOrphan MissingExplained OverCapacityJudged
PROPERTIES OrphanReported
CHECK_DEADLOCK FALSE
