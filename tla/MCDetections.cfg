CONSTANTS
  TripIds = {"a", "b"}
  Reports = {"r"}
  StartedAt <- MCStartedAt
  EndedAt <- MCEndedAt
  ReportedAt <- MCReportedAt
  Docks <- MCDocks
  Bikes <- MCBikes
  Forever = 99
  MaxTrip = 2
  JudgeAfter = 2
  MaxHits = 2
SPECIFICATION DetectionsSpec
INVARIANTS DetectionsTypeOK Precise NoneOverlooked
CHECK_DEADLOCK FALSE
