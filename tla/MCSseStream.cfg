CONSTANTS
  MaxLen = 2
  MaxSeq = 5
  Limit = 2
  MaxDrops = 2
  Clients = {"client"}
  TypeOf <- MCTypeOf
SPECIFICATION Spec
INVARIANTS TypeOK NoSilentGap NoLostWakeup
PROPERTIES ShutdownCompletes CatchesUp
CHECK_DEADLOCK FALSE
