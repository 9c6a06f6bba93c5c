CONSTANTS
  p1 = p1
  p2 = p2
  Partitions <- MCPartitions
  None = None
  MaxPer = 2
  MaxOffset <- MCMaxOffset
  MaxGenerations = 2
  MaxFaults = 1
SPECIFICATION Spec
INVARIANTS TypeOK LandedExactly NoCollision ShownIsLanded
PROPERTIES LandsExactlyOnce EventuallyLanded
CHECK_DEADLOCK FALSE
