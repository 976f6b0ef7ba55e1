SPECIFICATION FairSpec
CONSTANTS
  MaxSeq = 3
  MaxBatch = 1
  MaxSegments = 2
  RingCapacity = 1
  MaxFaults = 1
PROPERTIES
  CaughtUpOrStranded
CHECK_DEADLOCK FALSE
