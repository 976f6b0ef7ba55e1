SPECIFICATION Spec
CONSTANTS
  MaxSeq = 4
  MaxBatch = 2
  MaxSegments = 3
  RingCapacity = 2
  MaxFaults = 1
INVARIANTS
  AcksWithinSent
  BoundaryAnnounced
  RingInOrder
PROPERTIES
  GateSilentOnceBridged
CHECK_DEADLOCK FALSE
