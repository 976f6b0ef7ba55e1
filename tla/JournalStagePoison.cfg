SPECIFICATION FairSpec
CONSTANTS
  Roles = {"replica"}
  MaxSlots = 2
  MaxBatch = 2
  RingDepth = 1
  MaxFail = 0
PROPERTIES PoisonIsFatal
CHECK_DEADLOCK FALSE
