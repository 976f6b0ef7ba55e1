SPECIFICATION FairSpec
CONSTANTS
  Roles = {"replica"}
  MaxSlots = 2
  MaxBatch = 2
  RingDepth = 1
  MaxFail = 1
PROPERTIES MarksSettle ShutdownCompletes
CHECK_DEADLOCK FALSE
