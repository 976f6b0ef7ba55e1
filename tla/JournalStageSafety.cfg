SPECIFICATION Spec
CONSTANTS
  Roles <- MCRoles
  MaxSlots = 3
  MaxBatch = 3
  RingDepth = 2
  MaxFail = 1
INVARIANTS FramingFollowsPrimary DivergenceStops CursorsTruthful NothingDroppedOnStop
PROPERTIES DiskThreadSteps
CHECK_DEADLOCK FALSE
