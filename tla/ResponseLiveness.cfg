SPECIFICATION MCFairSpec
CONSTANTS
  U64MAX = 9
  Slots = {1}
  Replicas = {1}
  GateJoins = 0
  SlotsLog = 0
  ChangeBytes = {"disk"}
  Start <- MCFreshStart
  DegradedAcks = FALSE
  MaxLog = 3
  MaxJoins = 0
  Conns <- MCConns
  Cap = 1
  RingRoom = 1
  EarlyRoom = 1
  MaxBatch = 2
  Kinds = {"write", "refused"}
  Loads <- MCLightLoads
PROPERTIES WaitEnds EverythingSettles
CHECK_DEADLOCK FALSE
