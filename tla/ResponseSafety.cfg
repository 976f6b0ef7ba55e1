SPECIFICATION MCSpec
CONSTANTS
  U64MAX = 9
  Slots = {1, 2}
  Replicas = {1, 2}
  GateJoins = 1
  SlotsLog = 1
  ChangeBytes = {"disk", "two-disks"}
  Start <- MCStart
  DegradedAcks = TRUE
  MaxLog = 2
  MaxJoins = 2
  Conns <- MCConns
  Cap = 1
  RingRoom = 1
  EarlyRoom = 1
  MaxBatch = 2
  Kinds = {"write", "refused"}
  Loads <- MCLoads
INVARIANTS TypeOK CachedIsDurable ReplyBacked ReplyGoverned ChangeWitnessed
  RepliesReachClients ShedStaysShed ConnectionsAccounted
CHECK_DEADLOCK FALSE
