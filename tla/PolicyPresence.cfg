SPECIFICATION MCSpec
CONSTANTS
  U64MAX = 100
  Peers <- MCSlots
  MaxSeq = 2
  Slots <- MCSlots
  Policies <- MCPolicies
  Disk <- MCDisk
  Grace = 2
  MaxNow = 4
  MaxJoins = 4
  MaxTrail = 4
  MaxAsks = 2
  MaxRestarts = 1
INVARIANTS
  PresenceConsistent
  OverrideEndsAtFirstAck
  ConsentStands
  TakeIsJustified
  GraceFromStampedLoss
  EvaluationSound
  AnswersAreTrue
  LineageTruthful
CHECK_DEADLOCK FALSE
