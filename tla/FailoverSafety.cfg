SPECIFICATION Spec
CONSTANTS
  a = a
  b = b
  c = c
  Nodes <- MCNodes
  Genesis = a
  EscapeDrops = 1
  MaxLog = 2
  MaxTerm = 2
  MaxActs = 1
SYMMETRY Replicas
INVARIANTS SessionsOnLineage
PROPERTIES TruthfulDecisionHoldsAcked EpochsMintedInOrder
CHECK_DEADLOCK FALSE
