SPECIFICATION Spec
CONSTANTS
  a = a
  b = b
  c = c
  Nodes <- MCNodes
  Genesis = a
  EscapeDrops = 1
  MaxLog = 2
  MaxTerm = 2
  MaxActs = 1
SYMMETRY Replicas
PROPERTIES DecisionHoldsAcked
CHECK_DEADLOCK FALSE
