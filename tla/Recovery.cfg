SPECIFICATION Spec
CONSTANTS
  Genesis = 1
  MaxUnsynced = 2
  MaxEntries = 5
  MaxFiles = 3
  MaxOps = 1
INVARIANTS RefusedOnlyUnheaded ReplayFaithful
PROPERTIES DurableForGood
CHECK_DEADLOCK FALSE
