SPECIFICATION MCSpec
CONSTANTS
  Capacity = 2
  N = 3
  After <- MCAfter
  MaxFills = 4
  QueueCapacity = 2
  MaxPushes = 5
  Words = {1, 2}
  Readers = {1, 2}
  MaxStores = 3
INVARIANTS LoadIsOneStore
PROPERTIES RingImplementsLog SpscImplementsLog BlockedPushEnds
CHECK_DEADLOCK FALSE
