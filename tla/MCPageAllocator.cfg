CONSTANTS
  BLOCK_ORDER_COUNT = 2
  MaxPage = 16
  Excluded = 4
  MemoryMaps <- MCMaps
SPECIFICATION Spec
INVARIANTS
  PagesOwnedOnce
  BuddiesMerged
  LosesOnlyPairs
CHECK_DEADLOCK FALSE
