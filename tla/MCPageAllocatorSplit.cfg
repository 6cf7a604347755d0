CONSTANTS
  BLOCK_ORDER_COUNT = 2
  MaxPage = 16
  Excluded = 4
  MemoryMaps <- MCMaps
SPECIFICATION Spec
INVARIANTS
  SplitsLargerBlock
CHECK_DEADLOCK FALSE
