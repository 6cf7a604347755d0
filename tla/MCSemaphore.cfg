CONSTANTS
  Tasks = {t1, t2, t3, t4}
  Max = 2
SPECIFICATION FairSpec
INVARIANTS
  NoLostWakeup
  BlockedInOnePlace
PROPERTIES
  ImplementsCountingSemaphore
CHECK_DEADLOCK FALSE
