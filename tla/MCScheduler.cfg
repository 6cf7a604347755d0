CONSTANTS
  MaxTasks = 3
  SchedLatency = 2
  MaxTime = 1
  Garbage <- MCGarbage
SPECIFICATION Spec
INVARIANTS
  GuardHandover
  ResumesOwnInterruptState
  NoNesting
  NoSwitchHoldingSpinLock
  AcknowledgedBeforeSwitch
  SchedulableExact
  
  RunningIsScheduled
PROPERTIES
  SwitchPicksLeast
  ImplementsLifecycle
