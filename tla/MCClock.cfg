CONSTANTS
  Tasks = {t1, t2}
  Durations = {0, 2, 3}
  Gap = 2
  BootTime = 3
  MaxTime = 7
SPECIFICATION FairSpec
INVARIANTS
  NoCallbackLate
  CallbackWakesSleeper
PROPERTIES
  EarlyByAtMostOneGap
  
  BusySleepReturns
CHECK_DEADLOCK FALSE
