CONSTANTS
  FailureThreshold = 4
  Recovery = 4
  KeepTotals = FALSE
  MaxEvents = 0
  Starts = 2
  Half = 1
SPECIFICATION MCSpec
INVARIANTS
  OneReportPerCallback
PROPERTIES
  CooldownIsServed
  OpensOnThreshold
  RecoversOnceRepaired
  LastingBlockIsReported
  StoppedThreadsEnd
CHECK_DEADLOCK FALSE
