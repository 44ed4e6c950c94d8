CONSTANTS
  a = a
  b = b
  s = s
  f = f
  Sentinel = Sentinel
  Records <- MCRecords
  SinkRecords <- MCSinkRecords
  Flushes <- MCFlushes
  Settings <- AllSettings
  MaxSize = 2
  MaxTeardowns = 2
SPECIFICATION Spec
SYMMETRY Symmetry
INVARIANTS
  SentinelReachesListener
  OutputsOutliveListener
  StopDrains
  FlushedMeansSettled
  DropsAreCounted
PROPERTIES
  ImplementsLossyLog
CHECK_DEADLOCK FALSE
