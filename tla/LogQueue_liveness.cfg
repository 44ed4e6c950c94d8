CONSTANTS
  a = a
  b = b
  s = s
  f = f
  Sentinel = Sentinel
  Records <- MCRecords
  SinkRecords <- MCSinkRecords
  Flushes = {}
  Settings <- AllSettings
  MaxSize = 1
  MaxTeardowns = 2
SPECIFICATION FairSpec
PROPERTIES
  CallersReturn
  QueuedIsSettled
CHECK_DEADLOCK FALSE
