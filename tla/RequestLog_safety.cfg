CONSTANTS
  loop = loop
  worker = worker
  None = None
  Threads <- MCThreads
  HoldLimit = 2
  Detached = FALSE
  MaxRecords = 3
SPECIFICATION Spec
SYMMETRY MCSymmetry
INVARIANTS
  ObservedOnce
  KeptAsAWhole
  FailureTellsAll
  ReasonIsHonest
PROPERTIES
  ImplementsJournal
CHECK_DEADLOCK FALSE
