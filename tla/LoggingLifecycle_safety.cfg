CONSTANTS
  None = None
  MaxSetups = 2
  MaxShutdowns = 1
  MaxChanges = 1
SPECIFICATION Spec
INVARIANTS
  OneWriterWithOutputs
  AttachedIsServed
  StatsAreOfTheQueue
  LevelsAgree
CHECK_DEADLOCK FALSE
