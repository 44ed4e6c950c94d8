CONSTANTS
  a = a
  b = b
  d = d
  e = e
  None = None
  Apps = {a, b}
  Engines = {d, e}
  Configs <- MCConfigs
  MaxStarts = 2
SPECIFICATION Spec
SYMMETRY Symmetry
INVARIANTS
  SharedOnce
  OneWatchdog
  LastWordsLeave
  HiddenIsExcluded
CHECK_DEADLOCK FALSE
