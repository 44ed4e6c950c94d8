CONSTANTS
  a = a
  b = b
  d = d
  e = e
  None = None
  Apps = {a, b}
  Engines = {d, e}
  Configs <- TwoPlain
  MaxStarts = 2
SPECIFICATION Spec
INVARIANTS
  EachFamilyOnce
CHECK_DEADLOCK FALSE
