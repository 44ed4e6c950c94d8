CONSTANTS
  c1 = c1
  c2 = c2
  None = None
  Clients <- MCClients
  Layerings <- MCLayerings
  MaxCalls = 3
  MaxSpans = 2
  MaxFrames = 6
SPECIFICATION Spec
SYMMETRY MCSymmetry
INVARIANTS
  CountedOnce
  NativeCallsCounted
  NothingStaysBehind
CHECK_DEADLOCK FALSE
