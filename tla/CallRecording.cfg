CONSTANTS
  request = request
  operation = operation
  query = query
  f1 = f1
  f2 = f2
  s1 = s1
  s2 = s2
  None = None
  Owners <- MCOwners
  Operations <- MCOperations
  Native = {query}
  CallOf <- MCCallOf
  Handles = {query}
  Attempts = {f1, f2}
  Spans = {s1, s2}
  SpanLimit = 1
  MaxManual = 1
SPECIFICATION Spec
SYMMETRY MCSymmetry
INVARIANTS
  InFlightIsExact
  ReportsAreFinal
  CoverageTellsOfHandles
PROPERTIES
  ImplementsLedger
CHECK_DEADLOCK FALSE
