SPECIFICATION MCSpec
CONSTANTS
  Levels = {10, 30, 40}
  Warning = 30
  Ratios = {half, all}
  Tokens = {secret, wrong}
  Absent = Absent
  Invalid = Invalid
  Requests = {r1, r2}
  Databases = {"db"}
  Statements = {s, t}
  MinRepeats = 2
  MaxReported = 1
  MaxStatements = 1
  Interval = 2
  MaxTime = 2
  None = None
  Blank = Blank
  Fresh = Fresh
  Unset = Unset
  NoList = NoList
  ValidIds <- SmallValidIds
  Secret <- SmallSecret
  Texts <- SmallTexts
  Arrivals <- SmallArrivals
  Environments <- SmallEnvironments
  Logged <- SmallLogged
  Normal <- SmallNormal
  MaxDepth <- SmallMaxDepth
  Data <- SmallData
  Nested <- SmallNested
INVARIANTS
  OnlyTrustedHopsCount
  RedactedByPath
  ExplicitWins
  FaultsStayLocal
  AppliedAsAWhole
  TellsOnce
SYMMETRY Interchangeable
CHECK_DEADLOCK FALSE
