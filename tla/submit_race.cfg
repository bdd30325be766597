SPECIFICATION Spec
CONSTANTS
  Sessions = {s1, s2}
  Scopes = {a}
  None = None
  ScanLimit = 3
  Serial = FALSE
  MaxTick = 1
  MaxCancels = 0
  MaxCrashes = 0
PROPERTIES CreatesOnlyWhenFree
CHECK_DEADLOCK FALSE
