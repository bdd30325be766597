SPECIFICATION BackgroundSpec
CONSTANTS
  Sessions = {s1, s2}
  Scopes = {a, b}
  None = None
  ScanLimit = 3
  Serial = TRUE
  MaxTick = 1
  MaxCancels = 1
  MaxCrashes = 1
  Items = 3
  Widths = {0, 1, 2}
  MaxFails = 2
INVARIANTS OneLivePerScope
PROPERTIES   SubmittedSettles BatchSettles
CHECK_DEADLOCK FALSE
