SPECIFICATION Spec
CONSTANTS
  None = None
  Callers = {c1, c2}
  Refreshers = {f1}
  Keys = {k1}
  Options <- Uncached
  Replies = {"good"}
  OnRecordError = "warn"
  Limit = 1
  PeriodTicks = 2
  Ttl = 1
  PromptCommit = FALSE
  MaxTime = 2
  MaxSteps = 3
  MaxFaults = 0
  MaxInvalidations = 0
SYMMETRY CallerSymmetry
CHECK_DEADLOCK FALSE
INVARIANTS NothingLost
