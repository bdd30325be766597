SPECIFICATION Spec
CONSTANTS
  w1 = w1
  w2 = w2
  p1 = p1
  p2 = p2
  None = None
  NoRow = NoRow
  Workers = {w1, w2}
  Procs = {p1}
  ProcOf <- OnePool
  Clients = {c1}
  Priorities = {50}
  PurgeStatuses = {"succeeded", "failed", "canceled"}
  Lease = 1
  Retention = 1
  MaxJobs = 2
  MaxCancels = 1
  MaxRetries = 0
  MaxPurges = 0
  MaxMishaps = 1
  Timely = TRUE
INVARIANTS RunningIsExact
PROPERTIES CancelSticks
