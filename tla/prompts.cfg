SPECIFICATION SharedSpec
CONSTANTS
  None = None
  Callers = {c1, c2, c3}
  Versions = {1, 2}
  Texts = {t1, t2}
  Policies = {"keep_first", "update_unused", "error"}
  Exclusive = {"update_unused"}
  MaxCalls = 4
  Threads = {h1, h2}
  FileKeys = {k1}
  Ttl = 1
  MaxTime = 2
  MaxGets = 3
  MaxEdits = 2
  MaxClears = 1
  n1 = n1
  n2 = n2
  n3 = n3
  q1 = q1
  q2 = q2
  Clients = {n1, n2, n3}
  HostOf <- HostOfClient
  MaxOps = 4
  MaxSwitches = 1
  Writers = {w1, w2}
  Owned = Owned
  Default = Default
  ConfigScopes <- MCScopes
  Keyed <- MCKeyed
  ConfigColumns = {a, b}
  MaxVersions = 3
  TableColumns = {"a", "b"}
  UniqueKeys = {{"a", "b"}}
  Stored = {v1, v2}
  Bad = Bad
  MaxUpserts = 3
  Savers = {sa, sb}
  Labels = {l1}
  MaxPath = 3
  Bodies = {1, 2}
  Near <- NearPaths
  Alike <- Likeness
  Threshold = 8
  MaxSaves = 2
  MaxOutputRuns = 2
SYMMETRY Interchangeable
CHECK_DEADLOCK FALSE
INVARIANTS CitesWhatIsThere ReloadsInStep AckedWrites Lineage SameOnEveryDialect BaselinesAreWhole
PROPERTIES CitedTextFrozen
