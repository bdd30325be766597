SPECIFICATION WorkSpec
CONSTANTS
  r1 = r1
  r2 = r2
  r3 = r3
  p1 = p1
  p2 = p2
  None = None
  Runners = {r1, r2, r3}
  Procs = {p1, p2}
  ProcOf <- TwoAndOne
  NSteps = 2
  AutoTrack = TRUE
  MaxRuns = 3
  MaxTakeovers = 1
  MaxCrashes = 2
  Flags = {f1, f2}
  Stages = 3
  Granularity = 1
  MaxPipelineTime = 7
  MaxVersion = 3
  Fetchers = {w1, w2}
  Retries = 1
  MaxRedirects = 1
  Interval = 2
  RetryAfters = {None, 1, 9}
  Cap = 3
  Payloads <- ChunkSizes
  MaxBytes = 3
  MaxFetchTime = 6
  MaxFetches = 3
  u1 = u1
  u2 = u2
  u3 = u3
  n = n
  m = m
  Urls = {u1, u2, u3}
  FileNames = {n, m}
  FileOf <- TwoOfOneName
  Syntaxes = {"src", "SRC"}
  CheckpointEvery = 2
  MaxPasses = 3
  Checkers = {c1, c2}
  Ttl = 3
  NegativeTtl = 1
  MaxHours = 4
  MaxChecks = 3
  Readers = {d1, d2}
  Attempts = 3
  MaxReads = 3
CHECK_DEADLOCK FALSE
INVARIANTS RowsAreOwned ProgressIsTrue SkipsAreSound  KeepsItsProgress 
PROPERTIES StartsOnce
