SPECIFICATION MCSpec
CONSTANTS
  None = None
  Callers = {c1, c2}
  Refreshers = {f1, f2}
  Keys = {k1}
  Options <- Uncached
  Replies = {"good"}
  OnRecordError = "warn"
  Limit = 1
  PeriodTicks = 2
  Ttl = 1
  PromptCommit = TRUE
  MaxTime = 2
  MaxSteps = 3
  MaxFaults = 0
  MaxInvalidations = 0
  Procs = {p1, p2}
  Global = Global
  Scopes <- MCScopes
  Rank <- RankOf
  OfJob <- MCOfJob
  BudgetDocs <- MCBudgetDocs
  Guarded <- MCGuarded
  Spendings <- MCSpendings
  agentScope = agentScope
  kindScope = kindScope
  tagScope = tagScope
  DaysPerMonth = 2
  PurgeDays = 2
  MaxDay = 2
  MaxRuns = 2
  MaxSyncs = 2
  Pricers = {b1, b2}
  Sold <- MCSold
  Shipped <- MCShipped
  Listable = {"pre-mini", "new"}
  Prefixed <- MCPrefixed
  Prices = {1, 2}
  MaxPriceTime = 2
  MaxPriceEdits = 1
  MaxPriced = 2
  Golden <- MCGolden
  Compared <- MCCompared
  Flagged <- MCFlagged
  g1 = g1
  g2 = g2
  Scores = {0, 1, 2}
  Threshold = 2
  Payloads = {"dict", "list"}
  MaxReplayEdits = 2
SYMMETRY Interchangeable
CHECK_DEADLOCK FALSE
INVARIANTS NothingLost OvershootBounded CapsAreInForce ZeroIsWarnedOf ReportMatchesRows
PROPERTIES SpendIsCapped
