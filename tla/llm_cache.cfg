SPECIFICATION MCSpec
CONSTANTS
  None = None
  Callers = {c1, c2}
  Refreshers = {}
  Keys = {k1}
  Options <- Validating
  Replies = {"good", "bad", "cut", "error"}
  OnRecordError = "warn"
  Limit = 2
  PeriodTicks = 2
  Ttl = 1
  PromptCommit = TRUE
  MaxTime = 2
  MaxSteps = 3
  MaxFaults = 1
  MaxInvalidations = 1
  AgentCallers = {ac}
  Backends = {ant, opr, cli}
  Kind <- KindOf
  RouterDocs <- MCRouterDocs
  ant = ant
  opr = opr
  cli = cli
  Envs = {None, cli}
  RequestEnds = {"ok", "status", "refused", "connect", "timeout", "flow"}
  MaxRoutes = 2
  MaxRouteEdits = 2
  MaxRegistrations = 1
  AnswerCallers = {tc}
  Ways <- MCWays
  Answers <- MCAnswers
  Pipelines <- Registrable
  Hooks <- UrlHooks
  Documents <- MCDocuments
  Today = Today
  u1 = u1
  u2 = u2
  MaxAnswers = 1
  MaxAnswerEdits = 2
  MaxDays = 2
  MaxScanFailures = 64
  MaxLen = 6
SYMMETRY CallerSymmetry
CHECK_DEADLOCK FALSE
INVARIANTS StepsAreRecorded CacheIsSound   RecordsAreTrue VerdictsAreActedOn RepliesAreRead
