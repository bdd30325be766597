# pf-core: a verification project

TLA+ models of [pf-core](../src/README.md) (`src/src/pf_core`), the TLC runs that check
them on small instances, and theorems about them that the TLA+ proof system checks for
every instance. pf-core is a library of services for applications that call language
models: a database-backed job queue, an LLM call stack (router, prompt registry,
response cache, budgets, run tracking, validation), clients for the providers, pipeline
helpers and utilities. File names below are relative to `src/src/pf_core/`.

Parse with `tlasany M.tla`, check with `tlc -config X.cfg M`, prove with `tlapm M.tla`.

## 1. The system

### 1.1 Components, their state and how they interact

| component | files | state it keeps | operations |
|---|---|---|---|
| job queue | `jobs/` | tables `jobs`, `job_steps`, `job_events`; `_RUNNING` (child processes) in each process | create, claim, renew, transition, cancel, retry, reclaim, purge; steps and events; worker pools; background submit |
| jobs CLI, dashboard | `cli/jobs.py`, `web/jobs_admin/` | none | commands on the queue |
| budgets | `budget/` | tables `llm_budgets`, `llm_budget_snapshots`, audit rows | check before a call, sync from config, refresh snapshots on a timer |
| LLM cache | `llm/cache/` | table of entries, hit counters | lookup, store, invalidate, record hit |
| LLM call stack | `llm/tracked.py`, `step.py`, `router.py`, `safe_apply.py`, `recording.py` | run rows, agent counters, reload caches of router and prompt files | resolve agent, check budget, look up cache, call with retries, record, fall back |
| prompt and run tracking | `llm/tracking/` | tables `llm_prompts`, `llm_runs`, `llm_batches` and others | resolve prompt version, begin/finish/fail a run, purge |
| validation | `llm/validate/`, `llm/parse.py` | none | rule pipeline, semantic checks with re-asks |
| provider clients | `clients/` | HTTP sessions, child processes | complete, with bounded retries and error classification |
| pipelines | `pipeline/`, `parallel.py` | run records, step caches, baselines | sequence, resume, cache cascade, parallel map, baseline diff |
| redis cache | `cache/redis.py` | connection, keys | get/set/delete with degraded mode |
| database layer | `db/` | engine, versioned configs, soft-deleted rows | transactions, upsert, versioned config, soft delete |
| fetch | `fetch/` | per-host state | fetch with retries |
| utilities | `utils/` | throttles, reload caches | many pure functions |
| web | `web/` | sessions, rate limits | app factory, health, pagination, admin |
| evaluation, pricing, export, parsers, guards, testing | same names | none or files | pure functions, reports, lint tools |

Interactions. A *worker process* claims a job from the table, runs it as a subprocess (or
inline under `Job`) and writes back through the same table; the child knows its job from
`PF_JOB_ID` and reports progress and LLM runs to the database. A *client* (CLI, web
process) cancels, retries, reclaims and purges through the same rows, and may signal the
child through a callback (`terminate_hook` -> `terminate_job`) if it lives in the same
process. A *tracked call* goes prompt file (reload cache) -> prompt registry (table) ->
budget check -> cache lookup -> client with retries -> run row -> cache store; the router
chooses agents and falls back from one to the next. Nothing but the database is shared
between processes, and nothing but a few dictionaries under locks between threads.

### 1.2 What is hard

* **SELECT, then UPDATE.** `transition`, `retry` and `_force_fail` check a status and then
  update `WHERE id = ...`; nothing locks the row in between.
* **Leases.** A claim is a timestamp; who is dead is decided by silence. The runner renews
  from a thread that waits for the child; anything that writes to the job renews too.
* **Crashes and restarts.** Runners die, their children survive, pools restart and sweep.
* **Two channels for one cancel**: the signal to the child and the status of the row.
* **Check-then-call**: budgets and the cache are consulted before a call that takes long.
* **Reload while in use**: configuration files are re-read by any thread at any time.
* **Retries and fallbacks** that must not record, charge or report twice.

`PROJECT.json` lists these at their lines under "hazards".

### 1.3 What makes each component correct

| component | properties |
|---|---|
| job queue | one runner per job; leases agree with their holders; a reporting job is not reclaimed; a cancel sticks; every job settles; the queue implements an abstract dispatcher |
| steps, submit | a succeeded step is not run again; progress counts each step once; one live job per scope; each submitter is told of its own job |
| budgets | a snapshot counts each run below its cutoff; a hard limit is overshot by at most the calls in flight; caps stay in force whatever happens to their file; a stopped call costs nothing |
| cache | a cached answer was given by a successful run for that input and is valid; hit counters are exact |
| call stack | one fitting row per call and per retry; attempts as tuned; backends in the declared order; verdicts stored with the run they judge; a plan applied only to what it was made from |
| prompt registry | every call has a row to cite; the text of a cited row never changes |
| pipelines, batches | what is skipped is what would be computed; every item and every failure of a batch is accounted for |
| shared files and keys | no configuration older than one already shown; an acknowledged write is not undone by an older one; versions descend from each other |
| fetching | requests keep to the rate, and end as the last reply says; a killed pass keeps its progress |

## 2. The project

| module | models | checked by | theorems |
|---|---|---|---|
| `JobTable`, `JobQueue`, `JobDispatch` | the queue, and what its users rely on (3) | `leases`, `cancels`, `dispatch`, `settles_cancel` | `JobQueueTheorems` |
| `JobSteps` | step history and resume (4) | `steps` | `LongWorkTheorems` |
| `JobSubmit` | background submission (5) | `submit`, `submit_race` | `BackgroundTheorems` |
| `LlmStep` | one LLM step: cache, budget gate, call, rows, snapshots (6) | `llm_cache`, `llm_budget`, `late_commit` | `LlmStepTheorems` |
| `PromptRegistry` | prompt rows and the runs that cite them (7) | `prompts`, `prompt_inplace` | `PromptRegistryTheorems` |
| `AgentCall` | the router, its fallback, and the clients' retries (8.1) | `llm_cache` | `LlmCallsTheorems` |
| `Validators`, `TrackedCall` | recorded calls, parsing, validation, safe apply (8.2) | `llm_cache` | `LlmCallsTheorems` |
| `JsonRecovery` | JSON found in, and salvaged from, a reply (8.3) | `llm_cache` | `LlmCallsTheorems` |
| `Budgets`, `CallPrices` | caps from file to verdict; projected prices (8.4) | `llm_budget` | `LlmSpendTheorems` |
| `EvalReplay` | golden runs replayed and scored (8.5) | `llm_budget` | `LlmSpendTheorems` |
| `ReloadCache`, `RedisCache` | a reloaded file; a key on a server that comes and goes (9.1) | `prompts` | `SharedTheorems` |
| `VersionedConfig`, `Upserts` | versioned rows; upserts on three dialects (9.2) | `prompts` | `SharedTheorems` |
| `Baselines` | baselines of a pipeline's output (9.3) | `prompts` | `SharedTheorems` |
| `Pipeline` | stages, snapshots and resume (10.1) | `steps` | `LongWorkTheorems` |
| `Fetching`, `Localize`, `Liveness`, `Articles` | the web: fetches, images, links, articles (10.2) | `steps` | `LongWorkTheorems` |
| `ParallelMap` | a batch over threads (10.3) | `submit` | `BackgroundTheorems` |

Where components interact through state, one module composes them: `JobQueue` the pools,
their children, the clients and the table; `LlmStep` cache, budget gate, call, record and
snapshot refresh; `TrackedCall` call, retry, validation and application (with the
operators of `Validators`); `Budgets` sync, guard, record and purge; `Fetching` workers,
throttle, hops and body. `JobQueue` is shown to implement `JobDispatch`.

Where they share nothing but the process, each has a module of its own, and one module
puts several into one run: `Shared` (for `MCShared`), `LongWork` (for `MCLongWork`), `LlmCalls`
(for `MCLlmCalls`), `LlmSpend` (for `MCLlmSpend`), `Background`. There a variable `part`,
chosen at the start, says which module steps; the others stay in their initial state (one fixed initial state where they have several).
The reachable states are the disjoint union of those of the parts, so such a run checks of
each part exactly what a run of its own would. The properties of a part are the module's
own, under the same name. A theorem about a part is one about the composition: the
specification of the composition implies that of each part (`EachPartRunsAlone`,
`WorkRunsAlone`, `EachSpendPartRunsAlone`). The assumptions on a part's constants are predicates in its
module (`FetchAssumption`, `DocAssumption`), which the composition ASSUMEs for the values it gives them.

A property is often a conjunction with one name, whose parts have names of their own in
the module: `StepsAreRecorded` is `OneRowPerStep /\ ClientErrorSurfaces`. Definitions marked
"Faulty variant" are what the next definition would be with a plausible mistake in the code:
with it in place the run it belongs to finds the property violated, so that each property
is known to depend on the code. They are not used otherwise.

| run | module | distinct states |
|---|---|---|
| `leases` | `MCJobQueue` | 971 thousand |
| `cancels` | `MCJobQueue` | 991 thousand |
| `dispatch` | `MCJobQueue` | 245 thousand |
| `steps` | `MCLongWork` | 2.0 million |
| `submit` | `Background` | 136 thousand |
| `llm_cache` | `MCLlmCalls` | 3.5 million |
| `llm_budget` | `MCLlmSpend` | 2.8 million |
| `prompts` | `MCShared` | 1.6 million |
| `settles_cancel`, `submit_race`, `late_commit`, `prompt_inplace` | `MCJobQueue`, `MCJobSubmit`, `MCLlmStep`, `MCPromptRegistry` | stop at a counterexample |

All pass without deadlock checking but the three of the queue and `settles_cancel`: the others
come to an end when their bounds are used up.

## 3. The job queue

### 3.1 Modules

`JobTable` is one row and what each SQL statement of `JobRepo` does to it: the registry's
statuses and transition table, then `Claim`, `Touch`, `Transitioned`, `ForceFailed`,
`Retried`, `Reclaimed` and the WHERE clauses `Claimable`, `Stale`, `Purgeable`.
A row keeps status, `claimed_by`, the age of `claimed_at`, the age of `finished_at` and
priority. Ages are in ticks and stop one past the longest window they are compared with
(`Lease` = `JOB_LEASE_SECONDS`, `Retention` = the age `purge` is asked for), which is
exact because the database only ever compares a timestamp with "now minus a window".

`JobQueue` is the table in use.

| state | code |
|---|---|
| `jobs`, `nextId` | table `jobs` and its autoincrement (created_at order is id order) |
| `worker[w]` | a thread in `workers._loop`: where it stands in `claim_next` / `run_subprocess_job` / `Job.__exit__`, the job, the verdict of the child's exit code, `held` of `_wait_renewing_lease` |
| `worker[w].silent` | not in the code: ticks since the thread last wrote to the table, to state the lease properties |
| `proc[p]` | the process of a pool: up, stop event set, down |
| `RUNNING[p]` | `_RUNNING`, with the thread in the place of its Popen |
| `orphans` | jobs with a child whose runner died |
| `client[c]` | a cancel or a retry between two statements |
| `count` | disturbances so far; only for the bounds |

| action | code |
|---|---|
| `ClaimSelect`, `ClaimUpdate` | the two statements of `claim_next` |
| `Enter`, `StartRead`, `StartWrite`, `Launch`, `Renew`, `ChildExit`, `CheckCanceled`, `FinishRead`, `FinishWrite` | `run_subprocess_job` line by line, with `Job.__enter__`, `JobRepo.transition`, `_wait_renewing_lease` |
| `FailRead`, `FailWrite`, `Raise` | `Job.__exit__` and `_force_fail`; an exception at any point |
| `StopWorkers`, `Exit`, `Crash`, `Restart` | `stop_workers`, the end of the loops, death of the process, `start_workers` with its sweep |
| `ChildReport`, `OrphanExit` | the child's own writes through the repository; its end |
| `Create`, `CancelRead/Write/Event`, `Terminate`, `RetryRead/Write`, `Reclaim`, `Purge` | `JobRepo` as called by the CLI and the dashboard |
| `Tick` | time |

Atomicity. A transaction that SELECTs and then UPDATEs is two steps: the code takes no row
lock and keeps no version column, and the isolation level is the driver's default (READ
COMMITTED on PostgreSQL; SQLite's driver runs the SELECT outside the write transaction).
The UPDATEs of one transaction up to its commit are one step. PostgreSQL's `now()` is the
start of the transaction; the model takes the time of the statement.

Abstracted: kinds (all workers take all kinds), inputs/outputs and their validation (a
failing validation is `Raise`), `started_at`, progress columns, error texts; events count
only through the lease they touch and the foreign key they need. Two orphans of one job
are one. `partial` is in the table and in the guards, but no subprocess run produces it.

`JobDispatch` is what users of the queue rely on, without leases, rows or time: submitted
jobs wait, one worker takes a job, only that worker settles it, a dropped job stays queued,
a settled one moves by retry or purge only.

### 3.2 Runs

All use `MCJobQueue`: workers `w1`, `w2` in one pool or two, one client, `Lease =
Retention = 1`, and bounds on the number of jobs created and of cancels, retries, purges
and mishaps (crash, stop, exception). These reach what matters: an age can be fresh, at
the window and past it; two jobs and two threads let one job change hands while its first
holder works on, or let a thread that lost its job take another; one mishap at any point
is a crash or an exception in every state of a runner. Two pools are needed for crash and
takeover, one pool of two threads for the shared `_RUNNING`. No state deadlocks: time
always passes.

| run | checks | shows |
|---|---|---|
| `leases` | `LeaseWellFormed`, `SingleHolder`, `WritesOwnRow`, `ReportingJobNeverReclaimed` | one runner per job, nobody writes on another's row, and a claimant that wrote within a lease is not reclaimed; timely holders, no retry |
| `cancels` | `RunningIsExact`, `CancelSticks` | `terminate_job` finds exactly the children that are waited for; a cancel made while the runner waits is never overwritten, by no path |
| `dispatch` | `ImplementsDispatch`, `JobSettles` | with a retry, crashes and a purge, and without cancels, the queue implements `JobDispatch`, and every created job settles, whatever crashed |
| `settles_cancel` | `JobSettles` **violated** | with one cancel and one crash a job may hang: `transition("running")`, checked before a cancel and written after it, leaves a running row without a claim, which no sweep finds once its worker is dead |

`Timely` says that a live holder writes, or gives the job up, before it has been silent for
a lease: it renews every quarter of one while it waits, and the other steps are single
statements. It is an assumption (a paused process breaks it), which
`NeverReclaimedWhileReporting` (3.3) does without. `SingleHolder` needs it, and needs that
nobody retries: a cancel followed by a retry puts the job back in the queue while the first
runner still waits for its child. `CancelSticks` names the states in which the code re-reads
the row before it writes; a transition that has already read it overwrites a cancel
(section 11), which is why `dispatch` has no cancels.

Fairness (`FairSpec`): each loop thread and each session carries on with what it began, a
child exits, a dead pool is restarted by its supervisor and a stopping one exits, time
passes; and `Reclaim` runs, as `docs/jobs.md` asks ("on a cadence"): the sweep of
`start_workers` alone is not enough, because a prompt restart sweeps before the lease has
expired. Claiming needs no strong fairness: an enabled claim stays enabled until somebody
takes the job.

### 3.3 Theorems

`JobQueueTheorems` begins with the table: every statement keeps a row's type and its lease
well formed. It proves, for any sets of workers, processes and clients, any
bounds, any lease:

* `TypeCorrect`: `Spec => []TypeOK`.
* `LeaseCorrect`: `Spec => []LeaseWellFormed`. It is inductive with `TypeOK`; the lemma
  `RowStep` says that a step applies at most one statement to each row, and the statements
  keep `LeaseOK`.
* `LeaseFollows`: `Spec => []LeaseFollowsHolder` (a claim is never older than the last write of the
  thread that has it; proved, and not the subject of a run), inductive with the two above:
  `FrameStep` lists what a step does to the frame of a holder, `ClaimKept` that no statement but
  `Claim` gives a row to a thread.
* `NeverReclaimedWhileReporting`: `Spec => ReportingJobNeverReclaimed`, from the last: a
  stale claim is older than a lease, so its holder's silence is.
* `OneRunner`: with `Timely` and `MaxRetries = 0`, `Spec => []SingleHolder`. `SingleHolder`
  is not inductive: a thread may claim a pending row whose holder forgot nothing but lost
  its claim. The invariant `OneRunnerInv` adds `HolderInv` (a holder is silent for at most
  a lease, and its row is claimed by it or not pending), the lease invariants, that no
  retry is on its way, and that rows not created yet do not exist (`IdsUnused`).
* `VerdictsAreOwn`: under the same assumptions `Spec => WritesOwnRow`.

* `CancelsAreFinal`: with `MaxRetries = 0`, `Spec => CancelSticks`. Once canceled while its
  runners wait or are about to re-read, a job is `Stuck`: the row is canceled if it is still
  there, and whoever holds the job is at a point from which the code only looks at the row and
  is refused; each statement of each thread keeps that.
* `RegistryIsExact`: under the same assumptions `Spec => []RunningIsExact`, so that `terminate_job`
  reaches the child it means. It is inductive with `OneRunnerInv`: an entry is made by the one
  holder of its job, which is also the one that removes it.
* `QueueImplementsDispatch`: with `Timely`, no cancels and no retries, and a purge of settled
  jobs only, `Spec => ImplementsDispatch`. The refinement mapping takes a job's taker to be
  the thread that holds it and its state from the row; `DispatchInv` is `OneRunnerInv` with
  two more parts: no client is between its statements (`QuietClients`), and a job that somebody
  holds is not settled yet (`HeldUnsettled`). Each action of `JobQueue` is shown to be a step of
  `JobDispatch` or a stutter; `StatesStep` says what each statement does to the status of a
  row. TLC's `dispatch` goes further on its instance: it allows a retry. With cancels
  the queue does not implement the dispatcher (section 11).

The assumptions are the named ASSUMEs on the constants (`None` is no worker and no number,
`NoRow` is no row, bounds are numbers, every worker has a process).

Only model-checked: `JobSettles`: liveness under fairness, and ENABLED in it, is out of the
prover's reach, as are induction over data and RECURSIVE operators, of which these modules
have none.

## 4. Steps, resume and progress: `JobSteps`

One job and the runners that open it. A runner works through a plan of `NSteps` named
steps inside a `Job` block; `Job.step` asks `find_step` whether the newest row of that
name succeeded and skips it if so, otherwise `start_step` inserts a row with the next
index and `finish_step` closes it and adds to the tally.

| state | code |
|---|---|
| `status` | `jobs.status`, as far as runs of this job need it |
| `steps` | the rows of `job_steps`; the index is a column, as UNIQUE(job_id, step_index) is what keeps rows apart |
| `progress` | `jobs.progress_current` |
| `lock[p]` | `_step_creation_lock` of process `p`: a `threading.Lock`, so not shared between processes |
| `runner[r]` | where a thread stands in its `Job` block, the step it is at, the index it read |

| action | code |
|---|---|
| `Open` | claim and `transition("running")`; a second runner joins a running job only after a lost lease |
| `Find` | `find_step` and the skip in `Job.step` |
| `StartRead`, `StartWrite` | `start_step`: SELECT MAX under the lock; the INSERT, which a taken index refuses |
| `Finish` | the end of the step's block: succeeded, failed by `handle.error`, or raising out of the job |
| `Done`, `Fail` | `Job.__exit__`, `_force_fail` |
| `Crash`, `Requeue` | a process dies; `reclaim_stale` or `retry` |

The run `steps` has two threads in one process and one in another, a plan of two steps,
three runs, one takeover and two crashes: two runners of one process meet at the lock, two
of different processes at the unique index, and a job can fail, crash, resume and crash
again. It may stop when the runs are used up, hence no deadlock check.
`RowsAreOwned` (`IndicesDense`, `BodyOwnsRow`) and `ProgressIsTrue` (`ProgressTallies`,
`SucceededIsComplete`) are invariants. `StartsOnce` is about steps of the runners:
`NoRaceInProcess` says that the lock does what its comment promises, `NoRework` that a
succeeded step is not run again, as long as no two runners overlapped: after an overlap it
may be (section 11).

`LongWorkTheorems` begins with the three (`RowsOwned`, `ProgressTrue`, `StartedOnce`), from
`NumberedDensely` (`IndicesDense`), `StepsAreOwned`
(`BodyOwnsRow`), `ProgressIsExact` (`ProgressTallies`) and `SuccessIsComplete`
(`SucceededIsComplete`), for any runners, processes, plan and bounds. The first three are
inductive only together: a row is closed once because its runner owns it, it is owned
because indices are unique, and they are dense because an index read is never above the
number of rows (`IndexRead`), so that the unique index refuses exactly the stale ones. The
last needs that a runner at step n has seen a finished row for every step before it
(`PlanFollowed`) and that a finished row stays finished. `StartedOnce` rests on `OnceInv`: a
runner between its SELECT and its INSERT has the lock of its process, and as long as no
job was taken over one runner is in it, and no row of a name comes after one that
succeeded.

## 5. Background submission: `JobSubmit`

`submit_tracked` scans for a live job with the same dedup key, creates one, and runs the
body in a daemon thread; `submit_detached` runs a service that creates its own job, and
waits for a job newer than the newest one before.

| state | code |
|---|---|
| `jobs` | the rows in id order: dedup scope, status, `created_at` |
| `clock` | the clock of `created_at`, which several jobs may share |
| `session[s]` | the call of `submit_tracked` / `submit_detached`: the checks, the wait, the answer |
| `thread[s]` | the daemon thread and the job it works on |

`Begin`, `Check` (`_running_job_for`), `CreateTracked`, `Before` (`_latest_job_id`),
`AwaitPoll`, `AwaitAlive`, `AwaitRecheck`, `AwaitTimeout` (`_await_new_job`) are the steps of
a session; `Open`, `Work`, `Close`, `Fail` those of the tracked body, and `ServiceCreates`,
`ServiceEnds` those of a detached service. `Scans` is what `find(kind, limit)` may return:
it orders by `created_at` only, so rows with equal timestamps come in any order and the
limit may cut between them.

`submit`: two sessions, two scopes, one cancel, one crash. `Serial` makes submissions for
one scope come one after the other, which is what dedup needs (`OneLivePerScope`). Fewer
jobs than `ScanLimit` are created, so that the scan sees all of them; the code's limit is
50, and an application that keeps more live rows in front of a match is outside the
property. `AnswersOwnJob` (`ResolvesOwnJob` and `NoneMeansNothing`) is for jobs with distinct
timestamps.
`VerdictKept` is about the late `transition("succeeded")`, which the body always tries because
its `job.status` is the one read at the start. `SubmittedSettles` assumes weak fairness of
each session and each thread: Python's scheduler runs every thread, and services end; with
a crash nothing settles a tracked job, as the property says.

`submit_race` drops `Serial`: `CreatesOnlyWhenFree` is **violated**, two calls scan before
either inserts.

`BackgroundTheorems` proves, for any sessions, scopes and ticks:

* `TypeCorrect`, and `VerdictStands` (`Spec => VerdictKept`). `VerdictInv` says what each point of a
  thread knows of its row (`SessionOK`): in particular, once the work has left a terminal verdict
  the row is terminal, so that the transition and the force-fail that follow are refused.
* `OneLiveWhileScanned`: with `Serial`, one live job per scope for as long as every scan reaches the
  live jobs of its scope (`ScansReachLive`). `OneInv` adds that calls for one scope do not overlap
  (`Exclusive`) and that nothing of the scope is alive from the scan to the job (`Cleared`).
  `OneLive` replaces the condition by one on the constants: no more sessions than the scan fetches
  rows, since every row has a session it came from (`Accounted`).
* `AnswersAreOwn` (`Spec => AnswersOwnJob`) under the same hypotheses. Where `created_at` tells the rows
  apart, ids follow time (`InOrder`), what is newer than the look before is the service's own row
  (`OwnIsNext`), and an answer is the thread's job (`OwnAnswers`).

Only model-checked: `SubmittedSettles`, which is liveness.

## 6. An LLM step: `LlmStep`

`llm_step` from end to end, by several callers at once, with the tables it meets: response
cache, budget gate, tracked messages call, parse and validate, cache store.

| state | code |
|---|---|
| `now` | the clock of the database |
| `runs` | `llm_runs`: id, status, `created_at`, the input's key, the response, the linked cache entry |
| `entry[k]` | `llm_cache_entries` by input hash (one row per hash: the upsert) |
| `snapshot[p]` | `llm_budget_snapshots` by period: the count and the cutoff, `last_updated` |
| `caller[c]` | where a call of `llm_step` stands, and the values it holds |
| `refresher[f]` | a `refresh_snapshots` pass in the loop of one process |
| `lost` | steps whose row could not be written: a history variable, for `OneRowPerStep` |

| action | code |
|---|---|
| `Begin` | the call of `llm_step` |
| `Lookup` | `cache_lookup`, expiry included |
| `RecordHit`, `LinkHit` | the two transactions of `record_cache_hit`; the second bumps the entry if it is still there, and the stored text is parsed and validated again |
| `CheckSnapshot`, `CheckDelta` | `current_usage`, one read per transaction, and `check_budget`'s verdict |
| `RecordBlocked` | `record_blocked_run` |
| `Chat`, `RecordInsert`, `RecordCommit` | the client; the INSERT, which takes the timestamp; the commit, after several more statements |
| `Judge`, `Store` | truncation and validation; `cache_store`'s upsert |
| `Invalidate`, `PurgeExpired` | `llm/cache/invalidate.py` |
| `RefreshBegin`, `RefreshCutoff`, `RefreshAggregate`, `RefreshWrite`, `RefreshFail` | `refresh_snapshots` and the failures that `_tick` swallows |
| `Tick` | time |

A reply is `good`, `bad` (fails validation), `cut` (cut at the token limit, still parses)
or `error` (the client raised). One blocking budget on the number of calls stands for all:
dimensions and scopes are checked by the same code one after the other. A database
failure may hit any write.

`llm_cache`: `StepsAreRecorded` (`OneRowPerStep`, `ClientErrorSurfaces`) and `CacheIsSound`
(`HitsExact`, `CachedFromRun`, `CachedIsValid`). Two callers, one key, validating steps of which
some use the cache, one failure, one invalidation, and a clock that lets an entry expire; a limit of
two calls for three steps, so that some are blocked. `llm_budget`: `NothingLost` and
`OvershootBounded`. Two callers and two refreshers over two periods, with a limit of one: refreshers
overlap each other, the callers and the period's end. Callers are interchangeable in both
(`CallerSymmetry`; no liveness is checked). A run stops when the clock and the steps are used up.

`OvershootBounded` is what a check-then-call gate can promise: a limit is passed by at
most the calls checked at the same time, one less than there are callers. It and
`NothingLost` need `PromptCommit`: the clock does not move between the INSERT of a row and
its commit. The code does not ensure that; without it, `late_commit` shows `NothingLost`
**violated**: a row stamped before a cutoff and committed after the aggregate is counted by
neither half until the next refresh.

`LlmStepTheorems` proves, for any callers, refreshers, keys, options and bounds:

* `TypeCorrect`: `Spec => []TypeOK`. Its invariant `StepInv` says what each point of
  `llm_step` has at hand (`CallerOK`), that ids number the rows (`RowsOK`), and that the row
  between the two transactions of a hit is a `cache_hit` row (`LinkOK`): linking it
  changes nothing that a budget counts.
* `SnapshotPlusDelta`: with `PromptCommit`, `Spec => []NothingLost`. `BudgetInv` adds that a
  row about to commit is stamped now (`CommitsNow`), that cutoffs are in the past, and that
  what a refresher is about to write still counts the runs below its cutoff; the lemma
  `CountFinal` says that the count below a limit in the past never changes again.

* `OvershootIsBounded`: with `PromptCommit` and finitely many callers, `Spec =>
  []OvershootBounded`. `BoundInv` adds to `BudgetInv` that a snapshot a check has read stays
  exact (`SeenExact`), and that once the current period is at its limit, its runs and the
  callers that may still add one (`Unchecked`) together stay within the bound.
* `CachesSoundly`: `Spec => []CacheIsSound`. `CacheInv` says what a
  caller carries from a run into the cache and from the cache to its answer (`CarriesOK`), that
  a hit between its two transactions has a row of its own that is not linked yet (`LinksOpen`),
  and that ids of entries are given once (`EntryIds`).
* `RecordsEveryStep`: `Spec => []StepsAreRecorded`. `RecordInv` says that a step has no row
  before it is recorded and then the row that fits (`TracksOK`, `AnswerOK`), and that every row
  has a step of its own (`StepsApart`).

All properties of `LlmStep` that a run checks are thus proved, with the assumptions on time
that the runs make.

## 7. The prompt registry: `PromptRegistry`

`resolve_prompt_id` for one agent and part, statement by statement, and the calls that
resolve a row, send their text and record a run that cites the row.

| state | code |
|---|---|
| `prompts` | `llm_prompts` by version, which stands for the id |
| `runs` | `llm_runs`: the prompt cited, and, for the properties, the text sent and the policy |
| `caller[c]` | the call: the version and text of its prompt file, `on_change`, the row resolved |

`Read` is the first SELECT with the policy's decision, `Insert` the INSERT IGNORE of a new
version with the SELECT after it, `Used` the test for references, `Update` the change in
place, `ReadMax` and `Bump` the new version, `Chat` and `Record` the call and its run. Files
are edited at any time: each call comes with any version and text.

`Exclusive` is the set of policies whose calls overlap with no other call. `prompts` checks
three callers, two versions, two texts, four calls and all policies, with `update_unused`
in `Exclusive`: each call has a row to cite, whoever lost the race for the INSERT; the
text of a cited row never changes; a run under `update_unused` cites the text it sent.
`prompt_inplace` lets all overlap: `CitedTextFrozen` is **violated**.

`PromptRegistryTheorems` proves the type invariant (`TypeCorrect`) and `EveryCallCites` without
assumptions on overlap, and `CitesWhatItSent`, `CitesIsThere` (the run's `CitesWhatIsThere`) and
`CitedIsFrozen` if calls with `update_unused` run alone. The invariant of those (`AloneInv`) says
that what an updating caller has found out (the row is not cited, the version is free) is still so
at the statement that relies on it.

## 8. Calls, answers and money

### 8.1 The router and the clients: `AgentCall`

`resolve_agent` and `call_with_fallback` over a `model_router.yaml` that is edited meanwhile.
A resolution loads the document up to three times (the block, the selection, the config of
each candidate), and each load may see the document served so far or the file's.

| state | code |
|---|---|
| `file`, `served` | the document in the file; the last good one that a load returned |
| `env` | `<PREFIX>_<SLUG>_BACKEND` |
| `registry`, `instances` | the factories and the clients made so far (`clients/routing.py`) |
| `caller[c]` | the block at hand, the chain of candidates, the attempt, and the requests `sent` |

`ReadBlock`, `Select`, `Acquire`, `Config`, `Chat` are the stages of a call; `Chat` is one request
with the verdict of its client (`OpenRouterChat`, `AnthropicChat`, `ClaudeChat`): an answer, a
failure to try again, a failure for good. `Edit`, `RegisterClient`, `UnregisterClient` happen
around them. Documents are nested, flat, without the agent, or refused by the schema.

`RoutedAsDeclared`: a request names its own backend's model if every load found a nested block
(`SentToItsModel`); a backend's requests stay together, none follows an answer, and more than one
backend is called only for agents that opted in (`FallbackDiscipline`); the outcome is that of
the last request (`EndsTruthfully`). `RetriedAsTuned`: no more attempts than the kwargs of the
agent's block allow, whoever shares the client (`AttemptsAsTuned`), and nothing that may have
been answered is sent to Anthropic twice (`PaidOnce`). One caller makes two calls over three
backends with two edits in between, so that a client outlives the document it was made for.

### 8.2 Recorded and judged calls: `Validators`, `TrackedCall`

`Validators` has the operators: `Parsed` (the order of `llm/parse.py`: the text, a span in it, the
elements of a cut array, a repair), the built-in checks as predicates on what they look at,
`Failures`. A reply is a record of what each way of reading it gives.

`TrackedCall` is `tracked_call`, `tracked_messages_call` and `track_run` from the targets that are
read to the plan that is applied.

| state | code |
|---|---|
| `runs`, `verdicts` | `llm_runs` with its links; `llm_run_validations` and the schema tags |
| `registered` | the pipeline of the agent type |
| `doc`, `today` | the targets of `safe_apply`; the date |
| `caller[c]` | options, chats and rows so far, the value, the signals, what was stored |
| `applied` | plans with the targets they saw and found (history) |

`Chat` and `Record` are one request and its row, `Parse` and `Reject` the JSON of `tracked_call` with
its one retry, `Validate` and `Store` `parse_and_validate` and one write per signal, `Apply` the drift
check of `safe_apply`. `Die` ends a process; `Register`, `Edit` and `Midnight` are the world outside.
Any write may fail.

`RecordsAreTrue`: a row per chat, of its own reply, marked if the answer was rejected
(`RowsTellTheTruth`); a second chat only after a complete answer without JSON, linked to the
first (`RetriedOnce`); no part of an answer passed for the whole under
`on_truncation="raise"` (`WholeOrRefused`). `VerdictsAreActedOn`: stored rows give the verdict the
caller had (`VerdictStored`), and a plan is applied to the targets it was made from only
(`AppliesWhatItSaw`). Five ways of calling, six replies, two pipelines, a day that changes.

### 8.3 JSON in a reply: `JsonRecovery`

`extract_json`, its scan and `recover_truncated` as operators on a text, a sequence of tokens. The
reference (`Whole`, `CutOff`, `Answer`, `ObjectEnds`) says what a reply means: words, one container,
words. `RepliesAreRead` compares them on every text of up to six tokens: a whole reply is extracted
as it is, nothing is extracted of a cut one, and recovery has exactly the objects that arrived.
Six tokens hold a nested container, a string with a bracket in it, a cut array with a complete
element; 8.6 has the theorem for every length.

`Ends` says of every place of a text how far the value that starts there reaches (`json.loads`). It, the
loops of `_first_unclosed` and `_scan_candidates`, and the elements of the reference are functions on
the places of a text, each defined from its values at later places.

### 8.4 Budgets and prices: `Budgets`, `CallPrices`

`Budgets` goes from `budgets.yaml` to verdicts: `SyncBegin`, `SyncRead`, `SyncWrite` are
`load_budgets`, `sync_from_config` in each process; `CheckBegin` and `CheckRow` the guard over all
matching rows, scopes and dimensions in the code's order; `Record` and `RecordBlocked` the rows it
leads to; `PurgeJobs` and `NextDay` what happens to spend meanwhile. "Spent" is the sum over the
runs that a scope covers; what the snapshot and the delta make of that sum is in `LlmStep`.

`CapsAreInForce`: after a sync that nobody wrote across the rows in force are those of the file
(`SyncEnforced`), a scope with a value has one row per period (`OneRowPerKey`), and the guard admits
and stops as those rows say (`VerdictSound`). `SpendIsCapped`: once a cap is in force some cap
stays in force, whatever becomes of the file (`NeverUncapped`), and within a period spend never
shrinks and grows by admitted calls only (`SpendIsCalls`), as long as jobs are kept for a month.
Two processes and six documents: two good ones, one with a malformed block, an empty one, none,
and one that cannot be read.

`CallPrices` is `project_cost`: the rate in effect, the price list with its prefixes, the mean of the
last day, each read at a time of its own. `ZeroIsWarnedOf`: a projection of 0 that nobody is warned
of is of a model that ran at an unknown price before. The document promises more
(section 11, `UnknownIsLogged`).

### 8.5 Evaluation: `EvalReplay`

The golden runs of a version are listed, replayed by a pool, compared or judged, gated, recorded
and reported, while operators add and remove golden runs in two transactions each and payloads are
purged. `ReportMatchesRows`: a result per listed run; what passed was recorded as a success, with
its gate satisfied by a stored metric and its score the stored one; an error has no score. Two
runs, with a pool and without, a comparator with a gate and a judge.

### 8.6 Theorems

`LlmCallsTheorems` proves, for any callers, backends, documents, ways of asking, answers, pipelines
and documents to change, and at any bounds:

* `RoutesAsDeclared`, `RetriesAsTuned`. `RouterInv` says of every call what has been sent and what is
  still to be tried. What was sent is sound as it is (`SentSoundly`), whatever comes. The chain
  holds every backend once, and only the chosen one without fallback (`FollowsPlan`). No backend
  still in the chain has been asked, but the one being asked; its client allows the retries of the
  agent's block, as many requests were sent to it as attempts were made, and each ended in a way
  that its client tries again (`SentBefore`). That a client out of the registry has the kwargs of
  its block is a part of the invariant too. The theorems need these: that nothing is paid for
  twice, say, follows only because no earlier request of the backend was one that is not sent again.
* `RecordsStayTrue`, `ActsOnVerdicts`. `AnswerInv` has three parts for each call. `AnswerShape`: as
  many rows as answers, or one less while the last is recorded, and a second answer only after one
  worth a retry (`Retriable`). `RowsAgree`: every row the call has is its own, holds its answer
  and has the status that its stage implies, so that a mark on it reaches no other call's row.
  `VerdictsAgree`: while signals are written, the rows of the run are signals that were due, and all
  of those if no write failed and no two have one name. What a call does leaves this true of the
  others as rows carry who wrote them (`OthersRowsAgree`, `OthersVerdictsAgree`).

* `ReadsEveryReply`: `RepliesAreRead` of a text of any length (`EveryTextIsRead`, which is a fact about texts;
  the behaviour adds only that they are sequences of tokens). The functions of 8.3 exist since
  each is defined from later places (`DownwardFunction`); what holds of all places is shown from
  the end of the text (`NoLast`: there is no last place where it fails). So are the two facts
  that carry the rest: within a value quotes and brackets balance, and its opener is closed at its
  end and nowhere before (`EveryValue`); and a value reads the same wherever it stands, in the text
  or cut out of it (`EveryReading`). For a whole reply the scan of its opener finds it first, with only
  words before (`WholeIsFound`), and every other span that is found lies within it
  (`OthersNested`), so it is what is left and returned (`WholeIsExtracted`). The opener of a cut reply is
  never closed (`CutOffUnclosed`); it is where the payload is cut, and the scan finds nothing
  (`CutOffIsLeft`). In an array of objects a brace closes at the top exactly where an object ends that
  arrived in whole (`ClosesAreEnds`), and the text up to the last of these parses with a bracket
  after it (`ClosedAfterLast`, `ObjectsAreRecovered`).

They rest on `AgentAssumption`, `AnswerAssumption` and `JsonAssumption`: the scan is not given up before it
starts (`MaxScanFailures` is 64 in the code); `None` is no value of another kind; the
backends of a document are the keys of a mapping, hence distinct; the targets of a document and the
checks of a pipeline are sequences; and of a reply (`ReplyAssumption`), that a value found as it
stands, or as a balanced span, is whole, and so is what is repaired of an answer of which the
provider says it was not cut. That a span is whole rests in turn
on the scan, which finds none in a reply that was cut off (`ReadsEveryReply`).

`LlmSpendTheorems` proves, for any processes, documents, scopes, usages, callers, models, price lists,
golden runs and scores, and at any bounds:

* `CapsStayInForce`. `BudgetInv`: rows are numbered as they came, each number once (`TableOk`), a scope
  with a value has one row per period, and what the last undisturbed sync wanted is in force
  (`SyncEnforced`). Of a process under way it says that the rows it has read are still there, under
  the same keys, if changed (`Syncing`), and that what the guard has looked at so far lets the call
  pass (`Guarding`), so that an admitted call has passed every row. `SyncWrite` is split into the
  rows that were there and those it adds (`SyncsOld`, `SyncsNew`): the first keep key and number, the
  second have keys of their own and the next numbers.
* `SpendStaysCapped`. What is spent is a sum over a set of runs, a fold in an order that is not said.
  `LeastNumber`, which stands for induction, gives that the fold is what its definition says
  (`FoldUnfolds`); then that a sum depends on the summands only (`SumAgrees`) and may take any of
  them first (`SumTakes`). A recorded call adds its usage to what covers it (`UsedGrows`), and a run
  that a purge touches is of a period that is over (`PurgedIsPast`): two days that are a month
  apart are of two months, and this is all that the keeping of jobs is needed for.
* `ZeroStaysWarnedOf`. `PricingInv`: rates and lists hold prices, and a caller who projects 0 without
  warning, though every price is above 0, does so for a model with a run that cost nothing
  (`WasFree`), as the mean of natural numbers is 0 only if all are (`SumOfZeros`).
* `ReportsMatchRows`. `ReplayInv`: the row of a golden run under way has what its step implies
  (`RunOk`), and every collected run has one result, which says what its row does (`Tells`).

They rest on what `LlmSpend` assumes of its constants: a document has finitely many caps, of scopes
with a place in the order, and their actions are `warn` and `block`; usage, prices and scores are
natural numbers (in small units); the providers and the golden set are finite; and jobs are kept
for a month at least, which is about the configuration and not the code: with fewer days a purge
takes from the current month.

## 9. What threads, processes and hosts share

### 9.1 Files and keys: `ReloadCache`, `RedisCache`

`ReloadCache` reads value, key and age without the lock, one by one (`ReadValue`, `ReadKey`,
`ReadAge`), and replaces them one by one under it (`Recheck`, `Load`, `Assign`). `ReloadsInStep`: a get
never answers with an older version than a get that ended before it began (`NeverBackwards`), and
the file is read once per TTL (`OneLoadPerTtl`). With one path; with two see section 11.

`RedisCache` is one key on a server that goes away and comes back. A failed operation counts in
`degraded_ops`, and `set` and `delete` tell by the count whether they arrived. `AckedWrites`: once a
write was told to have arrived, the server holds nothing older.

### 9.2 Rows: `VersionedConfig`, `Upserts`

`VersionedConfig` is `append_version` by concurrent transactions under either isolation level.
`Lineage`: where the unique key holds, versions are 1, 2, ... and a column that was left open has the
value of the version before.

`Upserts` makes the same calls on a table per dialect, with the statement that each builds.
`SameOnEveryDialect`: with one unique key the rows and the answers are the same, failed statements
included. Every input of two columns with NULL and a value that does not fit, three calls.

### 9.3 Baselines: `Baselines`

`save_baseline` file by file, by two savers that may fail or die, then the run record; listing; and
`diff_baseline` with both passes of its rename detection. `BaselinesAreWhole`: a listed baseline
is a whole copy (`ListedIsComplete`), and a comparison accounts for every path once (`DiffAccounts`).

### 9.4 Theorems

`SharedTheorems` proves, for any threads, clients, writers and savers, and at any bounds:

* `LoadsOncePerTtl`, and with one path (`OnePath`) `ReloadsStayInStep`. `LoadsInv`: the lock is with the
  thread that loads or replaces (`LockOK`), which found the value due and knows what will be in
  place (`ReplacesOK`); at any other time the age in place is that of the last load (`Settled`).
  `VersionsInv`: what is in place, or about to be, is no older than anything shown or held, and no
  newer than the file.
* `AcksAreTrue`. `RedisInv`: what a client has counted before its operation is not above the count
  (`CountsUp`), nothing stored or acknowledged is of the future (`NothingLater`), and a write that is
  over and saw no failure has left its value, or somebody has written since (`Effective`).
* `HistoryIsWhole`. `HistoryInv`: versions are dense with one row each, every row descends from the
  one below it, and what a writer has found in the table is still there: the version below its
  own, and a `prior` that is that row or a later one (`WriterOK`).
* `DialectsAgree`: the tables and the latest answers stay equal (`DialectsAlike`), as with one unique
  key the rows that MySQL takes for duplicates are those that the others name in ON CONFLICT.
* `ListedBaselinesAreWhole`. `CopiesInv`: a directory belongs to the saver that made it, which has
  copied what it found and writes the record last.
* `ComparisonsAddUp`: and a comparison with it accounts for every path. After each path of a pass what
  is paired is a matching of removed and added paths, of similar bodies (`Pairing`); so there are
  as many old names as new ones (`AsMany`), and the counts of the report add up (`DiffSound`). That the
  function of a pass exists, for any number of paths, is `PassExists`. Assumed: what is equal is
  as similar as can be, and the threshold is no higher (`AlikeAssumption`).

## 10. Long work

### 10.1 Pipelines: `Pipeline`

Stages wired as the modules' docstrings show: slices (`Resume`, `Start`, `RerunFrom`), freshness by
modification times and by the flags of the last record, cascade invalidation whose deletions may
fail, kills between any two steps, edits of the source. `SkipsAreSound`: what would be skipped stems
from the source as it is (`SkippedIsCurrent`) and from the flags at hand (`SkippedMatchesFlags`).
Both need what the code needs: no edit under a running first stage, no runs with other flags that
end early, and a clock finer than a stage (`Granularity` = 1); section 11 has what happens otherwise.
What `SkippedMatchesFlags` excepts is a history variable, `mixed`: a run wrote under other flags than
the record's, or a slice that went to the end left its record beside earlier snapshots of other
flags (`Misrecorded`). The run has three stages, for a slice that has something before it and
something inside it; with two, no slice can be misrecorded that was not mixed before.

### 10.2 The web: `Fetching`, `Localize`, `Liveness`, `Articles`

`Fetching` is `Fetcher` with the throttle its workers share: reserve a slot, sleep, open, follow or
retry, read a bounded body. `FetchesAreFair`: requests keep to one per interval (`RateBound`), and a
fetch ends as its last reply says, within its attempts and its byte limit (`EndsAsAnswered`). A
compressed body is inflated member by member (`Inflate`), against what is left of the budget. The
values of Retry-After in the run are a missing one, a small one, and one above the cap; negative
ones are in section 11.

`Localize` is `fetch/images.py`: passes over the images of a document, with checkpoints, killed
anywhere and run again. `KeepsItsProgress`: a local reference is to the image of its URL, and no
more than a checkpoint's worth is lost. `Liveness` and `Articles` are `check_url` with its cache and
`article_fetch`: `VerdictsAreFresh` says that a verdict about the moment is cached for the short
time only (`BlipsPass`), and that an unread article has the status of its live page
(`VerdictIsTheLive`).

### 10.3 Batches: `ParallelMap`

`run_parallel` at widths 0 (a loop), 1 and 2, with `resilient`, held exceptions, progress under its
lock, and interrupts. `BatchAccounts`: every item is attempted, every failure is told once, what
was counted is what `fn` came back from, progress grows. `BatchSettles`: the batch ends, and ends
like that, under weak fairness of its steps: a started thread runs, and the callables of the batch
return or raise. In `Background` each part has its own fairness, stated for the part that was chosen.

### 10.4 Theorems

`LongWorkTheorems` proves, for any workers, stages, images, links and readers, and at any bounds:

* `SkipsStaySound`: with `Granularity = 1`, `WorkSpec => []SkipsAreSound`. `PipeOK` speaks of the
  unbroken line of young snapshots that starts at the source: it holds results of the source as it
  is (`Current`), under the recorded flags (`AsRecorded`). It is inductive since everything written
  is older than now, so that a stage's write breaks the line behind it and an edit breaks it at the
  start; and since a run whose earlier snapshots agree with it writes snapshots that agree
  (`WritesAgree`), which is what its record then says. That the first stale stage exists
  (`StaleExists`) needs the least number of a set (`LeastNumber`), which well-foundedness gives.
* `RateIsKept` (`RateBound`), without a hypothesis. `RateInv`: a request made and a slot given out cost
  an interval each of the time that the throttle has given away, and for every t from now on, the
  requests made and the slots that open by t cost at most t and one interval more.
* `FetchesStayFair`: where no Retry-After is negative (`WaitsAreNatural`), `WorkSpec =>
  []FetchesAreFair`. `FetchOK` bounds the requests at every point by what the attempts and hops so
  far account for, and says that what is held while inflating is all that has arrived.
* `ProgressIsKept`: `WorkSpec => []KeepsItsProgress`. `ImagesInv` counts names: those on the disk and
  claimed, with those still to come, are no more than there are URLs in the passes so far (`Room`),
  so that a claim finds a free number; and the references of the text at hand and of the document
  are to files of their own (`Refers`).
* `VerdictsStayFresh`: `WorkSpec => []VerdictsAreFresh`. `ArticlesInv` says at each point of a reader how
  many requests it has made, and that it has looked in the archive only after a status that may
  change.

The proof of `SkipsStaySound` found a gap in the model: its history variable said nothing of a record
that a slice leaves beside snapshots of other flags, which two stages cannot show and three do.
`BackgroundTheorems` proves of the batches of 10.3, for any number of items, workers and failures:

* `BatchesLoseNothing` (`BackgroundSpec => []Pool!BatchAccounts`). `BatchInv` says of every item where its
  failure is told by now, once (`FailureOk`), that the items counted are those past the lock
  (`Counted`), that the lock is with the item that reports (`LockHeld`), and that what was reported is
  below the count while somebody has still to report it (`ReportsOk`). Progress grows because
  counting and reporting are one critical section; `ToSet(errors)` tells apart one held exception
  from several because no item is held twice.

Only model-checked: that a batch ends (`BatchSettles`).

## 11. Where code and documentation part

Shown by a run:

* `settles_cancel`: a cancel that is overwritten can leave a job that hangs for ever
  (`jobs/_repo_worker.py:126` against `jobs/workers.py:127`).
* `submit_race`: two submissions with one dedup key both create (`jobs/submit.py:126`).
* `late_commit`: a run in neither half of a budget (`budget/snapshot_job.py:38` against
  `docs/cost-budget.md:187`).
* `prompt_inplace`: a prompt changed in place under a call in flight
  (`llm/tracking/_resolvers.py:209`).

Met while modelling, with a short path and no run of their own. Jobs:

* `transition` checks the status and then updates by id alone (`jobs/repo.py:281`): a cancel in
  between is overwritten, although `jobs/registry.py:64` calls canceled a status that no job leaves.
* `renew_lease` is not told who renews: it answers True to a worker whose job was
  reclaimed and claimed by another (`jobs/_repo_worker.py:151`), where its comment (`:144`) and
  `docs/jobs.md:281` say False means that the claim is lost.
* The dashboard kills the child first and cancels second (`web/jobs_admin/__init__.py:170`); a
  runner that settles the row in between makes the cancel refused, and the job shows as
  failed, although `docs/jobs-runtime.md:47` allows the two "in either order".
* Children have sessions of their own and outlive a crash of their runner
  (`jobs/workers.py:214`); the reclaimed job starts a second child beside the first.
* Resume looks at the newest row of a name only (`jobs/runtime.py:230`): after two runners
  overlapped, a later row that did not succeed hides one that did, and the step is run
  again (`docs/jobs.md:181`).
* Rows with equal `created_at` come in any order, so the "first match" is not always the one
  with the highest id (`jobs/submit.py:77`, `jobs/repo.py:160`).

Calls and records:

* With `on_record_error="raise"`, a failing record replaces the client's error in
  `tracked_messages_call`, and always in `track_run`; `tracked_call` avoids that
  (`llm/tracked.py:281`, `docs/llm-tracked.md:116`).
* After a failed retry the row of the first, rejected answer stays "success".
* Two validators of one name leave one row (`TrackedCall.EverySignalStored`), though "every signal
  is written". A severity of a project's own neither blocks nor shows among the failures.
* The start "today" of `date_range` is resolved when the pipeline is built
  (`llm/validate/_semantic.py:319`); only its end is resolved per call.
* `tracked_call` hands no usage on, so a validation after it cannot know that a reply was cut.
* A document that turns from nested to flat, or back, between two loads of one call can send one
  backend's model to another. The config of a later candidate is read outside the `try`, so that a
  ConfigurationError there takes the place of the exception of the last request.
* A dropped connection is sent to Anthropic again even if it dropped after the request was out,
  though `_is_retryable` is there to retry "without paying twice". OpenRouter's failed connections
  are not wrapped in the client's error. The preflight of `claude_code` is itself a chat.
* `[{..},[{..}`, cut, recovers nothing, though the docstring speaks of the last fully closed top-level
  object (`utils/json_recovery.py`).
* `_render_token` of `llm/prompts.py` substitutes one variable after the other, so a value that holds a
  later token is substituted again; a load that overlaps `clear_prompt_cache` can put an older
  spec back.

Money:

* A global budget may have two rows (`Budgets.OneRowPerScope`, `docs/cost-budget.md:49`): its
  scope_value is NULL, which no unique key refuses.
* Jobs purged within a month free the monthly budgets that go through the job.
* Threshold warnings come from projections; a threshold that is crossed by an actual cost is
  never logged. A limit that is NaN caps nothing.
* The first run of a model without a price is recorded at 0.0, so the mean of the last day is 0 and
  later projections are 0 without the promised warning (`CallPrices.UnknownIsLogged`,
  `docs/cost-budget.md:217`). A general prefix registered first hides a later, more specific one.
  Two upserts of one model and day end in an IntegrityError for one of them.
* `run_id` of a failed replay is -1 even if it was recorded (`EvalReplay.MinusOneIsUnrecorded`,
  `eval/_report.py:102`). A member of the golden set can lose its payload between the two
  transactions of `add` (`EvalReplay.MembersKeepPayload`, `llm/tracking/purge.py:25`). A judge
  without a configuration fails each replay, where its comment says that it fails the run.

Shared state and the web:

* With two paths a get of `ReloadCache` can be shown the value of the other path: the key is read
  after the value (`ReloadCache.ServesItsKey`, `utils/reload_cache.py:54`).
* A malformed or half-written `cache.yaml` means the framework's defaults for a TTL
  (`llm/cache/config.py`), with the exact cache on.
* The default scope of a versioned table has a NULL in its key: two writers can append one version.
  With several unique keys MySQL's upsert takes whichever conflicts (documented).
* A fill of the redis cache that computes while the key is deleted stores what it computed before;
  the null backend answers True to every write.
* Racing saves of one label end in FileExistsError where a ValueError is documented; a save that
  crashed blocks its label; a save during a run copies some of each.
* A source edited under a running first stage, a run with other flags that ends early, or two writes
  within the resolution of a modification time make `Pipeline` skip a stage that is not current.
* A progress callback that raises on an item whose failure was recorded makes it count twice.
* A negative Retry-After reaches `time.sleep`, whose ValueError takes the place of the 429
  (`fetch/__init__.py:224`). A body that breaks off is not fetched again.
* `SRC=` is matched and fetched but never retargeted; with `reuse_existing` two URLs of one default
  name share a file; edits made to the document during a pass are overwritten.
* A 401 whose GET is answered 403 is "forbidden", and a browser's GET that times out turns
  "forbidden" into a timeout, kept for the short time. The title and date read from a paywalled live
  page are dropped when the archive has nothing (`utils/article_fetch.py:164`).

The definitions named here as `Module.Name` state what the documentation says; they are in the
module, and no run checks them.

## 12. Not modelled

The components with status `not_modelled` in `PROJECT.json`: prompt files (string substitution),
small utilities, the web layer (rendering and wiring; rates are limited by a library), export and
parsers (pure conversions), guards, doctor, testing helpers and the wiring of the CLI. None of
them keeps a state that several actors change.

Of the modelled ones: payloads and their schemas, wording and logging, isolation levels other than
READ COMMITTED (but for `VersionedConfig`, which has both), clocks that run backwards, thresholds,
wire formats and streaming of the clients, batches and exports of the run tables, content-keyed
pipeline caches, the rendering of diffs and reports, `bump_generation` of the redis cache, and the
effects of a full disk or a lost connection beyond "the statement failed".

Only model-checked, and why: that a batch, a queued job and a submitted job come to an end
(`BatchSettles`, `JobSettles`, `SubmittedSettles`) is liveness under fairness; that they end in
a right way is proved.
