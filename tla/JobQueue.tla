------------------------------ MODULE JobQueue ------------------------------
(***************************************************************************)
(* The job queue at work: claim-loop threads of several processes that     *)
(* run claimed jobs as subprocesses (workers.py, runtime.py), the clients  *)
(* that create, cancel, retry, reclaim and purge jobs (repo.py, the        *)
(* pf-jobs CLI, the jobs dashboard), crashes, restarts and time.           *)
(*                                                                         *)
(* A transaction that SELECTs and then UPDATEs is two steps, because       *)
(* nothing locks the row in between: no SELECT ... FOR UPDATE, no version  *)
(* column, READ COMMITTED or weaker.  The UPDATEs of one transaction up to *)
(* its commit are one step.                                                *)
(***************************************************************************)
EXTENDS JobTable

CONSTANTS
  MaxJobs,      \* bound: ids the autoincrement hands out
  Procs,        \* worker processes, one start_workers pool each
  ProcOf,       \* the process a worker thread belongs to
  Clients,      \* sessions issuing cancel and retry
  Priorities,   \* priorities passed to create
  PurgeStatuses,\* the statuses purge is asked to delete
  MaxCancels, MaxRetries, MaxPurges, MaxMishaps,   \* bounds on disturbances
  Timely        \* TRUE: a live holder always writes within a lease window

ASSUME JobsAssumption    == MaxJobs \in Nat
ASSUME ProcAssumption    == ProcOf \in [Workers -> Procs]
ASSUME OptionAssumption  ==
  /\ Priorities \subseteq 0..100
  /\ PurgeStatuses \subseteq Statuses
  /\ {MaxCancels, MaxRetries, MaxPurges, MaxMishaps} \subseteq Nat
  /\ Timely \in BOOLEAN

Jobs == 1..MaxJobs

VARIABLES
  jobs,         \* the table: a row, or NoRow, for each id
  nextId,       \* the autoincrement
  worker,       \* the claim-loop threads, and the frame of run_subprocess_job
  proc,         \* "up", "stopping" (stop_event set) or "down"
  RUNNING,      \* _RUNNING of each process: job id -> the thread whose child it is
  orphans,      \* jobs with a live child whose runner is gone
  client,       \* sessions in the middle of a cancel or a retry: where, of which
                \* job, and the priority a retry read
  count         \* disturbances so far, for the bounds

vars == <<jobs, nextId, worker, proc, RUNNING, orphans, client, count>>

\* Program counters of a worker thread.  From "enter" on it holds the job it
\* claimed; from "wait" it has a child.
HoldingPcs == {"enter", "start_read", "start_write", "launch", "wait", "check",
               "finish_read", "finish_write", "fail_read", "fail_write"}
WorkerPcs  == {"idle", "claim"} \cup HoldingPcs

ClientPcs   == {"idle", "cancel_read", "cancel_write", "cancel_event", "retry_write"}
ClientFrame == [pc : ClientPcs, job : Jobs \cup {None}, seen : 0..100]

WorkerFrame == [ pc      : WorkerPcs,
                 job     : Jobs \cup {None},
                 verdict : {"succeeded", "failed"},  \* what the exit code maps to
                 held    : BOOLEAN,                  \* local of _wait_renewing_lease
                 silent  : ClaimAges ]               \* ticks since it last wrote

IdleFrame == [pc |-> "idle", job |-> None, verdict |-> "failed",
              held |-> FALSE, silent |-> 0]

Disturbances == {"cancel", "retry", "purge", "mishap"}

Live(j)  == jobs[j] # NoRow
Holds(w) == worker[w].pc \in HoldingPcs
Job(w)   == worker[w].job

-----------------------------------------------------------------------------
Init ==
  /\ jobs = [j \in Jobs |-> NoRow]
  /\ nextId = 1
  /\ worker = [w \in Workers |-> IdleFrame]
  /\ proc = [p \in Procs |-> "up"]
  /\ RUNNING = [p \in Procs |-> [j \in Jobs |-> None]]
  /\ orphans = {}
  /\ client = [c \in Clients |-> [pc |-> "idle", job |-> None, seen |-> 0]]
  /\ count = [d \in Disturbances |-> 0]

Disturb(d, bound) == count[d] < bound /\ count' = [count EXCEPT ![d] = @ + 1]

\* An UPDATE of row j: no effect when the row is gone.
Update(j, new) == jobs' = IF Live(j) THEN [jobs EXCEPT ![j] = new] ELSE jobs

\* Thread w moves on; a write of its own restarts its silence.
Goto(w, pc)  == worker' = [worker EXCEPT ![w].pc = pc]
Wrote(w, pc) == worker' = [worker EXCEPT ![w].pc = pc, ![w].silent = 0]
ToIdle(w)    == worker' = [worker EXCEPT ![w] = IdleFrame]

-----------------------------------------------------------------------------
(* The claim loop: _loop and claim_next. *)

\* The candidate of the SELECT: highest priority first, then oldest.
Candidate(j) ==
  /\ Live(j) /\ Claimable(jobs[j])
  /\ \A k \in Jobs : Live(k) /\ Claimable(jobs[k]) =>
       \/ jobs[k].priority < jobs[j].priority
       \/ jobs[k].priority = jobs[j].priority /\ j <= k

\* SELECT of claim_next; a thread whose pool is stopping leaves the loop instead.
ClaimSelect(w) ==
  /\ worker[w].pc = "idle"
  /\ proc[ProcOf[w]] = "up"
  /\ \E j \in Jobs :
       /\ Candidate(j)
       /\ worker' = [worker EXCEPT ![w].pc = "claim", ![w].job = j]
  /\ UNCHANGED <<jobs, nextId, proc, RUNNING, orphans, client, count>>

\* Guarded UPDATE of claim_next: on zero rows it returns None and the loop polls.
ClaimUpdate(w) ==
  /\ worker[w].pc = "claim"
  /\ LET j == Job(w) IN
       IF Live(j) /\ Claimable(jobs[j])
         THEN /\ jobs' = [jobs EXCEPT ![j] = Claim(@, w)]
              /\ Wrote(w, "enter")
         ELSE /\ ToIdle(w)
              /\ UNCHANGED jobs
  /\ UNCHANGED <<nextId, proc, RUNNING, orphans, client, count>>

-----------------------------------------------------------------------------
(* run_subprocess_job inside a Job context. *)

\* Job.__enter__: a row purged meanwhile raises, and nothing force-fails it.
Enter(w) ==
  /\ worker[w].pc = "enter"
  /\ IF Live(Job(w)) THEN Goto(w, "start_read") ELSE ToIdle(w)
  /\ UNCHANGED <<jobs, nextId, proc, RUNNING, orphans, client, count>>

\* SELECT and check of transition(to): PreconditionError unwinds to __exit__.
TransitionRead(w, from, to, next) ==
  /\ worker[w].pc = from
  /\ IF Live(Job(w)) /\ can_transition(jobs[Job(w)].status, to)
       THEN Goto(w, next)
       ELSE Goto(w, "fail_read")
  /\ UNCHANGED <<jobs, nextId, proc, RUNNING, orphans, client, count>>

StartRead(w) == TransitionRead(w, "start_read", "running", "start_write")

\* UPDATE of transition("running"): WHERE id only.
StartWrite(w) ==
  /\ worker[w].pc = "start_write"
  /\ Update(Job(w), Transitioned(jobs[Job(w)], "running"))
  /\ Wrote(w, "launch")
  /\ UNCHANGED <<nextId, proc, RUNNING, orphans, client, count>>

\* The "started" event (its insert fails on a purged job), Popen, _RUNNING.
Launch(w) ==
  /\ worker[w].pc = "launch"
  /\ IF Live(Job(w))
       THEN /\ Update(Job(w), Touch(jobs[Job(w)]))
            /\ Wrote(w, "wait")
            /\ RUNNING' = [RUNNING EXCEPT ![ProcOf[w]][Job(w)] = w]
       ELSE /\ Goto(w, "fail_read")
            /\ UNCHANGED <<jobs, RUNNING>>
  /\ UNCHANGED <<nextId, proc, orphans, client, count>>

\* A tick of _wait_renewing_lease: renew_lease, and what it answers.
Renew(w) ==
  /\ worker[w].pc = "wait"
  /\ LET r == jobs[Job(w)] IN
       /\ Update(Job(w), Touch(r))
       /\ worker' = [worker EXCEPT
            ![w].held   = Live(Job(w)) /\ r.claimed_by # None,
            ![w].silent = 0]
  /\ UNCHANGED <<nextId, proc, RUNNING, orphans, client, count>>

\* Faulty variant: the entry of _RUNNING is not popped.
ChildExitUnpopped(w) ==
  /\ worker[w].pc = "wait"
  /\ \E v \in {"succeeded", "failed"} :
       worker' = [worker EXCEPT ![w].pc = "check", ![w].verdict = v]
  /\ UNCHANGED <<jobs, nextId, proc, RUNNING, orphans, client, count>>

\* The child exits, by itself or signalled; wait() returns and the entry of
\* _RUNNING is popped, whoever's it is by now.
ChildExit(w) ==
  /\ worker[w].pc = "wait"
  /\ \E v \in {"succeeded", "failed"} :
       worker' = [worker EXCEPT ![w].pc = "check", ![w].verdict = v]
  /\ RUNNING' = [RUNNING EXCEPT ![ProcOf[w]][Job(w)] = None]
  /\ UNCHANGED <<jobs, nextId, proc, orphans, client, count>>

\* The runner re-reads the row and leaves a canceled job alone.
CheckCanceled(w) ==
  /\ worker[w].pc = "check"
  /\ IF Live(Job(w)) /\ jobs[Job(w)].status = "canceled"
       THEN ToIdle(w)
       ELSE Goto(w, "finish_read")
  /\ UNCHANGED <<jobs, nextId, proc, RUNNING, orphans, client, count>>

FinishRead(w) == TransitionRead(w, "finish_read", worker[w].verdict, "finish_write")

\* UPDATE of transition("succeeded" or "failed"): WHERE id only.
FinishWrite(w) ==
  /\ worker[w].pc = "finish_write"
  /\ Update(Job(w), Transitioned(jobs[Job(w)], worker[w].verdict))
  /\ ToIdle(w)
  /\ UNCHANGED <<nextId, proc, RUNNING, orphans, client, count>>

\* Faulty variant: force-fail whatever the status.
FailReadAnyStatus(w) ==
  /\ worker[w].pc = "fail_read"
  /\ Goto(w, "fail_write")
  /\ UNCHANGED <<jobs, nextId, proc, RUNNING, orphans, client, count>>

\* _force_fail: SELECT, then UPDATE unless the row read was terminal or gone.
FailRead(w) ==
  /\ worker[w].pc = "fail_read"
  /\ IF Live(Job(w)) /\ jobs[Job(w)].status \notin TERMINAL_STATES
       THEN Goto(w, "fail_write")
       ELSE ToIdle(w)
  /\ UNCHANGED <<jobs, nextId, proc, RUNNING, orphans, client, count>>

FailWrite(w) ==
  /\ worker[w].pc = "fail_write"
  /\ Update(Job(w), ForceFailed(jobs[Job(w)]))
  /\ ToIdle(w)
  /\ UNCHANGED <<nextId, proc, RUNNING, orphans, client, count>>

\* A statement, Popen or an outputs hook raises: inside the Job block the
\* runner goes to force-fail the job; before it (argv, log_path) or while
\* force-failing, the loop logs the error and drops the job as it is.
RaisesInBlock == {"start_read", "start_write", "launch", "check",
                  "finish_read", "finish_write"}
Raise(w) ==
  /\ Disturb("mishap", MaxMishaps)
  /\ \/ worker[w].pc \in RaisesInBlock /\ Goto(w, "fail_read")
     \/ worker[w].pc \in {"claim", "enter", "fail_read", "fail_write"} /\ ToIdle(w)
  /\ UNCHANGED <<jobs, nextId, proc, RUNNING, orphans, client>>

\* One step of thread w, child exits and failures apart.
WorkerStep(w) ==
  \/ ClaimSelect(w) \/ ClaimUpdate(w)
  \/ Enter(w) \/ StartRead(w) \/ StartWrite(w) \/ Launch(w)
  \/ CheckCanceled(w) \/ FinishRead(w) \/ FinishWrite(w)
  \/ FailRead(w) \/ FailWrite(w)

-----------------------------------------------------------------------------
(* Processes. *)

ReclaimAll ==
  jobs' = [j \in Jobs |-> IF Live(j) /\ Stale(jobs[j]) THEN Reclaimed(jobs[j])
                                                        ELSE jobs[j]]

\* stop_workers: the threads finish the job they hold and leave their loop.
StopWorkers(p) ==
  /\ proc[p] = "up"
  /\ proc' = [proc EXCEPT ![p] = "stopping"]
  /\ Disturb("mishap", MaxMishaps)
  /\ UNCHANGED <<jobs, nextId, worker, RUNNING, orphans, client>>

\* The process dies: its threads are gone, the children, each in a session of
\* its own, live on.
Crash(p) ==
  /\ proc[p] # "down"
  /\ Disturb("mishap", MaxMishaps)
  /\ proc' = [proc EXCEPT ![p] = "down"]
  /\ orphans' = orphans \cup {Job(w) : w \in {v \in Workers :
                                 ProcOf[v] = p /\ worker[v].pc = "wait"}}
  /\ worker' = [w \in Workers |-> IF ProcOf[w] = p THEN IdleFrame ELSE worker[w]]
  /\ RUNNING' = [RUNNING EXCEPT ![p] = [j \in Jobs |-> None]]
  /\ UNCHANGED <<jobs, nextId, client>>

\* A stopped pool whose threads are all out of their loop: the process exits.
Exit(p) ==
  /\ proc[p] = "stopping"
  /\ \A w \in Workers : ProcOf[w] = p => worker[w].pc = "idle"
  /\ proc' = [proc EXCEPT ![p] = "down"]
  /\ UNCHANGED <<jobs, nextId, worker, RUNNING, orphans, client, count>>

\* start_workers with reclaim_on_start.
Restart(p) ==
  /\ proc[p] = "down"
  /\ proc' = [proc EXCEPT ![p] = "up"]
  /\ ReclaimAll
  /\ UNCHANGED <<nextId, worker, RUNNING, orphans, client, count>>

\* A live child, orphaned or not, reports on its job through the repository: it
\* has the job's id in PF_JOB_ID.
HasChild(j) == j \in orphans \/ \E w \in Workers : worker[w].pc = "wait" /\ Job(w) = j

ChildReport(j) ==
  /\ HasChild(j) /\ Live(j)
  /\ jobs' = [jobs EXCEPT ![j] = Touch(@)]
  /\ UNCHANGED <<nextId, worker, proc, RUNNING, orphans, client, count>>

OrphanExit(j) ==
  /\ j \in orphans
  /\ orphans' = orphans \ {j}
  /\ UNCHANGED <<jobs, nextId, worker, proc, RUNNING, client, count>>

-----------------------------------------------------------------------------
(* Clients. *)

Create ==
  /\ nextId <= MaxJobs
  /\ \E p \in Priorities : jobs' = [jobs EXCEPT ![nextId] = NewRow(p)]
  /\ nextId' = nextId + 1
  /\ UNCHANGED <<worker, proc, RUNNING, orphans, client, count>>

ClientGoto(c, pc, j) ==
  client' = [client EXCEPT ![c] = [pc |-> pc, job |-> j, seen |-> 0]]

\* The cancel endpoint with a terminate_hook: terminate_job first.  The child
\* found in _RUNNING is signalled; that it exits is ChildExit.
Terminate(c, p, j) ==
  /\ client[c].pc = "idle"
  /\ RUNNING[p][j] # None
  /\ Disturb("cancel", MaxCancels)
  /\ ClientGoto(c, "cancel_read", j)
  /\ UNCHANGED <<jobs, nextId, worker, proc, RUNNING, orphans>>

\* cancel: SELECT and check of transition("canceled"), directly or after the hook.
CancelRead(c, j) ==
  /\ \/ client[c].pc = "idle" /\ Disturb("cancel", MaxCancels)
     \/ client[c].pc = "cancel_read" /\ client[c].job = j /\ UNCHANGED count
  /\ IF Live(j) /\ can_transition(jobs[j].status, "canceled")
       THEN ClientGoto(c, "cancel_write", j)
       ELSE ClientGoto(c, "idle", None)
  /\ UNCHANGED <<jobs, nextId, worker, proc, RUNNING, orphans>>

CancelWrite(c) ==
  /\ client[c].pc = "cancel_write"
  /\ Update(client[c].job, Transitioned(jobs[client[c].job], "canceled"))
  /\ ClientGoto(c, "cancel_event", client[c].job)
  /\ UNCHANGED <<nextId, worker, proc, RUNNING, orphans, count>>

\* The "canceled" event, in a transaction of its own, touches the lease.
CancelEvent(c) ==
  /\ client[c].pc = "cancel_event"
  /\ Update(client[c].job, Touch(jobs[client[c].job]))
  /\ ClientGoto(c, "idle", None)
  /\ UNCHANGED <<nextId, worker, proc, RUNNING, orphans, count>>

RetryRead(c, j) ==
  /\ client[c].pc = "idle"
  /\ Live(j) /\ jobs[j].status \in RetryableStates
  /\ Disturb("retry", MaxRetries)
  /\ client' = [client EXCEPT
       ![c] = [pc |-> "retry_write", job |-> j, seen |-> jobs[j].priority]]
  /\ UNCHANGED <<jobs, nextId, worker, proc, RUNNING, orphans>>

RetryWrite(c) ==
  /\ client[c].pc = "retry_write"
  /\ Update(client[c].job, Retried(jobs[client[c].job], client[c].seen))
  /\ ClientGoto(c, "idle", None)
  /\ UNCHANGED <<nextId, worker, proc, RUNNING, orphans, count>>

\* pf-jobs reclaim, on a cadence.
Reclaim ==
  /\ \E j \in Jobs : Live(j) /\ Stale(jobs[j])
  /\ ReclaimAll
  /\ UNCHANGED <<nextId, worker, proc, RUNNING, orphans, client, count>>

\* pf-jobs purge.
Purge ==
  /\ \E j \in Jobs : Live(j) /\ Purgeable(jobs[j], PurgeStatuses)
  /\ Disturb("purge", MaxPurges)
  /\ jobs' = [j \in Jobs |-> IF Live(j) /\ Purgeable(jobs[j], PurgeStatuses)
                               THEN NoRow ELSE jobs[j]]
  /\ UNCHANGED <<nextId, worker, proc, RUNNING, orphans, client>>

ClientStep(c) ==
  \/ CancelWrite(c) \/ CancelEvent(c) \/ RetryWrite(c)
  \/ \E j \in Jobs : client[c].pc = "cancel_read" /\ CancelRead(c, j)

-----------------------------------------------------------------------------
(* Time.  Under Timely the holder of a job writes, or gives it up, before  *)
(* it has been silent for longer than a lease.                              *)

Tick ==
  /\ Timely => \A w \in Workers : Holds(w) => worker[w].silent < Lease
  /\ jobs' = [j \in Jobs |-> IF Live(j) THEN Aged(jobs[j]) ELSE NoRow]
  /\ worker' = [w \in Workers |->
                  IF Holds(w) THEN [worker[w] EXCEPT !.silent = Older(@, Lease)]
                              ELSE worker[w]]
  /\ UNCHANGED <<nextId, proc, RUNNING, orphans, client, count>>

Next ==
  \/ \E w \in Workers : WorkerStep(w) \/ Renew(w) \/ ChildExit(w) \/ Raise(w)
  \/ \E p \in Procs : StopWorkers(p) \/ Crash(p) \/ Exit(p) \/ Restart(p)
  \/ \E j \in Jobs : ChildReport(j) \/ OrphanExit(j)
  \/ \E c \in Clients : ClientStep(c) \/ (\E j \in Jobs :
       CancelRead(c, j) \/ RetryRead(c, j) \/ \E p \in Procs : Terminate(c, p, j))
  \/ Create \/ Reclaim \/ Purge \/ Tick

Spec == Init /\ [][Next]_vars

\* The loops and sessions keep running what they began, children exit, a
\* supervisor restarts a dead pool, reclaim runs on its cadence, time passes.
Fairness ==
  /\ \A w \in Workers : WF_vars(WorkerStep(w)) /\ WF_vars(ChildExit(w))
  /\ \A p \in Procs : WF_vars(Restart(p)) /\ WF_vars(Exit(p))
  /\ \A j \in Jobs : WF_vars(OrphanExit(j))
  /\ \A c \in Clients : WF_vars(ClientStep(c))
  /\ WF_vars(Reclaim) /\ WF_vars(Tick)

FairSpec == Spec /\ Fairness

-----------------------------------------------------------------------------
(* Properties. *)

TypeOK ==
  /\ jobs \in [Jobs -> Row \cup {NoRow}]
  /\ nextId \in 1..(MaxJobs + 1)
  /\ worker \in [Workers -> WorkerFrame]
  /\ \A w \in Workers : worker[w].pc # "idle" => Job(w) \in Jobs
  /\ proc \in [Procs -> {"up", "stopping", "down"}]
  /\ RUNNING \in [Procs -> [Jobs -> Workers \cup {None}]]
  /\ orphans \subseteq Jobs
  /\ client \in [Clients -> ClientFrame]
  /\ \A c \in Clients : client[c].pc # "idle" => client[c].job \in Jobs
  /\ count \in [Disturbances -> Nat]

\* The two columns of the lease agree, and a settled job is never claimed: no
\* interleaving of claims, transitions, renewals and reclaims leaves a claim on
\* a row that claim_next and reclaim_stale will never look at again.
LeaseWellFormed == \A j \in Jobs : Live(j) => LeaseOK(jobs[j])

\* One job, one runner: no two threads hold the same job, wherever they stand
\* between their claim and their last write.
SingleHolder ==
  \A v, w \in Workers : Holds(v) /\ Holds(w) /\ Job(v) = Job(w) => v = w

\* A claim is at least as fresh as the last write of the thread that has it.
LeaseFollowsHolder ==
  \A w \in Workers :
    Holds(w) /\ Live(Job(w)) /\ jobs[Job(w)].claimed_by = w
    => jobs[Job(w)].claimed <= worker[w].silent

\* Why SingleHolder holds when holders are timely and nobody retries: a holder is
\* never silent for more than a lease, nobody else claims its row, and a row that
\* lost its claim (canceled, or written over by a lost update) is not pending.
HolderInv ==
  \A w \in Workers : Holds(w) =>
    /\ worker[w].silent <= Lease
    /\ Live(Job(w)) =>
         \/ jobs[Job(w)].claimed_by = w
         \/ jobs[Job(w)].claimed_by = None /\ jobs[Job(w)].status # "pending"

\* "A job that keeps reporting is never reclaimed however long it runs": a job
\* goes back to the queue only from a claimant silent for a whole lease window.
ReportingJobNeverReclaimed ==
  [][\A w \in Workers :
       LET j == Job(w) IN
         /\ Holds(w) /\ Live(j) /\ jobs[j].claimed_by = w
         /\ jobs'[j] # NoRow /\ jobs[j].status = "running"
         /\ jobs'[j].status = "pending"
         => worker[w].silent > Lease \/ \E c \in Clients : RetryWrite(c)]_vars

\* A runner writes a status only on a row nobody else has claimed by then.
WritesOwnRow ==
  [][\A w \in Workers :
       LET j == Job(w) IN
         (StartWrite(w) \/ FinishWrite(w) \/ FailWrite(w)) /\ Live(j)
         => jobs[j].claimed_by \in {w, None}]_vars

\* terminate_job finds every child whose runner is alive to wait for it, and
\* nothing else.
RunningIsExact ==
  \A p \in Procs, j \in Jobs, w \in Workers :
    RUNNING[p][j] = w <=> ProcOf[w] = p /\ worker[w].pc = "wait" /\ Job(w) = j

\* Once a job is canceled while its runner waits for the child, or is about to
\* re-read the row, or while it has no runner, no runner overwrites the verdict.
CancelSticks ==
  \A j \in Jobs :
    [](/\ Live(j) /\ jobs[j].status = "canceled"
       /\ \A w \in Workers : Job(w) = j => worker[w].pc \in {"wait", "check"}
       => [](Live(j) => jobs[j].status = "canceled"))

-----------------------------------------------------------------------------
(* Without cancels the queue implements JobDispatch. *)

StateOf(j) ==
  IF ~Live(j) THEN IF j < nextId THEN "purged" ELSE "absent"
  ELSE IF jobs[j].status \in TERMINAL_STATES THEN "settled" ELSE "queued"

HolderOf(j) ==
  IF \E w \in Workers : Holds(w) /\ Job(w) = j
    THEN CHOOSE w \in Workers : Holds(w) /\ Job(w) = j
    ELSE None

Dispatch == INSTANCE JobDispatch WITH
  state  <- [j \in Jobs |-> StateOf(j)],
  holder <- [j \in Jobs |-> HolderOf(j)]

\* The promise of the queue, step by step: one taker per job, only the taker
\* settles it, a settled job leaves that state by a retry or a purge only.
ImplementsDispatch == Dispatch!Spec

\* Every job created is settled in the end, whatever crashed or failed on the way.
JobSettles == Dispatch!EventuallySettled
=============================================================================
