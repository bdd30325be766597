----------------------------- MODULE JobSubmit ------------------------------
(***************************************************************************)
(* Background submission of jobs of one kind (jobs/submit.py): the dedup   *)
(* scan, submit_tracked and its body inside a Job block, submit_detached,  *)
(* which runs a service that creates its own job and then looks for it.    *)
(*                                                                         *)
(* Each session submits once.  Every call of JobRepo is one step: what     *)
(* happens inside a transition is the subject of JobQueue.                 *)
(***************************************************************************)
EXTENDS Naturals, Sequences, FiniteSets

CONSTANTS
  Sessions,     \* concurrent submitters
  Scopes,       \* what dedup_key tells apart in the inputs
  ScanLimit,    \* _DEDUP_SCAN_LIMIT
  None,
  Serial,       \* TRUE: submissions for one scope come one after the other
  MaxTick,      \* bound: values of created_at
  MaxCancels, MaxCrashes  \* bounds

ASSUME LimitAssumption  == ScanLimit \in Nat \ {0}
ASSUME OptionAssumption == Serial \in BOOLEAN
ASSUME BoundAssumption  == {MaxTick, MaxCancels, MaxCrashes} \subseteq Nat

Terminal == {"succeeded", "failed", "canceled"}
Live     == {"pending", "running", "partial"}
Verdicts == {"succeeded", "failed", "partial"}

ASSUME NoneAssumption   == None \notin Nat \cup Live \cup Terminal

VARIABLES
  jobs,         \* the rows in the order of their ids: scope, status, created_at
  clock,        \* the value of created_at's clock
  session,      \* the submitting call
  thread,       \* the daemon thread a session spawned
  count

vars == <<jobs, clock, session, thread, count>>

Ids == DOMAIN jobs

SessionPcs == {"idle", "check", "create", "before", "await", "alive", "recheck",
               "returned", "rejected"}
ThreadPcs  == {"none", "open", "work", "close", "fail", "service", "own", "dead"}

LiveIn(scope) == {i \in Ids : jobs[i].scope = scope /\ jobs[i].status \in Live}

-----------------------------------------------------------------------------
Init ==
  /\ jobs = << >>
  /\ clock = 0
  /\ session = [s \in Sessions |-> [pc |-> "idle", mode |-> "tracked", scope |-> None,
                                    after |-> 0, result |-> None]]
  /\ thread = [s \in Sessions |-> [pc |-> "none", job |-> None, verdict |-> None]]
  /\ count = [k \in {"cancel", "crash"} |-> 0]

Goto(s, pc)   == session' = [session EXCEPT ![s].pc = pc]
Answer(s, id) == session' = [session EXCEPT ![s].pc = "returned", ![s].result = id]
Thread(s, pc) == thread' = [thread EXCEPT ![s].pc = pc]

-----------------------------------------------------------------------------
(* The scans.  find(kind, limit) orders by created_at alone, newest first: it *)
(* may return any set of rows that leaves out no newer one, and equal         *)
(* timestamps come in any order.                                              *)

ScanSize == IF Len(jobs) < ScanLimit THEN Len(jobs) ELSE ScanLimit

Scans == {S \in SUBSET Ids :
            /\ Cardinality(S) = ScanSize
            /\ \A i \in S, k \in Ids \ S : jobs[i].created >= jobs[k].created}

\* What _running_job_for may answer: is there a live match?
RunningAnswers(scope) == {S \cap LiveIn(scope) # {} : S \in Scans}

\* Faulty variant: None, not 0, when nothing matches.
LatestAnswersNull(scope) ==
  UNION {LET match == {i \in S : jobs[i].scope = scope} IN
         IF match = {} THEN {None}
         ELSE {i \in match : \A k \in match : jobs[i].created >= jobs[k].created} : S \in Scans}

\* What _latest_job_id may answer.
LatestAnswers(scope) ==
  UNION {LET match == {i \in S : jobs[i].scope = scope} IN
         IF match = {} THEN {0}
         ELSE {i \in match : \A k \in match : jobs[i].created >= jobs[k].created} : S \in Scans}

-----------------------------------------------------------------------------
(* Submitting. *)

InFlight(scope) == \E t \in Sessions :
  /\ session[t].scope = scope
  /\ \/ session[t].pc \notin {"idle", "returned", "rejected"}
     \/ thread[t].pc = "service"

Begin(s) ==
  /\ session[s].pc = "idle"
  /\ \E scope \in Scopes, mode \in {"tracked", "detached"} :
       /\ Serial => ~InFlight(scope)
       /\ session' = [session EXCEPT ![s].pc = "check", ![s].scope = scope, ![s].mode = mode]
  /\ UNCHANGED <<jobs, clock, thread, count>>

\* Faulty variant: dedup is not applied.
CheckNothing(s) ==
  /\ session[s].pc = "check"
  /\ Goto(s, IF session[s].mode = "tracked" THEN "create" ELSE "before")
  /\ UNCHANGED <<jobs, clock, thread, count>>

\* The dedup scan: JobAlreadyRunning, or on to the submission.
Check(s) ==
  /\ session[s].pc = "check"
  /\ \E running \in RunningAnswers(session[s].scope) :
       Goto(s, IF running THEN "rejected"
               ELSE IF session[s].mode = "tracked" THEN "create" ELSE "before")
  /\ UNCHANGED <<jobs, clock, thread, count>>

NewJob(scope) ==
  jobs' = Append(jobs, [scope |-> scope, status |-> "pending", created |-> clock])

\* submit_tracked: create, spawn the body, answer at once.
CreateTracked(s) ==
  /\ session[s].pc = "create"
  /\ NewJob(session[s].scope)
  /\ Answer(s, Len(jobs) + 1)
  /\ thread' = [thread EXCEPT ![s].pc = "open", ![s].job = Len(jobs) + 1]
  /\ UNCHANGED <<clock, count>>

\* Faulty variant: the latest id is not looked up before the service runs.
BeforeIgnored(s) ==
  /\ session[s].pc = "before"
  /\ Goto(s, "await")
  /\ Thread(s, "service")
  /\ UNCHANGED <<jobs, clock, count>>

\* submit_detached: the latest id before, and the service is spawned.
Before(s) ==
  /\ session[s].pc = "before"
  /\ \E id \in LatestAnswers(session[s].scope) :
       session' = [session EXCEPT ![s].pc = "await", ![s].after = id]
  /\ Thread(s, "service")
  /\ UNCHANGED <<jobs, clock, count>>

\* _await_new_job: poll; on a miss look whether the thread is alive; when it is
\* dead, look once more; give up at the deadline.
AwaitPoll(s) ==
  /\ session[s].pc = "await"
  /\ \E id \in LatestAnswers(session[s].scope) :
       IF id > session[s].after THEN Answer(s, id) ELSE Goto(s, "alive")
  /\ UNCHANGED <<jobs, clock, thread, count>>

AwaitAlive(s) ==
  /\ session[s].pc = "alive"
  /\ Goto(s, IF thread[s].pc = "dead" THEN "recheck" ELSE "await")
  /\ UNCHANGED <<jobs, clock, thread, count>>

\* Faulty variant: a dead thread means that there is no job.
AwaitRecheckNone(s) ==
  /\ session[s].pc = "recheck"
  /\ Answer(s, None)
  /\ UNCHANGED <<jobs, clock, thread, count>>

AwaitRecheck(s) ==
  /\ session[s].pc = "recheck"
  /\ \E id \in LatestAnswers(session[s].scope) :
       Answer(s, IF id > session[s].after THEN id ELSE None)
  /\ UNCHANGED <<jobs, clock, thread, count>>

AwaitTimeout(s) ==
  /\ session[s].pc = "await"
  /\ thread[s].pc # "dead"
  /\ Answer(s, None)
  /\ UNCHANGED <<jobs, clock, thread, count>>

-----------------------------------------------------------------------------
(* The body of submit_tracked. *)

Job(s)         == thread[s].job
SetStatus(i, x) == jobs' = [jobs EXCEPT ![i].status = x]

\* transition("running"); refused when the job was canceled: the block raises.
Open(s) ==
  /\ thread[s].pc = "open"
  /\ IF jobs[Job(s)].status = "pending"
       THEN SetStatus(Job(s), "running") /\ Thread(s, "work")
       ELSE Thread(s, "fail") /\ UNCHANGED jobs
  /\ UNCHANGED <<clock, session, count>>

\* run(progress_callback) returns, raises, or settles the job itself through the
\* repository before it returns.
Work(s) ==
  /\ thread[s].pc = "work"
  /\ \/ Thread(s, "close") /\ UNCHANGED jobs
     \/ Thread(s, "fail") /\ UNCHANGED jobs
     \/ \E v \in Verdicts :
          /\ jobs[Job(s)].status = "running"
          /\ SetStatus(Job(s), v)
          /\ thread' = [thread EXCEPT ![s].pc = "close", ![s].verdict = v]
  /\ UNCHANGED <<clock, session, count>>

\* Faulty variant: the refused transition is swallowed.
CloseSwallows(s) ==
  /\ thread[s].pc = "close"
  /\ IF jobs[Job(s)].status = "running" THEN SetStatus(Job(s), "succeeded") ELSE UNCHANGED jobs
  /\ Thread(s, "dead")
  /\ UNCHANGED <<clock, session, count>>

\* job.status is the row as it was after transition("running"), hence never
\* terminal here: transition("succeeded") is always tried.
Close(s) ==
  /\ thread[s].pc = "close"
  /\ IF jobs[Job(s)].status = "running"
       THEN SetStatus(Job(s), "succeeded") /\ Thread(s, "dead")
       ELSE Thread(s, "fail") /\ UNCHANGED jobs
  /\ UNCHANGED <<clock, session, count>>

\* Faulty variant: _force_fail overwrites a terminal status.
FailAnyStatus(s) ==
  /\ thread[s].pc = "fail"
  /\ SetStatus(Job(s), "failed")
  /\ Thread(s, "dead")
  /\ UNCHANGED <<clock, session, count>>

\* Job.__exit__ and _force_fail; the error is logged and the thread ends.
Fail(s) ==
  /\ thread[s].pc = "fail"
  /\ IF jobs[Job(s)].status \in Terminal THEN UNCHANGED jobs ELSE SetStatus(Job(s), "failed")
  /\ Thread(s, "dead")
  /\ UNCHANGED <<clock, session, count>>

(* The service of submit_detached creates a job of its own, or finds nothing to *)
(* do; it settles the job it created.                                            *)

ServiceCreates(s) ==
  /\ thread[s].pc = "service"
  /\ NewJob(session[s].scope)
  /\ thread' = [thread EXCEPT ![s].pc = "own", ![s].job = Len(jobs) + 1]
  /\ UNCHANGED <<clock, session, count>>

ServiceEnds(s) ==
  /\ \/ thread[s].pc = "service" /\ UNCHANGED jobs
     \/ /\ thread[s].pc = "own"
        /\ \/ jobs[Job(s)].status \in Terminal /\ UNCHANGED jobs
           \/ /\ jobs[Job(s)].status \in Live
              /\ \E v \in {"succeeded", "failed"} : SetStatus(Job(s), v)
  /\ Thread(s, "dead")
  /\ UNCHANGED <<clock, session, count>>

-----------------------------------------------------------------------------
(* The rest of the system. *)

Cancel(i) ==
  /\ jobs[i].status \in Live
  /\ count["cancel"] < MaxCancels
  /\ count' = [count EXCEPT !["cancel"] = @ + 1]
  /\ SetStatus(i, "canceled")
  /\ UNCHANGED <<clock, session, thread>>

\* The process dies with its sessions and threads; the rows stay as they are.
Crash ==
  /\ count["crash"] < MaxCrashes
  /\ count' = [count EXCEPT !["crash"] = @ + 1]
  /\ session' = [s \in Sessions |-> IF session[s].pc \in {"idle", "returned", "rejected"}
                                      THEN session[s]
                                      ELSE [session[s] EXCEPT !.pc = "rejected"]]
  /\ thread' = [s \in Sessions |-> IF thread[s].pc = "none" THEN thread[s]
                                   ELSE [thread[s] EXCEPT !.pc = "dead"]]
  /\ UNCHANGED <<jobs, clock>>

\* created_at has the resolution of the database's clock: jobs may share a value.
ClockTick ==
  /\ clock < MaxTick
  /\ clock' = clock + 1
  /\ UNCHANGED <<jobs, session, thread, count>>

SessionStep(s) ==
  \/ Check(s) \/ CreateTracked(s) \/ Before(s)
  \/ AwaitPoll(s) \/ AwaitAlive(s) \/ AwaitRecheck(s)

ThreadStep(s) ==
  Open(s) \/ Work(s) \/ Close(s) \/ Fail(s) \/ ServiceCreates(s) \/ ServiceEnds(s)

Next ==
  \/ \E s \in Sessions : Begin(s) \/ SessionStep(s) \/ AwaitTimeout(s) \/ ThreadStep(s)
  \/ \E i \in Ids : Cancel(i)
  \/ Crash \/ ClockTick

Spec == Init /\ [][Next]_vars

\* Threads run, calls go on, and the deadline of _await_new_job passes.
FairSpec ==
  /\ Spec
  /\ \A s \in Sessions : WF_vars(SessionStep(s)) /\ WF_vars(ThreadStep(s))

-----------------------------------------------------------------------------
(* Properties. *)

TypeOK ==
  /\ jobs \in Seq([scope : Scopes, status : Live \cup Terminal, created : Nat])
  /\ clock \in Nat
  /\ session \in [Sessions -> [pc : SessionPcs, mode : {"tracked", "detached"},
                               scope : Scopes \cup {None}, after : Nat,
                               result : Nat \cup {None}]]
  /\ thread \in [Sessions -> [pc : ThreadPcs, job : Nat \cup {None},
                              verdict : Verdicts \cup {None}]]
  /\ count \in [{"cancel", "crash"} -> Nat]

\* Dedup does its work when submissions for a scope do not overlap, whatever else
\* is submitted, canceled or lost meanwhile: one live job per scope.
OneLivePerScope == \A scope \in Scopes : Cardinality(LiveIn(scope)) <= 1

DistinctTimes == \A i, k \in Ids : jobs[i].created = jobs[k].created => i = k

\* A submission is answered with the job it caused ("Returns the created job's id"),
\* if no two jobs were created within one tick of the database's clock.
ResolvesOwnJob ==
  DistinctTimes =>
    \A s \in Sessions : session[s].result # None => session[s].result = thread[s].job

\* "... or None when the service decided there was nothing to do": once the thread
\* was seen dead, None means that it created no job, with the same exception.
NoneMeansNothing ==
  [][\A s \in Sessions :
       AwaitRecheck(s) /\ session'[s].result = None /\ DistinctTimes
       => thread[s].job = None]_vars

\* The job ends as its work decided, or as it was canceled: the late
\* transition("succeeded") and the force-fail after it change nothing.
VerdictKept ==
  [][\A s \in Sessions :
       /\ thread[s].pc \in {"close", "fail"} /\ thread[s].verdict \in Terminal
       => jobs'[Job(s)].status = jobs[Job(s)].status]_vars

\* Every job submitted is settled, or the process died.
SubmittedSettles ==
  \A s \in Sessions : thread[s].job # None ~>
    \/ thread[s].job # None /\ jobs[Job(s)].status \in Terminal
    \/ count["crash"] > 0

\* "Raises JobAlreadyRunning: dedup_key matched a non-terminal same-kind job": no
\* job is created for a scope that has a live one.
CreatesOnlyWhenFree ==
  [][\A s \in Sessions :
       CreateTracked(s) => LiveIn(session[s].scope) = {}]_vars

\* A submission's answer is the job it caused, or none because there is none.
AnswersOwnJob == []ResolvesOwnJob /\ NoneMeansNothing
=============================================================================
