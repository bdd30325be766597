------------------------------ MODULE JobSteps ------------------------------
(***************************************************************************)
(* The step history of one job (Job.step, find_step, start_step,           *)
(* finish_step): runners work through a plan of named steps, one after the *)
(* other, and resume where an earlier run succeeded.                       *)
(*                                                                         *)
(* How a job is claimed is the subject of JobQueue.  Here a run begins on  *)
(* a pending job; a second runner joins a running one only when its lease  *)
(* was lost while the first still works (bounded by MaxTakeovers).         *)
(***************************************************************************)
EXTENDS Naturals, FiniteSets, FiniteSetsExt

CONSTANTS
  Runners,      \* threads that open the job
  Procs, ProcOf,\* their processes: _step_creation_lock is one per process
  NSteps,       \* the plan is the steps 1..NSteps, named by their position
  AutoTrack,    \* auto_track_progress of the kind
  None,
  MaxRuns,      \* bound: times the job is opened
  MaxTakeovers, \* bound: of those, while another runner has it
  MaxCrashes    \* bound: crashes of processes

ASSUME ProcAssumption   == ProcOf \in [Runners -> Procs]
ASSUME PlanAssumption   == NSteps \in Nat /\ AutoTrack \in BOOLEAN
ASSUME BoundsAssumption == {MaxRuns, MaxTakeovers, MaxCrashes} \subseteq Nat
ASSUME NoneAssumption   == None \notin Runners

Names    == 1..NSteps
Outcomes == {"succeeded", "failed"}

VARIABLES
  status,       \* of the job
  steps,        \* the rows of job_steps: a set, the index is a column
  progress,     \* jobs.progress_current
  lock,         \* _step_creation_lock of each process
  runner,       \* the Job block of each runner
  count         \* runs, takeovers, crashes so far, for the bounds

vars == <<status, steps, progress, lock, runner, count>>

Pcs == {"idle", "find", "lock", "insert", "body", "done", "fail"}

Step == [index : Nat, name : Names, status : {"running"} \cup Outcomes]

\* The step a runner is at, the index it read or was given.
Frame     == [pc : Pcs, name : 1..(NSteps + 1), index : Nat]
IdleFrame == [pc |-> "idle", name |-> 1, index |-> 0]

At(r, pc)      == runner[r].pc = pc
Active         == {r \in Runners : ~At(r, "idle")}
Goto(r, pc)    == runner' = [runner EXCEPT ![r].pc = pc]
ToIdle(r)      == runner' = [runner EXCEPT ![r] = IdleFrame]
Following(f)   == [f EXCEPT !.name = f.name + 1,
                            !.pc = IF f.name < NSteps THEN "find" ELSE "done"]
Advance(r)     == runner' = [runner EXCEPT ![r] = Following(runner[r])]
Spend(k)       == count' = [count EXCEPT ![k] = @ + 1]

Named(n)   == {s \in steps : s.name = n}
Indices    == {s.index : s \in steps}

-----------------------------------------------------------------------------
Init ==
  /\ status = "pending"
  /\ steps = {}
  /\ progress = 0
  /\ lock = [p \in Procs |-> None]
  /\ runner = [r \in Runners |-> IdleFrame]
  /\ count = [k \in {"runs", "takeovers", "crashes"} |-> 0]

\* A run begins: claim and transition("running").
Open(r) ==
  /\ At(r, "idle") /\ count["runs"] < MaxRuns
  /\ \/ status = "pending" /\ Active = {} /\ Spend("runs")
     \/ /\ status = "running" /\ Active # {} /\ count["takeovers"] < MaxTakeovers
        /\ count' = [count EXCEPT !["runs"] = @ + 1, !["takeovers"] = @ + 1]
  /\ status' = "running"
  /\ runner' = [runner EXCEPT
       ![r] = [IdleFrame EXCEPT !.pc = IF NSteps = 0 THEN "done" ELSE "find"]]
  /\ UNCHANGED <<steps, progress, lock>>

\* find_step: the row of that name with the highest index, if there is one.
\* (LatestAscending is faulty: it orders the other way.)
LatestAscending(n) == {s \in Named(n) : \A t \in Named(n) : s.index <= t.index}
Latest(n) == {s \in Named(n) : \A t \in Named(n) : t.index <= s.index}

\* Faulty variant: every prior row counts as done.
SkipsAnyStatus(n) == Latest(n) # {}

Skips(n) == \E s \in Latest(n) : s.status = "succeeded"

Find(r) ==
  /\ At(r, "find")
  /\ IF Skips(runner[r].name) THEN Advance(r) ELSE Goto(r, "lock")
  /\ UNCHANGED <<status, steps, progress, lock, count>>

\* Faulty variant: no increment.
NextIndexUnincremented == IF Indices = {} THEN 0 - 1 ELSE Max(Indices)

NextIndex == IF Indices = {} THEN 0 ELSE Max(Indices) + 1

\* Faulty variant: start_step without the lock.
StartReadUnlocked(r) ==
  /\ At(r, "lock")
  /\ lock' = [lock EXCEPT ![ProcOf[r]] = r]
  /\ runner' = [runner EXCEPT ![r].pc = "insert", ![r].index = NextIndex]
  /\ UNCHANGED <<status, steps, progress, count>>

\* start_step: under the lock of the process, SELECT MAX.
StartRead(r) ==
  /\ At(r, "lock")
  /\ lock[ProcOf[r]] = None
  /\ lock' = [lock EXCEPT ![ProcOf[r]] = r]
  /\ runner' = [runner EXCEPT ![r].pc = "insert", ![r].index = NextIndex]
  /\ UNCHANGED <<status, steps, progress, count>>

\* The INSERT: UNIQUE(job_id, step_index) refuses an index that is taken, and the
\* error leaves the block.  The lock is released either way.
Collides(r) == runner[r].index \in Indices

\* Faulty variant: no unique constraint.
StartWriteUnchecked(r) ==
  /\ At(r, "insert")
  /\ steps' = steps \cup
       {[index |-> runner[r].index, name |-> runner[r].name, status |-> "running"]}
  /\ Goto(r, "body")
  /\ lock' = [lock EXCEPT ![ProcOf[r]] = None]
  /\ UNCHANGED <<status, progress, count>>

StartWrite(r) ==
  /\ At(r, "insert")
  /\ IF Collides(r)
       THEN Goto(r, "fail") /\ UNCHANGED steps
       ELSE /\ steps' = steps \cup
                 {[index |-> runner[r].index, name |-> runner[r].name, status |-> "running"]}
            /\ Goto(r, "body")
  /\ lock' = [lock EXCEPT ![ProcOf[r]] = None]
  /\ UNCHANGED <<status, progress, count>>

Own(r) == CHOOSE s \in steps : s.index = runner[r].index

\* Faulty variant: a failed step is not tallied.
FinishStepSucceededOnly(r, outcome) ==
  /\ steps' = (steps \ {Own(r)}) \cup {[Own(r) EXCEPT !.status = outcome]}
  /\ progress' = IF AutoTrack /\ outcome = "succeeded" THEN progress + 1 ELSE progress

\* finish_step: the row and the tally in one transaction.
FinishStep(r, outcome) ==
  /\ steps' = (steps \ {Own(r)}) \cup {[Own(r) EXCEPT !.status = outcome]}
  /\ progress' = IF AutoTrack THEN progress + 1 ELSE progress

\* The block of the step ends: well, with handle.error set, or by raising.
Finish(r) ==
  /\ At(r, "body")
  /\ \/ \E outcome \in Outcomes : FinishStep(r, outcome) /\ Advance(r)
     \/ FinishStep(r, "failed") /\ Goto(r, "fail")
  /\ UNCHANGED <<status, lock, count>>

\* The block of the job ends: transition("succeeded"); refused, it raises.
Done(r) ==
  /\ At(r, "done")
  /\ IF status = "running" THEN status' = "succeeded" /\ ToIdle(r)
                           ELSE Goto(r, "fail") /\ UNCHANGED status
  /\ UNCHANGED <<steps, progress, lock, count>>

\* _force_fail.
Fail(r) ==
  /\ At(r, "fail")
  /\ status' = IF status \in {"succeeded", "failed"} THEN status ELSE "failed"
  /\ ToIdle(r)
  /\ UNCHANGED <<steps, progress, lock, count>>

\* A process dies: its locks with it, its step rows stay "running".
Crash(p) ==
  /\ count["crashes"] < MaxCrashes
  /\ Spend("crashes")
  /\ runner' = [r \in Runners |-> IF ProcOf[r] = p THEN IdleFrame ELSE runner[r]]
  /\ lock' = [lock EXCEPT ![p] = None]
  /\ UNCHANGED <<status, steps, progress>>

\* reclaim_stale, after the runner died, or retry, when the job failed; neither
\* touches steps or progress.
Requeue ==
  /\ \/ status = "running" /\ Active = {}
     \/ status = "failed"
  /\ status' = "pending"
  /\ UNCHANGED <<steps, progress, lock, runner, count>>

Next ==
  \/ \E r \in Runners : \/ Open(r) \/ Find(r) \/ StartRead(r) \/ StartWrite(r)
                        \/ Finish(r) \/ Done(r) \/ Fail(r)
  \/ \E p \in Procs : Crash(p)
  \/ Requeue

Spec == Init /\ [][Next]_vars

-----------------------------------------------------------------------------
(* Properties. *)

TypeOK ==
  /\ status \in {"pending", "running", "succeeded", "failed"}
  /\ steps \subseteq Step
  /\ progress \in Nat
  /\ lock \in [Procs -> Runners \cup {None}]
  /\ runner \in [Runners -> Frame]
  /\ \A r \in Runners : runner[r].pc \in {"find", "lock", "insert", "body"}
                          => runner[r].name \in Names
  /\ count \in [{"runs", "takeovers", "crashes"} -> Nat]

\* The rows are numbered 0, 1, 2, ... whoever inserted them and whatever crashed:
\* no index is given twice or left out.
IndicesDense ==
  /\ Indices = 0..(Cardinality(steps) - 1)
  /\ \A s, t \in steps : s.index = t.index => s = t

\* Each runner in a step has a row of its own, still "running": no runner finishes
\* a row twice or another's.
BodyOwnsRow ==
  /\ \A r \in Runners : At(r, "body") =>
       [index |-> runner[r].index, name |-> runner[r].name, status |-> "running"] \in steps
  /\ \A q, r \in Runners :
       At(q, "body") /\ At(r, "body") /\ runner[q].index = runner[r].index => q = r

\* "so parallel workers can't race to claim the same step_index": while a thread is
\* between its SELECT and its INSERT, no other thread of its process inserts that index.
NoRaceInProcess ==
  [][\A q, r \in Runners :
       /\ q # r /\ ProcOf[q] = ProcOf[r]
       /\ At(r, "insert") /\ StartWrite(q) /\ steps' # steps
       => runner[q].index # runner[r].index]_vars

\* With auto_track_progress the tally counts every finished row once, whatever was
\* skipped, failed, or left behind by a crash.
ProgressTallies ==
  AutoTrack => progress = Cardinality({s \in steps : s.status \in Outcomes})

\* A step that succeeded in an earlier run is not run again after a crash or a retry,
\* as long as no two runners overlapped.
NoRework ==
  [][\A r \in Runners : StartWrite(r) /\ steps' # steps /\ count["takeovers"] = 0
       => \A s \in Named(runner[r].name) : s.status # "succeeded"]_vars

\* A job that is succeeded has finished every step of its plan, in whichever run.
SucceededIsComplete ==
  status = "succeeded" => \A n \in Names : \E s \in Named(n) : s.status \in Outcomes

\* The rows of the steps are numbered without a gap, and a runner in a step has its own.
RowsAreOwned == IndicesDense /\ BodyOwnsRow

\* What a job says of its steps is so: the tally of a running one, and that a succeeded one did all.
ProgressIsTrue == ProgressTallies /\ SucceededIsComplete

\* No thread starts a step at an index that another thread of its process is about to take, and
\* none starts a step that has succeeded.
StartsOnce == NoRaceInProcess /\ NoRework
=============================================================================
