-------------------------- MODULE JobQueueTheorems --------------------------
(* Theorems of JobTable and JobQueue, for every instance of their constants. *)
EXTENDS JobQueue, TLAPS

-----------------------------------------------------------------------------
(* JobTable: what each statement on a row of the jobs table preserves. *)

\* A timestamp stays in range when it ages.
LEMMA OlderType ==
  ASSUME NEW window \in Nat, NEW age \in 0..(window + 1) \cup {None}
  PROVE  /\ Older(age, window) \in 0..(window + 1) \cup {None}
         /\ Older(age, window) = None <=> age = None
  BY NullAssumption DEF Older

\* Every statement turns a row of the table into a row of the table.
LEMMA StatementsType ==
  ASSUME NEW r \in Row
  PROVE  /\ \A w \in Workers : Claim(r, w) \in Row
         /\ \A s \in Statuses : Transitioned(r, s) \in Row
         /\ Touch(r) \in Row
         /\ ForceFailed(r) \in Row
         /\ \A x \in 0..100 : Retried(r, x) \in Row
         /\ Reclaimed(r) \in Row
         /\ Aged(r) \in Row
<1>1. 0 \in ClaimAges /\ 0 \in FinishAges
  BY LeaseAssumption, RetentionAssumption DEF ClaimAges, FinishAges
<1>2. "pending" \in Statuses /\ "failed" \in Statuses
  BY DEF Statuses
<1>3. \A x \in 0..100 : (IF x + 10 > 100 THEN 100 ELSE x + 10) \in 0..100
  OBVIOUS
<1>4. \A q \in Row : Touch(q) \in Row
  BY <1>1 DEF Touch, Row
<1>5. \A w \in Workers : Claim(r, w) \in Row
  BY <1>1 DEF Claim, Row
<1>6. \A s \in Statuses : Settled(r, s) \in Row /\ [r EXCEPT !.status = s] \in Row
  BY <1>1 DEF Settled, Row
<1>7. \A s \in Statuses : Transitioned(r, s) \in Row
  BY <1>4, <1>6 DEF Transitioned
<1>8. ForceFailed(r) \in Row
  BY <1>2, <1>6 DEF ForceFailed
<1>9. (\A x \in 0..100 : Retried(r, x) \in Row) /\ Reclaimed(r) \in Row
  BY <1>2, <1>3 DEF Retried, Reclaimed, Row
<1>10. Aged(r) \in Row
  <2>1. Older(r.claimed, Lease) \in ClaimAges \cup {None}
    BY OlderType, LeaseAssumption DEF ClaimAges, Row
  <2>2. Older(r.finished, Retention) \in FinishAges \cup {None}
    BY OlderType, RetentionAssumption DEF FinishAges, Row
  <2> QED  BY <2>1, <2>2 DEF Aged, Row
<1> QED  BY <1>4, <1>5, <1>7, <1>8, <1>9, <1>10

\* Every statement keeps the lease of a row well formed.
LEMMA StatementsLeaseOK ==
  ASSUME NEW r \in Row, LeaseOK(r)
  PROVE  /\ \A w \in Workers : Claimable(r) => LeaseOK(Claim(r, w))
         /\ \A s \in Statuses : LeaseOK(Transitioned(r, s))
         /\ LeaseOK(Touch(r))
         /\ LeaseOK(ForceFailed(r))
         /\ \A x : LeaseOK(Retried(r, x))
         /\ LeaseOK(Reclaimed(r))
         /\ LeaseOK(Aged(r))
<1> USE LeaseAssumption, RetentionAssumption, NullAssumption
        DEF Row, LeaseOK, Statuses, TERMINAL_STATES, ClaimAges, FinishAges
<1>1. LeaseOK(Touch(r))
  BY DEF Touch
<1>2. \A w \in Workers : Claimable(r) => LeaseOK(Claim(r, w))
  BY DEF Claimable, Claim
<1>3. \A s \in Statuses : LeaseOK(Transitioned(r, s))
  BY DEF Transitioned, Settled, Touch
<1>4. LeaseOK(ForceFailed(r)) /\ (\A x : LeaseOK(Retried(r, x))) /\ LeaseOK(Reclaimed(r))
  BY DEF ForceFailed, Settled, Retried, Reclaimed
<1>5. LeaseOK(Aged(r))
  BY OlderType DEF Aged
<1> QED  BY <1>1, <1>2, <1>3, <1>4, <1>5

\* A job is created as a well-formed row.
LEMMA NewRowType ==
  ASSUME NEW p \in 0..100
  PROVE  NewRow(p) \in Row /\ LeaseOK(NewRow(p))
  BY DEF NewRow, Row, Statuses, LeaseOK, TERMINAL_STATES

-----------------------------------------------------------------------------
(* How the building blocks of the actions change the state. *)

\* A thread that moves on, writes, or returns to its loop keeps its type.
LEMMA FrameType ==
  ASSUME TypeOK, NEW w \in Workers, NEW pc \in WorkerPcs,
         pc # "idle" => Job(w) \in Jobs,
         Goto(w, pc) \/ Wrote(w, pc) \/ ToIdle(w)
  PROVE  /\ worker' \in [Workers -> WorkerFrame]
         /\ \A v \in Workers : worker'[v].pc # "idle" => Job(v)' \in Jobs
<1>1. worker \in [Workers -> WorkerFrame]
  BY DEF TypeOK
<1>2. \A v \in Workers : worker[v].pc # "idle" => Job(v) \in Jobs
  BY DEF TypeOK
<1>3. 0 \in ClaimAges
  BY LeaseAssumption DEF ClaimAges
<1>4. IdleFrame \in WorkerFrame /\ IdleFrame.pc = "idle"
  BY <1>3 DEF IdleFrame, WorkerFrame, WorkerPcs
<1>5. CASE Goto(w, pc)
  BY <1>1, <1>2, <1>5 DEF Goto, WorkerFrame, Job
<1>6. CASE Wrote(w, pc)
  BY <1>1, <1>2, <1>3, <1>6 DEF Wrote, WorkerFrame, Job
<1>7. CASE ToIdle(w)
  BY <1>1, <1>2, <1>4, <1>7 DEF ToIdle, Job
<1> QED  BY <1>5, <1>6, <1>7

\* An UPDATE that matches a row with a row keeps the table's type.
LEMMA UpdateType ==
  ASSUME TypeOK, NEW j \in Jobs, NEW new, Live(j) => new \in Row, Update(j, new)
  PROVE  jobs' \in [Jobs -> Row \cup {NoRow}]
  BY DEF TypeOK, Update, Live

\* The rest of the type invariant, for steps that leave the rest alone.
LEMMA RestType ==
  ASSUME TypeOK,
         jobs' \in [Jobs -> Row \cup {NoRow}],
         worker' \in [Workers -> WorkerFrame],
         \A w \in Workers : worker'[w].pc # "idle" => Job(w)' \in Jobs,
         UNCHANGED <<nextId, proc, client>>,
         RUNNING' \in [Procs -> [Jobs -> Workers \cup {None}]],
         orphans' \subseteq Jobs,
         count' \in [Disturbances -> Nat]
  PROVE  TypeOK'
  BY DEF TypeOK

LEMMA DisturbType ==
  ASSUME TypeOK, NEW d \in Disturbances, NEW bound, Disturb(d, bound)
  PROVE  count' \in [Disturbances -> Nat]
  BY DEF TypeOK, Disturb

LEMMA ClientType ==
  ASSUME TypeOK, NEW c \in Clients, NEW pc \in ClientPcs, NEW j \in Jobs \cup {None},
         pc # "idle" => j \in Jobs,
         ClientGoto(c, pc, j)
  PROVE  /\ client' \in [Clients -> ClientFrame]
         /\ \A d \in Clients : client'[d].pc # "idle" => client'[d].job \in Jobs
  BY DEF TypeOK, ClientGoto, ClientFrame

\* Every step of a worker thread keeps the types.
LEMMA WorkerTypeStep ==
  ASSUME TypeOK, NEW w \in Workers,
         WorkerStep(w) \/ Renew(w) \/ ChildExit(w) \/ Raise(w)
  PROVE  TypeOK'
<1> USE DEF WorkerPcs, HoldingPcs
<1>1. /\ jobs \in [Jobs -> Row \cup {NoRow}] /\ worker \in [Workers -> WorkerFrame]
      /\ RUNNING \in [Procs -> [Jobs -> Workers \cup {None}]]
      /\ orphans \subseteq Jobs /\ count \in [Disturbances -> Nat]
      /\ \A v \in Workers : worker[v].pc # "idle" => Job(v) \in Jobs
      /\ ProcOf[w] \in Procs
  BY ProcAssumption DEF TypeOK
<1>2. worker[w].pc # "idle" => Job(w) \in Jobs
  BY <1>1
<1>3. worker[w].verdict \in Statuses
  BY <1>1 DEF WorkerFrame, Statuses
<1>4. "running" \in Statuses
  BY DEF Statuses
<1>5. \A j \in Jobs, s \in Statuses : Live(j) =>
        /\ Claim(jobs[j], w) \in Row /\ Touch(jobs[j]) \in Row
        /\ Transitioned(jobs[j], s) \in Row /\ ForceFailed(jobs[j]) \in Row
  BY <1>1, StatementsType DEF Live
<1>6. CASE ClaimSelect(w)
  <2>1. /\ worker' \in [Workers -> WorkerFrame]
        /\ \A v \in Workers : worker'[v].pc # "idle" => Job(v)' \in Jobs
    <3>1. PICK j \in Jobs : worker' = [worker EXCEPT ![w].pc = "claim", ![w].job = j]
      BY <1>6 DEF ClaimSelect
    <3> DEFINE f == [worker[w] EXCEPT !.pc = "claim", !.job = j]
    <3>4. f \in WorkerFrame
      BY <1>1 DEF WorkerFrame
    <3>5. worker' = [worker EXCEPT ![w] = f]
      BY <1>1, <3>1
    <3> HIDE DEF f
    <3>2. worker' \in [Workers -> WorkerFrame]
      BY <1>1, <3>4, <3>5
    <3>3. ASSUME NEW v \in Workers, worker'[v].pc # "idle" PROVE worker'[v].job \in Jobs
      <4>1. CASE v = w  BY <1>1, <3>1, <4>1 DEF WorkerFrame
      <4>2. CASE v # w  BY <1>1, <3>1, <3>3, <4>2 DEF Job
      <4> QED  BY <4>1, <4>2
    <3> QED  BY <3>2, <3>3 DEF Job
  <2> QED  BY <1>1, <1>6, <2>1, RestType DEF ClaimSelect
<1>7. CASE ClaimUpdate(w)
  <2>1. jobs' \in [Jobs -> Row \cup {NoRow}]
    BY <1>1, <1>2, <1>4, <1>5, <1>7 DEF ClaimUpdate
  <2> QED  BY <1>1, <1>2, <1>7, <2>1, FrameType, RestType DEF ClaimUpdate
<1>8. CASE Enter(w)
  BY <1>1, <1>2, <1>8, FrameType, RestType DEF Enter
<1>9. CASE StartRead(w) \/ FinishRead(w)
  BY <1>1, <1>2, <1>9, FrameType, RestType DEF StartRead, FinishRead, TransitionRead
<1>10. CASE StartWrite(w)
  <2>1. jobs' \in [Jobs -> Row \cup {NoRow}]
    BY <1>2, <1>4, <1>5, <1>10, UpdateType DEF StartWrite
  <2> QED  BY <1>1, <1>2, <1>10, <2>1, FrameType, RestType DEF StartWrite
<1>11. CASE Launch(w)
  <2>1. jobs' \in [Jobs -> Row \cup {NoRow}]
    BY <1>1, <1>2, <1>4, <1>5, <1>11, UpdateType DEF Launch
  <2>2. RUNNING' \in [Procs -> [Jobs -> Workers \cup {None}]]
    BY <1>1, <1>2, <1>11 DEF Launch
  <2> QED  BY <1>1, <1>2, <1>11, <2>1, <2>2, FrameType, RestType DEF Launch
<1>12. CASE Renew(w)
  <2>1. jobs' \in [Jobs -> Row \cup {NoRow}]
    BY <1>2, <1>4, <1>5, <1>12, UpdateType DEF Renew
  <2>2. (Live(Job(w)) /\ jobs[Job(w)].claimed_by # None) \in BOOLEAN /\ 0 \in ClaimAges
    BY LeaseAssumption DEF ClaimAges
  <2>3. /\ worker' \in [Workers -> WorkerFrame]
        /\ \A v \in Workers : worker'[v].pc # "idle" => Job(v)' \in Jobs
    <3>1. PICK h \in BOOLEAN : worker' = [worker EXCEPT ![w].held = h, ![w].silent = 0]
      BY <1>12, <2>2 DEF Renew
    <3> DEFINE f == [worker[w] EXCEPT !.held = h, !.silent = 0]
    <3>2. f \in WorkerFrame /\ f.job = Job(w)
      BY <1>1, <2>2 DEF WorkerFrame, Job
    <3>3. worker' = [worker EXCEPT ![w] = f]
      BY <1>1, <3>1
    <3> HIDE DEF f
    <3> QED  BY <1>1, <1>2, <1>12, <3>2, <3>3 DEF Renew, Job
  <2> QED  BY <1>1, <1>12, <2>1, <2>3, RestType DEF Renew
<1>13. CASE ChildExit(w)
  <2>1. /\ worker' \in [Workers -> WorkerFrame]
        /\ \A v \in Workers : worker'[v].pc # "idle" => Job(v)' \in Jobs
    BY <1>1, <1>13 DEF ChildExit, WorkerFrame, Job
  <2>2. RUNNING' \in [Procs -> [Jobs -> Workers \cup {None}]]
    BY <1>1, <1>13 DEF ChildExit
  <2> QED  BY <1>1, <1>13, <2>1, <2>2, RestType DEF ChildExit
<1>14. CASE CheckCanceled(w)
  BY <1>1, <1>2, <1>14, FrameType, RestType DEF CheckCanceled
<1>15. CASE FinishWrite(w)
  <2>1. jobs' \in [Jobs -> Row \cup {NoRow}]
    BY <1>2, <1>3, <1>5, <1>15, UpdateType DEF FinishWrite
  <2> QED  BY <1>1, <1>2, <1>15, <2>1, FrameType, RestType DEF FinishWrite
<1>16. CASE FailRead(w)
  BY <1>1, <1>2, <1>16, FrameType, RestType DEF FailRead
<1>17. CASE FailWrite(w)
  <2>1. jobs' \in [Jobs -> Row \cup {NoRow}]
    BY <1>2, <1>4, <1>5, <1>17, UpdateType DEF FailWrite
  <2> QED  BY <1>1, <1>2, <1>17, <2>1, FrameType, RestType DEF FailWrite
<1>18. CASE Raise(w)
  <2>1. count' \in [Disturbances -> Nat]
    BY <1>18, DisturbType DEF Raise, Disturbances
  <2> QED  BY <1>1, <1>2, <1>18, <2>1, FrameType, RestType DEF Raise, RaisesInBlock
<1> QED
  BY <1>6, <1>7, <1>8, <1>9, <1>10, <1>11, <1>12, <1>13, <1>14, <1>15, <1>16,
     <1>17, <1>18 DEF WorkerStep

\* Sweeping the table (reclaim, purge, the passing of time) keeps its type.
LEMMA SweepType ==
  ASSUME TypeOK
  PROVE  /\ ReclaimAll => jobs' \in [Jobs -> Row \cup {NoRow}]
         /\ Purge => jobs' \in [Jobs -> Row \cup {NoRow}]
         /\ Tick => jobs' \in [Jobs -> Row \cup {NoRow}]
<1>1. jobs \in [Jobs -> Row \cup {NoRow}]
  BY DEF TypeOK
<1>2. \A j \in Jobs : Live(j) => Reclaimed(jobs[j]) \in Row /\ Aged(jobs[j]) \in Row
  BY <1>1, StatementsType DEF Live
<1> QED  BY <1>1, <1>2 DEF ReclaimAll, Purge, Tick

\* Every step of a process, a client or the clock keeps the types.
LEMMA EnvironmentTypeStep ==
  ASSUME TypeOK,
         \/ \E p \in Procs : StopWorkers(p) \/ Crash(p) \/ Exit(p) \/ Restart(p)
         \/ \E j \in Jobs : ChildReport(j) \/ OrphanExit(j)
         \/ Create \/ Reclaim \/ Purge \/ Tick
  PROVE  TypeOK'
<1>1. /\ jobs \in [Jobs -> Row \cup {NoRow}] /\ worker \in [Workers -> WorkerFrame]
      /\ proc \in [Procs -> {"up", "stopping", "down"}]
      /\ RUNNING \in [Procs -> [Jobs -> Workers \cup {None}]]
      /\ orphans \subseteq Jobs /\ count \in [Disturbances -> Nat]
      /\ \A v \in Workers : worker[v].pc # "idle" => Job(v) \in Jobs
      /\ nextId \in 1..(MaxJobs + 1)
  BY DEF TypeOK
<1>2. 0 \in ClaimAges
  BY LeaseAssumption DEF ClaimAges
<1>3. IdleFrame \in WorkerFrame /\ IdleFrame.pc = "idle"
  BY <1>2 DEF IdleFrame, WorkerFrame, WorkerPcs
<1>4. ASSUME NEW p \in Procs, StopWorkers(p) PROVE TypeOK'
  BY <1>4, DisturbType DEF StopWorkers, Disturbances, TypeOK, Job
<1>5. ASSUME NEW p \in Procs, Crash(p) PROVE TypeOK'
  <2>1. count' \in [Disturbances -> Nat]
    BY <1>5, DisturbType DEF Crash, Disturbances
  <2>2. orphans' \subseteq Jobs
    BY <1>1, <1>5 DEF Crash
  <2>3. /\ worker' \in [Workers -> WorkerFrame]
        /\ \A w \in Workers : worker'[w].pc # "idle" => Job(w)' \in Jobs
    BY <1>1, <1>3, <1>5 DEF Crash, Job
  <2>4. /\ RUNNING' \in [Procs -> [Jobs -> Workers \cup {None}]]
        /\ proc' \in [Procs -> {"up", "stopping", "down"}]
    BY <1>1, <1>5 DEF Crash
  <2> QED  BY <1>5, <2>1, <2>2, <2>3, <2>4 DEF Crash, TypeOK
<1>6. ASSUME NEW p \in Procs, Exit(p) PROVE TypeOK'
  BY <1>6 DEF Exit, TypeOK, Job
<1>7. ASSUME NEW p \in Procs, Restart(p) PROVE TypeOK'
  <2>1. jobs' \in [Jobs -> Row \cup {NoRow}]
    BY <1>7, SweepType DEF Restart
  <2> QED  BY <1>7, <2>1 DEF Restart, TypeOK, Job
<1>8. ASSUME NEW j \in Jobs, ChildReport(j) PROVE TypeOK'
  <2>1. jobs' \in [Jobs -> Row \cup {NoRow}]
    BY <1>1, <1>8, StatementsType DEF ChildReport, Live
  <2> QED  BY <1>8, <2>1 DEF ChildReport, TypeOK, Job
<1>9. ASSUME NEW j \in Jobs, OrphanExit(j) PROVE TypeOK'
  BY <1>9 DEF OrphanExit, TypeOK, Job
<1>10. CASE Create
  <2>1. PICK p \in 0..100 : jobs' = [jobs EXCEPT ![nextId] = NewRow(p)]
    BY <1>10, OptionAssumption DEF Create
  <2>2. NewRow(p) \in Row
    BY NewRowType
  <2>3. jobs' \in [Jobs -> Row \cup {NoRow}]
    BY <1>1, <2>1, <2>2
  <2>4. nextId' \in 1..(MaxJobs + 1)
    BY <1>1, <1>10, JobsAssumption DEF Create
  <2> QED  BY <1>10, <2>3, <2>4 DEF Create, TypeOK, Job
<1>11. CASE Reclaim
  <2>1. jobs' \in [Jobs -> Row \cup {NoRow}]
    BY <1>11, SweepType DEF Reclaim
  <2> QED  BY <1>11, <2>1 DEF Reclaim, TypeOK, Job
<1>12. CASE Purge
  <2>1. count' \in [Disturbances -> Nat]
    BY <1>12, DisturbType DEF Purge, Disturbances
  <2>2. jobs' \in [Jobs -> Row \cup {NoRow}]
    BY <1>12, SweepType
  <2> QED  BY <1>12, <2>1, <2>2 DEF Purge, TypeOK, Job
<1>13. CASE Tick
  <2>1. jobs' \in [Jobs -> Row \cup {NoRow}]
    BY <1>13, SweepType
  <2>2. \A a \in ClaimAges : Older(a, Lease) \in ClaimAges
    BY LeaseAssumption, NullAssumption DEF Older, ClaimAges
  <2>3. \A f \in WorkerFrame :
          /\ [f EXCEPT !.silent = Older(@, Lease)] \in WorkerFrame
          /\ [f EXCEPT !.silent = Older(@, Lease)].job = f.job
          /\ [f EXCEPT !.silent = Older(@, Lease)].pc = f.pc
    BY <2>2 DEF WorkerFrame
  <2>4. /\ worker' \in [Workers -> WorkerFrame]
        /\ \A w \in Workers : worker'[w].pc # "idle" => Job(w)' \in Jobs
    BY <1>1, <1>13, <2>3 DEF Tick, Job
  <2> QED  BY <1>13, <2>1, <2>4 DEF Tick, TypeOK
<1> QED  BY <1>4, <1>5, <1>6, <1>7, <1>8, <1>9, <1>10, <1>11, <1>12, <1>13

\* Every step of a client session keeps the types.
LEMMA ClientTypeStep ==
  ASSUME TypeOK, NEW c \in Clients,
         \/ ClientStep(c)
         \/ \E j \in Jobs : CancelRead(c, j) \/ RetryRead(c, j)
                              \/ \E p \in Procs : Terminate(c, p, j)
  PROVE  TypeOK'
<1> USE DEF ClientPcs, Disturbances
<1>1. /\ jobs \in [Jobs -> Row \cup {NoRow}] /\ count \in [Disturbances -> Nat]
      /\ client[c].pc # "idle" => client[c].job \in Jobs
  BY DEF TypeOK
<1>2. \A r \in Row : /\ Transitioned(r, "canceled") \in Row /\ Touch(r) \in Row
                     /\ \A x \in 0..100 : Retried(r, x) \in Row
  BY StatementsType DEF Statuses
<1>3. \A j \in Jobs : Live(j) =>
        /\ Transitioned(jobs[j], "canceled") \in Row
        /\ Touch(jobs[j]) \in Row /\ \A x \in 0..100 : Retried(jobs[j], x) \in Row
  BY <1>1, <1>2 DEF Live
<1>4. ASSUME NEW j \in Jobs, NEW p \in Procs, Terminate(c, p, j) PROVE TypeOK'
  BY <1>4, ClientType, DisturbType DEF Terminate, TypeOK, Job
<1>5. ASSUME NEW j \in Jobs, CancelRead(c, j) PROVE TypeOK'
  <2>1. count' \in [Disturbances -> Nat]
    BY <1>1, <1>5, DisturbType DEF CancelRead
  <2> QED  BY <1>5, <2>1, ClientType DEF CancelRead, TypeOK, Job
<1>6. ASSUME NEW j \in Jobs, RetryRead(c, j) PROVE TypeOK'
  <2>1. jobs[j].priority \in 0..100
    BY <1>1, <1>6 DEF RetryRead, Live, Row
  <2>2. client' \in [Clients -> ClientFrame]
    BY <1>6, <2>1 DEF RetryRead, TypeOK, ClientFrame
  <2>3. \A d \in Clients : client'[d].pc # "idle" => client'[d].job \in Jobs
    BY <1>6 DEF RetryRead, TypeOK
  <2> QED  BY <1>6, <2>2, <2>3, DisturbType DEF RetryRead, TypeOK, Job
<1>7. CASE CancelWrite(c)
  <2>1. jobs' \in [Jobs -> Row \cup {NoRow}]
    BY <1>1, <1>3, <1>7, UpdateType DEF CancelWrite
  <2> QED  BY <1>1, <1>7, <2>1, ClientType DEF CancelWrite, TypeOK, Job
<1>8. CASE CancelEvent(c)
  <2>1. jobs' \in [Jobs -> Row \cup {NoRow}]
    BY <1>1, <1>3, <1>8, UpdateType DEF CancelEvent
  <2> QED  BY <1>1, <1>8, <2>1, ClientType DEF CancelEvent, TypeOK, Job
<1>9. CASE RetryWrite(c)
  <2>0. client[c].seen \in 0..100
    BY DEF TypeOK, ClientFrame
  <2>1. jobs' \in [Jobs -> Row \cup {NoRow}]
    BY <1>1, <1>3, <1>9, <2>0, UpdateType DEF RetryWrite
  <2> QED  BY <1>1, <1>9, <2>1, ClientType DEF RetryWrite, TypeOK, Job
<1> QED  BY <1>4, <1>5, <1>6, <1>7, <1>8, <1>9 DEF ClientStep

\* The types hold in every reachable state.
THEOREM TypeCorrect == Spec => []TypeOK
<1>1. Init => TypeOK
  <2> SUFFICES ASSUME Init PROVE TypeOK
    OBVIOUS
  <2>1. IdleFrame \in WorkerFrame /\ IdleFrame.pc = "idle"
    BY LeaseAssumption DEF IdleFrame, WorkerFrame, WorkerPcs, ClaimAges
  <2> QED  BY <2>1, JobsAssumption DEF Init, TypeOK, ClientPcs, ClientFrame, Job
<1>2. TypeOK /\ [Next]_vars => TypeOK'
  <2>1. TypeOK /\ UNCHANGED vars => TypeOK'
    BY DEF TypeOK, vars, Job
  <2> QED  BY <2>1, WorkerTypeStep, EnvironmentTypeStep, ClientTypeStep DEF Next
<1> QED  BY <1>1, <1>2, PTL DEF Spec

-----------------------------------------------------------------------------
(* The lease columns. *)

\* The statuses transition is asked for.
Targets == {"running", "canceled", "succeeded", "failed"}

\* A statement of JobRepo other than retry's, applied to row r, gives row q.
Statement(r, q) ==
  \/ \E w \in Workers : Claimable(r) /\ q = Claim(r, w)
  \/ \E s \in Targets : q = Transitioned(r, s)
  \/ Stale(r) /\ q = Reclaimed(r)
  \/ q \in {r, Touch(r), ForceFailed(r)}

\* A step creates, purges, ages or leaves alone each row, or applies one statement
\* to it.
LEMMA RowStep ==
  ASSUME TypeOK, [Next]_vars, NEW j \in Jobs
  PROVE  \/ jobs'[j] = NoRow
         \/ Create /\ j = nextId /\ \E p \in 0..100 : jobs'[j] = NewRow(p)
         \/ Live(j) /\ Statement(jobs[j], jobs'[j])
         \/ /\ Live(j)
            /\ \E c \in Clients :
                 RetryWrite(c) /\ jobs'[j] = Retried(jobs[j], client[c].seen)
         \/ Live(j) /\ Tick /\ jobs'[j] = Aged(jobs[j])
<1> DEFINE Goal == \/ jobs'[j] = NoRow
                   \/ Create /\ j = nextId /\ \E p \in 0..100 : jobs'[j] = NewRow(p)
                   \/ Live(j) /\ Statement(jobs[j], jobs'[j])
                   \/ /\ Live(j)
                      /\ \E c \in Clients :
                           RetryWrite(c) /\ jobs'[j] = Retried(jobs[j], client[c].seen)
                   \/ Live(j) /\ Tick /\ jobs'[j] = Aged(jobs[j])
<1>1. jobs \in [Jobs -> Row \cup {NoRow}]
  BY DEF TypeOK
<1>2. UNCHANGED jobs => Goal
  BY DEF Live, Statement
<1>3. ASSUME NEW k \in Jobs, NEW q, Update(k, q), Live(k) => Statement(jobs[k], q)
      PROVE  Goal
  BY <1>1, <1>3 DEF Update, Live, Statement
<1>4. \A r : \A s \in Targets : Statement(r, Transitioned(r, s))
  BY DEF Statement
<1>5. \A r : Statement(r, Touch(r)) /\ Statement(r, ForceFailed(r))
  BY DEF Statement
<1>6. ReclaimAll => Goal
  BY <1>1 DEF ReclaimAll, Live, Statement
<1>7. {"running", "canceled", "succeeded", "failed"} \subseteq Targets
  BY DEF Targets
<1>8. ASSUME NEW w \in Workers, WorkerStep(w) \/ Renew(w) \/ ChildExit(w) \/ Raise(w)
      PROVE  Goal
  <2>1. worker[w].pc # "idle" => Job(w) \in Jobs
    BY DEF TypeOK
  <2>2. worker[w].verdict \in Targets
    BY <1>7 DEF TypeOK, WorkerFrame
  <2>3. CASE ClaimUpdate(w)
    BY <1>1, <1>2, <2>1, <2>3 DEF ClaimUpdate, Live, Statement
  <2>4. CASE StartWrite(w)
    BY <1>3, <1>4, <1>7, <2>1, <2>4 DEF StartWrite
  <2>5. CASE Launch(w)
    BY <1>2, <1>3, <1>5, <2>1, <2>5 DEF Launch
  <2>6. CASE Renew(w)
    BY <1>3, <1>5, <2>1, <2>6 DEF Renew
  <2>7. CASE FinishWrite(w)
    BY <1>3, <1>4, <2>1, <2>2, <2>7 DEF FinishWrite
  <2>8. CASE FailWrite(w)
    BY <1>3, <1>5, <2>1, <2>8 DEF FailWrite
  <2>9. CASE UNCHANGED jobs
    BY <1>2, <2>9
  <2> QED
    BY <1>8, <2>3, <2>4, <2>5, <2>6, <2>7, <2>8, <2>9
       DEF WorkerStep, ClaimSelect, Enter, StartRead, FinishRead, TransitionRead,
           ChildExit, CheckCanceled, FailRead, Raise
<1>9. ASSUME NEW c \in Clients,
             \/ ClientStep(c)
             \/ \E k \in Jobs : CancelRead(c, k) \/ RetryRead(c, k)
                                  \/ \E p \in Procs : Terminate(c, p, k)
      PROVE  Goal
  <2>1. client[c].pc # "idle" => client[c].job \in Jobs
    BY DEF TypeOK
  <2>2. CASE CancelWrite(c)
    BY <1>3, <1>4, <1>7, <2>1, <2>2 DEF CancelWrite
  <2>3. CASE CancelEvent(c)
    BY <1>3, <1>5, <2>1, <2>3 DEF CancelEvent
  <2>4. CASE RetryWrite(c)
    <3> DEFINE k == client[c].job
    <3>1. k \in Jobs /\ Update(k, Retried(jobs[k], client[c].seen))
      BY <2>1, <2>4 DEF RetryWrite
    <3>2. CASE k = j
      BY <1>1, <1>2, <2>4, <3>1, <3>2 DEF Update, Live
    <3>3. CASE k # j
      BY <1>1, <3>1, <3>3 DEF Update, Live, Statement
    <3> QED  BY <3>2, <3>3
  <2>5. CASE UNCHANGED jobs
    BY <1>2, <2>5
  <2> QED
    BY <1>9, <2>2, <2>3, <2>4, <2>5 DEF ClientStep, CancelRead, RetryRead, Terminate
<1>10. ASSUME NEW k \in Jobs, ChildReport(k) PROVE Goal
  BY <1>1, <1>10 DEF ChildReport, Live, Statement
<1>11. CASE Create
  BY <1>1, <1>2, <1>11, OptionAssumption DEF Create, Live, Statement
<1>12. CASE Purge
  BY <1>1, <1>12 DEF Purge, Live, Statement
<1>13. CASE Tick
  BY <1>1, <1>13 DEF Tick, Live, Statement
<1>14. CASE UNCHANGED jobs
  BY <1>2, <1>14
<1> QED
  BY <1>6, <1>8, <1>9, <1>10, <1>11, <1>12, <1>13, <1>14
     DEF Next, vars, StopWorkers, Crash, Exit, Restart, OrphanExit, Reclaim

\* Only create draws on the autoincrement.
LEMMA NextIdStep ==
  ASSUME [Next]_vars
  PROVE  Create \/ nextId' = nextId
  BY DEF Next, vars, WorkerStep, ClaimSelect, ClaimUpdate, Enter, StartRead, FinishRead,
         TransitionRead, StartWrite, Launch, Renew, ChildExit, CheckCanceled,
         FinishWrite, FailRead, FailWrite, Raise, StopWorkers, Crash, Exit, Restart,
         ChildReport, OrphanExit, ClientStep, CancelRead, CancelWrite, CancelEvent,
         RetryRead, RetryWrite, Terminate, Reclaim, Purge, Tick

\* The autoincrement never hands out the id of a row that exists.
UnusedIds == \A j \in Jobs : j >= nextId => ~Live(j)

LEMMA IdsUnused == Spec => []UnusedIds
<1>1. Init => UnusedIds
  BY DEF Init, UnusedIds, Live
<1>2. TypeOK /\ UnusedIds /\ [Next]_vars => UnusedIds'
  <2> SUFFICES ASSUME TypeOK, UnusedIds, [Next]_vars,
                      NEW j \in Jobs, j >= nextId', jobs'[j] # NoRow
               PROVE  FALSE
    BY DEF UnusedIds, Live
  <2>1. nextId \in Nat /\ j \in Nat
    BY JobsAssumption DEF TypeOK, Jobs
  <2>2. CASE Create
    BY <2>1, <2>2 DEF Create, UnusedIds, Live, TypeOK
  <2>3. CASE ~Create
    <3>1. nextId' = nextId
      BY <2>3, NextIdStep
    <3>2. ~Live(j)
      BY <2>1, <3>1 DEF UnusedIds
    <3> QED  BY <2>3, <3>2, RowStep
  <2> QED  BY <2>2, <2>3
<1> QED  BY <1>1, <1>2, TypeCorrect, PTL DEF Spec

\* LeaseWellFormed, for every set of workers, clients and bounds.
THEOREM LeaseCorrect == Spec => []LeaseWellFormed
<1>1. Init => LeaseWellFormed
  BY DEF Init, LeaseWellFormed, Live
<1>2. TypeOK /\ LeaseWellFormed /\ [Next]_vars => LeaseWellFormed'
  <2> SUFFICES ASSUME TypeOK, LeaseWellFormed, [Next]_vars, NEW j \in Jobs, jobs'[j] # NoRow
               PROVE  LeaseOK(jobs'[j])
    BY DEF LeaseWellFormed, Live
  <2>1. ASSUME NEW p \in 0..100, jobs'[j] = NewRow(p) PROVE LeaseOK(jobs'[j])
    BY <2>1, NewRowType
  <2>2. ASSUME Live(j), Statement(jobs[j], jobs'[j]) PROVE LeaseOK(jobs'[j])
    <3>1. jobs[j] \in Row /\ LeaseOK(jobs[j])
      BY <2>2 DEF TypeOK, LeaseWellFormed, Live
    <3>2. Targets \subseteq Statuses
      BY DEF Targets, Statuses
    <3> QED  BY <2>2, <3>1, <3>2, StatementsLeaseOK DEF Statement
  <2>3. ASSUME Live(j), NEW x, jobs'[j] \in {Aged(jobs[j]), Retried(jobs[j], x)}
        PROVE  LeaseOK(jobs'[j])
    BY <2>3, StatementsLeaseOK DEF TypeOK, LeaseWellFormed, Live
  <2> QED  BY <2>1, <2>2, <2>3, RowStep
<1> QED  BY <1>1, <1>2, TypeCorrect, PTL DEF Spec

-----------------------------------------------------------------------------
(* Leases and their holders. *)

\* What a step does to the frame of a thread that holds a job after it: nothing
\* that matters here; or the thread takes the job; or it writes, which renews
\* its claim if it still has it; or the clock ticks.
LEMMA FrameStep ==
  ASSUME TypeOK, [Next]_vars, NEW w \in Workers, Holds(w)'
  PROVE  /\ Job(w) \in Jobs /\ Job(w)' = Job(w)
         /\ \/ Holds(w) /\ worker'[w].silent = worker[w].silent
            \/ /\ ClaimUpdate(w) /\ worker[w].pc = "claim"
               /\ worker'[w].silent = 0
               /\ Live(Job(w)) /\ Claimable(jobs[Job(w)])
               /\ jobs' = [jobs EXCEPT ![Job(w)] = Claim(@, w)]
            \/ /\ Holds(w) /\ worker'[w].silent = 0
               /\ jobs'[Job(w)] # NoRow /\ jobs'[Job(w)].claimed_by # None
                    => jobs'[Job(w)].claimed = 0
            \/ Holds(w) /\ Tick /\ worker'[w].silent = Older(worker[w].silent, Lease)
<1> DEFINE Same == Holds(w) /\ Job(w)' = Job(w) /\ worker'[w].silent = worker[w].silent
           Own  == /\ Holds(w) /\ Job(w)' = Job(w) /\ worker'[w].silent = 0
                   /\ jobs'[Job(w)] # NoRow /\ jobs'[Job(w)].claimed_by # None
                        => jobs'[Job(w)].claimed = 0
<1>1. /\ jobs \in [Jobs -> Row \cup {NoRow}] /\ worker \in [Workers -> WorkerFrame]
      /\ Holds(w) => Job(w) \in Jobs
      /\ worker[w].pc = "claim" => Job(w) \in Jobs
  BY DEF TypeOK, Holds, HoldingPcs
<1>2. worker'[w] = worker[w] => Same
  BY DEF Holds, Job
<1>3. worker'[w].pc \in HoldingPcs
  BY DEF Holds
<1>4. \A r \in Row : /\ Touch(r).claimed_by # None => Touch(r).claimed = 0
                     /\ Transitioned(r, "running").claimed_by # None
                          => Transitioned(r, "running").claimed = 0
  BY DEF Touch, Transitioned, TERMINAL_STATES, Row
<1>5. ASSUME NEW v \in Workers, v # w,
             WorkerStep(v) \/ Renew(v) \/ ChildExit(v) \/ Raise(v)
      PROVE  Same
  <2>1. worker'[w] = worker[w]
    BY <1>1, <1>5
       DEF WorkerStep, ClaimSelect, ClaimUpdate, Enter, StartRead, FinishRead,
           TransitionRead, StartWrite, Launch, Renew, ChildExit, CheckCanceled,
           FinishWrite, FailRead, FailWrite, Raise, Goto, Wrote, ToIdle
  <2> QED  BY <1>2, <2>1
<1>6. ASSUME ToIdle(w) PROVE FALSE
  BY <1>1, <1>3, <1>6 DEF ToIdle, IdleFrame, HoldingPcs
<1>7. ASSUME NEW pc, Goto(w, pc), Holds(w) PROVE Same
  BY <1>1, <1>7 DEF Goto, Holds, Job, WorkerFrame
<1>8. CASE ClaimUpdate(w)
  BY <1>1, <1>6, <1>8 DEF ClaimUpdate, Wrote, Job, WorkerFrame
<1>9. CASE ClaimSelect(w)
  BY <1>1, <1>3, <1>9 DEF ClaimSelect, HoldingPcs, WorkerFrame
<1>10. CASE StartWrite(w)
  <2>1. Own
    BY <1>1, <1>4, <1>10
       DEF StartWrite, Wrote, Update, Live, Holds, HoldingPcs, Job, WorkerFrame
  <2> QED  BY <1>1, <2>1
<1>11. CASE Launch(w)
  <2>1. Holds(w)
    BY <1>11 DEF Launch, Holds, HoldingPcs
  <2>2. CASE Live(Job(w))
    <3>1. Own
      BY <1>1, <1>4, <1>11, <2>1, <2>2
         DEF Launch, Wrote, Update, Live, Job, WorkerFrame
    <3> QED  BY <1>1, <3>1
  <2>3. CASE ~Live(Job(w))
    BY <1>1, <1>7, <1>11, <2>1, <2>3 DEF Launch
  <2> QED  BY <2>2, <2>3
<1>12. CASE Renew(w)
  <2>1. Holds(w)
    BY <1>12 DEF Renew, Holds, HoldingPcs
  <2>2. PICK h : worker' = [worker EXCEPT ![w].held = h, ![w].silent = 0]
    BY <1>12 DEF Renew
  <2>3. Job(w)' = Job(w) /\ worker'[w].silent = 0
    BY <1>1, <2>2 DEF Job, WorkerFrame
  <2>4. Own
    BY <1>1, <1>4, <1>12, <2>1, <2>3 DEF Renew, Update, Live
  <2> QED  BY <1>1, <2>4
<1>13. CASE ChildExit(w)
  BY <1>1, <1>13 DEF ChildExit, Holds, HoldingPcs, Job, WorkerFrame
<1>14. CASE Enter(w) \/ StartRead(w) \/ CheckCanceled(w) \/ FinishRead(w) \/ FailRead(w)
  <2>1. Holds(w)
    BY <1>14 DEF Enter, StartRead, CheckCanceled, FinishRead, FailRead,
                 TransitionRead, Holds, HoldingPcs
  <2>2. \E pc : Goto(w, pc)
    BY <1>6, <1>14 DEF Enter, StartRead, CheckCanceled, FinishRead, FailRead, TransitionRead
  <2> QED  BY <1>1, <1>7, <2>1, <2>2
<1>15. CASE FinishWrite(w) \/ FailWrite(w)
  BY <1>6, <1>15 DEF FinishWrite, FailWrite
<1>16. CASE Raise(w)
  <2>1. worker[w].pc \in RaisesInBlock /\ Goto(w, "fail_read")
    BY <1>6, <1>16 DEF Raise
  <2> QED  BY <1>1, <1>7, <2>1 DEF RaisesInBlock, Holds, HoldingPcs
<1>17. ASSUME NEW p \in Procs, Crash(p) PROVE Same
  BY <1>1, <1>2, <1>3, <1>17 DEF Crash, IdleFrame, HoldingPcs
<1>18. CASE Tick
  BY <1>1, <1>3, <1>18 DEF Tick, Holds, Job, WorkerFrame
<1>19. CASE UNCHANGED worker
  BY <1>1, <1>2, <1>19
<1> QED
  BY <1>1, <1>5, <1>8, <1>9, <1>10, <1>11, <1>12, <1>13, <1>14, <1>15, <1>16, <1>17,
     <1>18, <1>19
     DEF Next, WorkerStep, vars, StopWorkers, Exit, Restart, ChildReport, OrphanExit,
         ClientStep, CancelRead, CancelWrite, CancelEvent, RetryRead, RetryWrite,
         Terminate, Create, Reclaim, Purge

\* A statement that leaves a claim on a row either stamps it now or keeps it.
LEMMA ClaimKept ==
  ASSUME NEW r \in Row, NEW q, Statement(r, q), q.claimed_by # None
  PROVE  \/ q.claimed = 0
         \/ q.claimed_by = r.claimed_by /\ q.claimed = r.claimed
<1>1. CASE \E w \in Workers : q = Claim(r, w)
  BY <1>1 DEF Claim, Row
<1>2. CASE \E s \in Targets : q = Transitioned(r, s)
  BY <1>2 DEF Transitioned, Settled, Touch, Row
<1>3. CASE q = Reclaimed(r) \/ q = ForceFailed(r)
  BY <1>3 DEF Reclaimed, ForceFailed, Settled, Row
<1>4. CASE q \in {r, Touch(r)}
  BY <1>4 DEF Touch, Row
<1> QED  BY <1>1, <1>2, <1>3, <1>4 DEF Statement

\* The claim of a thread is at least as fresh as the thread's last write.
THEOREM LeaseFollows == Spec => []LeaseFollowsHolder
<1>1. Init => LeaseFollowsHolder
  BY DEF Init, LeaseFollowsHolder, Holds, HoldingPcs, IdleFrame
<1>2. TypeOK /\ LeaseWellFormed /\ LeaseFollowsHolder /\ [Next]_vars => LeaseFollowsHolder'
  <2> SUFFICES ASSUME TypeOK, LeaseWellFormed, LeaseFollowsHolder, [Next]_vars,
                      NEW w \in Workers, Holds(w)', jobs'[Job(w)'] # NoRow,
                      jobs'[Job(w)'].claimed_by = w
               PROVE  jobs'[Job(w)'].claimed <= worker'[w].silent
    BY DEF LeaseFollowsHolder, Live
  <2> DEFINE j == Job(w)
  <2>1. j \in Jobs /\ Job(w)' = j /\ w # None
    BY FrameStep, NullAssumption
  <2>2. jobs \in [Jobs -> Row \cup {NoRow}] /\ worker[w] \in WorkerFrame
    BY DEF TypeOK
  <2>3. /\ worker[w].silent \in ClaimAges /\ ClaimAges \subseteq Nat
        /\ Live(j) => jobs[j] \in Row
    BY <2>1, <2>2, LeaseAssumption DEF WorkerFrame, ClaimAges, Live
  <2>4. Live(j) /\ Holds(w) /\ jobs[j].claimed_by = w
          => jobs[j].claimed \in ClaimAges /\ jobs[j].claimed <= worker[w].silent
    BY <2>1, <2>3 DEF LeaseFollowsHolder, LeaseWellFormed, LeaseOK, Row
  <2>5. CASE Tick
    <3>1. Holds(w) /\ worker'[w].silent = Older(worker[w].silent, Lease)
      BY <2>2, <2>5 DEF Tick, Holds, TypeOK, WorkerFrame
    <3>2. Live(j) /\ jobs'[j] = Aged(jobs[j])
      BY <2>1, <2>5 DEF Tick, Live
    <3>3. jobs[j].claimed_by = w /\ jobs'[j].claimed = Older(jobs[j].claimed, Lease)
      BY <2>1, <2>3, <3>2 DEF Aged, Row
    <3>4. \A a, b \in ClaimAges : a <= b => Older(a, Lease) <= Older(b, Lease)
      BY LeaseAssumption, NullAssumption DEF Older, ClaimAges
    <3> QED  BY <2>1, <2>3, <2>4, <3>1, <3>2, <3>3, <3>4
  <2>6. CASE ~Tick /\ jobs'[j].claimed = 0
    BY <2>1, <2>3, <2>6, FrameStep DEF ClaimAges
  <2>7. CASE ~Tick /\ jobs'[j].claimed # 0
    <3>1. Holds(w) /\ worker'[w].silent = worker[w].silent
      <4>1. ~(Live(j) /\ jobs' = [jobs EXCEPT ![j] = Claim(@, w)])
        BY <2>1, <2>2, <2>3, <2>7 DEF Claim, Row
      <4> QED  BY <2>1, <2>7, <4>1, FrameStep
    <3>2. Live(j) /\ Statement(jobs[j], jobs'[j])
      <4>1. jobs'[j] # NoRow /\ jobs'[j].claimed_by # None
        BY <2>1
      <4>2. \A p \in 0..100 : NewRow(p).claimed_by = None
        BY DEF NewRow
      <4>3. Live(j) => \A x : Retried(jobs[j], x).claimed_by = None
        BY <2>3 DEF Retried, Row
      <4> QED  BY <2>1, <2>7, <4>1, <4>2, <4>3, RowStep
    <3>3. jobs[j].claimed_by = w /\ jobs'[j].claimed = jobs[j].claimed
      <4>1. jobs[j] \in Row /\ jobs'[j].claimed_by = w
        BY <2>1, <2>3, <3>2
      <4> QED  BY <2>1, <2>7, <3>2, <4>1, ClaimKept
    <3> QED  BY <2>1, <2>4, <3>1, <3>2, <3>3
  <2> QED  BY <2>5, <2>6, <2>7
<1> QED  BY <1>1, <1>2, TypeCorrect, LeaseCorrect, PTL DEF Spec

\* ReportingJobNeverReclaimed, whatever cancels, retries, crashes and lateness.
THEOREM NeverReclaimedWhileReporting == Spec => ReportingJobNeverReclaimed
<1>1. TypeOK /\ UnusedIds /\ LeaseFollowsHolder /\ [Next]_vars
      => [\A w \in Workers :
            LET j == Job(w) IN
              /\ Holds(w) /\ Live(j) /\ jobs[j].claimed_by = w
              /\ jobs'[j] # NoRow /\ jobs[j].status = "running"
              /\ jobs'[j].status = "pending"
              => worker[w].silent > Lease \/ \E c \in Clients : RetryWrite(c)]_vars
  <2> SUFFICES ASSUME TypeOK, UnusedIds, LeaseFollowsHolder, [Next]_vars, NEW w \in Workers,
                      Holds(w), Live(Job(w)), jobs[Job(w)].claimed_by = w,
                      jobs'[Job(w)] # NoRow, jobs[Job(w)].status = "running",
                      jobs'[Job(w)].status = "pending",
                      ~ \E c \in Clients : RetryWrite(c)
               PROVE  worker[w].silent > Lease
    OBVIOUS
  <2> DEFINE j == Job(w)
             r == jobs[j]
  <2>1. j \in Jobs /\ r \in Row /\ worker[w].silent \in ClaimAges
    BY DEF TypeOK, Holds, HoldingPcs, Live, WorkerFrame
  <2>2. r.claimed \in ClaimAges \cup {None} /\ r.claimed <= worker[w].silent
    BY <2>1 DEF Row, LeaseFollowsHolder
  <2>3. Statement(r, jobs'[j])
    <3>1. Aged(r).status = "running"
      BY <2>1 DEF Aged, Row
    <3>2. j # nextId
      BY <2>1, JobsAssumption DEF UnusedIds, Jobs
    <3> QED  BY <2>1, <3>1, <3>2, RowStep
  <2>4. Stale(r)
    BY <2>1, <2>3
       DEF Statement, Claim, Claimable, Targets, Transitioned, Settled, Touch,
           ForceFailed, Row, TERMINAL_STATES
  <2> QED  BY <2>1, <2>2, <2>4, LeaseAssumption DEF Stale, Expired, ClaimAges
<1> QED  BY <1>1, TypeCorrect, IdsUnused, LeaseFollows, PTL DEF Spec, ReportingJobNeverReclaimed

-----------------------------------------------------------------------------
(* One job, one runner: when every holder is timely and nobody retries. *)

\* Nobody is about to retry anything.
NoRetry == count["retry"] = 0 /\ \A c \in Clients : client[c].pc # "retry_write"

\* A job that is held has been created.
HeldIdsExist == \A w \in Workers : Holds(w) => Job(w) < nextId

\* What makes SingleHolder inductive.
OneRunnerInv ==
  /\ TypeOK /\ LeaseWellFormed /\ LeaseFollowsHolder /\ UnusedIds
  /\ NoRetry /\ HeldIdsExist
  /\ HolderInv /\ SingleHolder

\* A row with a timely holder is neither claimable nor stale.
LEMMA HeldRowIsSafe ==
  ASSUME OneRunnerInv, NEW w \in Workers, Holds(w), Live(Job(w))
  PROVE  ~Claimable(jobs[Job(w)]) /\ ~Stale(jobs[Job(w)])
<1> DEFINE r == jobs[Job(w)]
<1>1. /\ r \in Row /\ LeaseOK(r)
      /\ worker[w].silent \in ClaimAges /\ worker[w].silent <= Lease
  BY DEF OneRunnerInv, TypeOK, LeaseWellFormed, HolderInv, Holds, HoldingPcs, Live, WorkerFrame
<1>2. CASE r.claimed_by = w
  <2>1. r.claimed \in ClaimAges /\ r.claimed <= worker[w].silent
    BY <1>1, <1>2, NullAssumption DEF OneRunnerInv, LeaseFollowsHolder, LeaseOK, Row
  <2>2. ~Expired(r) /\ r.claimed_by # None
    BY <1>1, <1>2, <2>1, LeaseAssumption, NullAssumption DEF Expired, ClaimAges
  <2> QED  BY <2>2 DEF Claimable, Stale
<1>3. CASE r.claimed_by # w
  <2>1. r.claimed_by = None /\ r.status # "pending"
    BY <1>3 DEF OneRunnerInv, HolderInv
  <2>2. ~Expired(r)
    BY <1>1, <2>1 DEF LeaseOK, Expired
  <2> QED  BY <2>1, <2>2 DEF Claimable, Stale
<1> QED  BY <1>2, <1>3

\* Without retries allowed, none begins.
LEMMA NoRetryStep ==
  ASSUME TypeOK, NoRetry, MaxRetries = 0, [Next]_vars
  PROVE  NoRetry' /\ ~ \E c \in Clients : RetryWrite(c)
<1>1. /\ count \in [Disturbances -> Nat] /\ "retry" \in Disturbances
      /\ client \in [Clients -> ClientFrame]
  BY DEF TypeOK, Disturbances
<1>2. ~ \E c \in Clients : RetryWrite(c)
  BY DEF NoRetry, RetryWrite
<1>3. ~ \E c \in Clients, j \in Jobs : RetryRead(c, j)
  BY <1>1 DEF NoRetry, RetryRead, Disturb
<1>4. ASSUME NEW d \in Disturbances, NEW bound, Disturb(d, bound), d # "retry"
      PROVE  count'["retry"] = 0
  BY <1>1, <1>4 DEF Disturb, NoRetry
<1>5. ASSUME NEW c \in Clients,
             ClientStep(c) \/ \E j \in Jobs :
               CancelRead(c, j) \/ \E p \in Procs : Terminate(c, p, j)
      PROVE  NoRetry'
  <2>1. \A d, pc, j : ClientGoto(d, pc, j) /\ pc # "retry_write"
          => \A e \in Clients : client'[e].pc # "retry_write"
    BY <1>1 DEF ClientGoto, NoRetry
  <2>2. \A e \in Clients : client'[e].pc # "retry_write"
    BY <1>2, <1>5, <2>1
       DEF ClientStep, CancelRead, CancelWrite, CancelEvent, Terminate
  <2>3. count'["retry"] = 0
    BY <1>2, <1>4, <1>5
       DEF ClientStep, CancelRead, CancelWrite, CancelEvent, Terminate, Disturbances, NoRetry
  <2> QED  BY <2>2, <2>3 DEF NoRetry
<1>6. CASE UNCHANGED <<client, count>>
  BY <1>2, <1>6 DEF NoRetry
<1>7. ASSUME UNCHANGED client,
             \/ \E w \in Workers : Raise(w)
             \/ \E p \in Procs : StopWorkers(p) \/ Crash(p)
             \/ Purge
      PROVE  NoRetry'
  BY <1>4, <1>7 DEF Raise, StopWorkers, Crash, Purge, Disturbances, NoRetry
<1> QED
  BY <1>2, <1>3, <1>5, <1>6, <1>7
     DEF Next, vars, WorkerStep, ClaimSelect, ClaimUpdate, Enter, StartRead, FinishRead,
         TransitionRead, StartWrite, Launch, Renew, ChildExit, CheckCanceled,
         FinishWrite, FailRead, FailWrite, Raise, StopWorkers, Crash, Exit, Restart,
         ChildReport, OrphanExit, Create, Reclaim, Purge, Tick

\* A statement on a row that is neither claimable nor stale gives it no new claim.
LEMMA HeldRowKept ==
  ASSUME NEW r \in Row, NEW q, Statement(r, q), ~Claimable(r), ~Stale(r),
         NEW w, r.claimed_by = w \/ (r.claimed_by = None /\ r.status # "pending")
  PROVE  q.claimed_by = w \/ (q.claimed_by = None /\ q.status # "pending")
<1>1. CASE q \in {r, Touch(r)}
  BY <1>1 DEF Touch, Row
<1>2. CASE q = ForceFailed(r)
  BY <1>2 DEF ForceFailed, Settled, Row
<1>3. CASE \E s \in Targets : q = Transitioned(r, s)
  <2>1. PICK s \in Targets : q = Transitioned(r, s)
    BY <1>3
  <2>2. s # "pending"
    BY DEF Targets
  <2>3. CASE s \in TERMINAL_STATES
    BY <2>1, <2>2, <2>3 DEF Transitioned, Settled, Row
  <2>4. CASE s \notin TERMINAL_STATES
    BY <2>1, <2>2, <2>4 DEF Transitioned, Touch, Row
  <2> QED  BY <2>3, <2>4
<1> QED  BY <1>1, <1>2, <1>3 DEF Statement

\* Holders stay timely and keep their rows.
LEMMA HolderStep ==
  ASSUME OneRunnerInv, Timely, MaxRetries = 0, [Next]_vars
  PROVE  HolderInv' /\ HeldIdsExist'
<1> USE DEF OneRunnerInv
<1> SUFFICES ASSUME NEW w \in Workers, Holds(w)'
             PROVE  /\ worker'[w].silent <= Lease
                    /\ Job(w)' < nextId'
                    /\ jobs'[Job(w)'] # NoRow =>
                         \/ jobs'[Job(w)'].claimed_by = w
                         \/ /\ jobs'[Job(w)'].claimed_by = None
                            /\ jobs'[Job(w)'].status # "pending"
  BY DEF HolderInv, HeldIdsExist, Live
<1> DEFINE j == Job(w)
<1>1. j \in Jobs /\ Job(w)' = j
  BY FrameStep
<1>2. /\ jobs \in [Jobs -> Row \cup {NoRow}]
      /\ worker[w].silent \in ClaimAges
      /\ nextId \in Nat /\ nextId' \in Nat /\ nextId <= nextId' /\ j \in Nat
  BY <1>1, NextIdStep, JobsAssumption DEF TypeOK, WorkerFrame, Create, Jobs
<1>3. Live(j) => jobs[j] \in Row /\ LeaseOK(jobs[j]) /\ j < nextId
  BY <1>1, <1>2 DEF Live, LeaseWellFormed, UnusedIds
<1>4. j < nextId
  BY <1>3, FrameStep DEF HeldIdsExist
<1>5. worker'[w].silent <= Lease
  <2>1. CASE Tick
    <3>1. Holds(w) /\ worker[w].silent < Lease
      BY <2>1 DEF Tick, Holds
    <3>2. worker'[w].silent = Older(worker[w].silent, Lease)
      BY <2>1, <3>1 DEF Tick, TypeOK, WorkerFrame
    <3> QED  BY <1>2, <3>1, <3>2, LeaseAssumption, NullAssumption DEF Older, ClaimAges
  <2>2. CASE ~Tick
    BY <2>2, FrameStep, LeaseAssumption DEF HolderInv
  <2> QED  BY <2>1, <2>2
<1>6. ASSUME jobs'[j] # NoRow
      PROVE  \/ jobs'[j].claimed_by = w
             \/ jobs'[j].claimed_by = None /\ jobs'[j].status # "pending"
  <2>1. CASE ~Holds(w)
    <3>1. Live(j) /\ jobs' = [jobs EXCEPT ![j] = Claim(@, w)]
      BY <2>1, FrameStep
    <3> QED  BY <1>1, <1>2, <1>3, <3>1 DEF Claim, Row
  <2>2. CASE Holds(w)
    <3>1. Live(j)
      BY <1>1, <1>2, <1>4, <1>6, RowStep
    <3>2. \/ jobs[j].claimed_by = w
          \/ jobs[j].claimed_by = None /\ jobs[j].status # "pending"
      BY <2>2, <3>1 DEF HolderInv
    <3>3. ~Claimable(jobs[j]) /\ ~Stale(jobs[j])
      BY <2>2, <3>1, HeldRowIsSafe
    <3>4. CASE Statement(jobs[j], jobs'[j])
      BY <1>3, <3>1, <3>2, <3>3, <3>4, HeldRowKept
    <3>5. CASE jobs'[j] = Aged(jobs[j])
      BY <1>3, <3>1, <3>2, <3>5 DEF Aged, Row
    <3> QED  BY <1>1, <1>2, <1>4, <1>6, <3>1, <3>4, <3>5, NoRetryStep, RowStep
  <2> QED  BY <2>1, <2>2
<1> QED  BY <1>1, <1>2, <1>4, <1>5, <1>6

\* Nobody takes a job that somebody has.
LEMMA SingleHolderStep ==
  ASSUME OneRunnerInv, [Next]_vars
  PROVE  SingleHolder'
<1> USE DEF OneRunnerInv
<1> SUFFICES ASSUME NEW v \in Workers, NEW w \in Workers, v # w,
                    Holds(v)', Holds(w)', Job(v)' = Job(w)'
             PROVE  FALSE
  BY DEF SingleHolder
<1> DEFINE j == Job(w)
<1>1. j \in Jobs /\ Job(v) = j
  BY FrameStep
<1>2. \A x \in Workers :
        Live(j) /\ jobs' = [jobs EXCEPT ![j] = Claim(@, x)] => jobs'[j].claimed_by = x
  BY <1>1 DEF TypeOK, Claim, Row, Live
<1>3. CASE Holds(v) /\ Holds(w)
  BY <1>1, <1>3 DEF SingleHolder
<1>4. CASE ~Holds(v) /\ ~Holds(w)
  BY <1>1, <1>2, <1>4, FrameStep
<1>5. CASE ~Holds(v) /\ Holds(w)
  BY <1>1, <1>5, FrameStep, HeldRowIsSafe
<1>6. CASE Holds(v) /\ ~Holds(w)
  BY <1>1, <1>6, FrameStep, HeldRowIsSafe
<1> QED  BY <1>3, <1>4, <1>5, <1>6

\* OneRunnerInv holds in every reachable state.
THEOREM OneRunnerInvariant ==
  ASSUME Timely, MaxRetries = 0
  PROVE  Spec => []OneRunnerInv
<1>1. Init => NoRetry /\ HeldIdsExist /\ HolderInv /\ SingleHolder
  BY DEF Init, NoRetry, HeldIdsExist, HolderInv, SingleHolder, Holds, HoldingPcs,
         IdleFrame, Disturbances
<1>2. /\ TypeOK /\ LeaseWellFormed /\ LeaseFollowsHolder /\ UnusedIds
      /\ NoRetry /\ HeldIdsExist /\ HolderInv /\ SingleHolder /\ [Next]_vars
      => NoRetry' /\ HeldIdsExist' /\ HolderInv' /\ SingleHolder'
  BY NoRetryStep, HolderStep, SingleHolderStep DEF OneRunnerInv
<1>3. OneRunnerInv <=> /\ TypeOK /\ LeaseWellFormed /\ LeaseFollowsHolder /\ UnusedIds
                       /\ NoRetry /\ HeldIdsExist /\ HolderInv /\ SingleHolder
  BY DEF OneRunnerInv
<1> QED
  BY <1>1, <1>2, <1>3, TypeCorrect, LeaseCorrect, LeaseFollows, IdsUnused, PTL DEF Spec

\* SingleHolder, for any number of workers, processes, jobs, cancels and crashes.
THEOREM OneRunner ==
  ASSUME Timely, MaxRetries = 0
  PROVE  Spec => []SingleHolder
<1>1. OneRunnerInv => SingleHolder
  BY DEF OneRunnerInv
<1> QED  BY <1>1, OneRunnerInvariant, PTL

\* WritesOwnRow, under the same assumptions.
THEOREM VerdictsAreOwn ==
  ASSUME Timely, MaxRetries = 0
  PROVE  Spec => WritesOwnRow
<1>1. OneRunnerInv /\ [Next]_vars =>
        [\A w \in Workers :
           LET j == Job(w) IN
             (StartWrite(w) \/ FinishWrite(w) \/ FailWrite(w)) /\ Live(j)
             => jobs[j].claimed_by \in {w, None}]_vars
  <2> SUFFICES ASSUME OneRunnerInv, NEW w \in Workers, Live(Job(w)),
                      StartWrite(w) \/ FinishWrite(w) \/ FailWrite(w)
               PROVE  jobs[Job(w)].claimed_by \in {w, None}
    OBVIOUS
  <2>1. Holds(w)
    BY DEF StartWrite, FinishWrite, FailWrite, Holds, HoldingPcs
  <2> QED  BY <2>1 DEF OneRunnerInv, HolderInv
<1> QED  BY <1>1, OneRunnerInvariant, PTL DEF Spec, WritesOwnRow

-----------------------------------------------------------------------------
(* The registry of children. *)

\* A launch, the exit of a child and a crash change who waits for a child; nothing
\* else does.
LEMMA WaitersStep ==
  ASSUME TypeOK, [Next]_vars
  PROVE  \/ \E w \in Workers : Launch(w) /\ Live(Job(w))
         \/ \E w \in Workers : ChildExit(w)
         \/ \E p \in Procs : Crash(p)
         \/ /\ RUNNING' = RUNNING
            /\ \A w \in Workers :
                 /\ worker'[w].pc = "wait" <=> worker[w].pc = "wait"
                 /\ worker[w].pc = "wait" => Job(w)' = Job(w)
<1> DEFINE Same == /\ RUNNING' = RUNNING
                   /\ \A w \in Workers :
                        /\ worker'[w].pc = "wait" <=> worker[w].pc = "wait"
                        /\ worker[w].pc = "wait" => Job(w)' = Job(w)
<1>1. worker \in [Workers -> WorkerFrame]
  BY DEF TypeOK
<1>2. ASSUME NEW w \in Workers, NEW pc, worker[w].pc # "wait", pc # "wait",
             Goto(w, pc) \/ Wrote(w, pc) \/ ToIdle(w), RUNNING' = RUNNING
      PROVE  Same
  BY <1>1, <1>2 DEF Goto, Wrote, ToIdle, IdleFrame, Job, WorkerFrame
<1>3. ASSUME NEW w \in Workers, WorkerStep(w), ~(Launch(w) /\ Live(Job(w)))
      PROVE  Same
  <2>1. CASE ClaimSelect(w)
    BY <1>1, <2>1 DEF ClaimSelect, Job, WorkerFrame
  <2>2. CASE ClaimUpdate(w)
    BY <1>2, <2>2 DEF ClaimUpdate
  <2>3. CASE Enter(w) \/ CheckCanceled(w) \/ FailRead(w)
    BY <1>2, <2>3 DEF Enter, CheckCanceled, FailRead
  <2>4. CASE StartRead(w) \/ FinishRead(w)
    BY <1>2, <2>4 DEF StartRead, FinishRead, TransitionRead
  <2>5. CASE StartWrite(w) \/ FinishWrite(w) \/ FailWrite(w)
    BY <1>2, <2>5 DEF StartWrite, FinishWrite, FailWrite
  <2>6. CASE Launch(w)
    BY <1>2, <1>3, <2>6 DEF Launch
  <2> QED  BY <1>3, <2>1, <2>2, <2>3, <2>4, <2>5, <2>6 DEF WorkerStep
<1>4. ASSUME NEW w \in Workers, Renew(w)
      PROVE  Same
  <2>1. PICK h : worker' = [worker EXCEPT ![w].held = h, ![w].silent = 0]
    BY <1>4 DEF Renew
  <2> QED  BY <1>1, <1>4, <2>1 DEF Renew, Job, WorkerFrame
<1>5. ASSUME NEW w \in Workers, Raise(w)
      PROVE  Same
  BY <1>2, <1>5 DEF Raise, RaisesInBlock
<1>6. CASE Tick
  BY <1>1, <1>6 DEF Tick, Job, WorkerFrame
<1>7. CASE UNCHANGED <<worker, RUNNING>>
  BY <1>7 DEF Job
<1> HIDE DEF Same
<1>8. \/ \E w \in Workers : WorkerStep(w) \/ Renew(w) \/ ChildExit(w) \/ Raise(w)
      \/ \E p \in Procs : Crash(p)
      \/ Tick
      \/ UNCHANGED <<worker, RUNNING>>
  BY DEF Next, vars, StopWorkers, Exit, Restart, ChildReport, OrphanExit, ClientStep,
         CancelRead, CancelWrite, CancelEvent, RetryRead, RetryWrite, Terminate, Create,
         Reclaim, Purge
<1> QED  BY <1>3, <1>4, <1>5, <1>6, <1>7, <1>8 DEF Same

LEMMA RunningStep ==
  ASSUME TypeOK, SingleHolder, RunningIsExact, [Next]_vars
  PROVE  RunningIsExact'
<1>1. /\ worker \in [Workers -> WorkerFrame]
      /\ RUNNING \in [Procs -> [Jobs -> Workers \cup {None}]]
      /\ ProcOf \in [Workers -> Procs] /\ None \notin Workers
  BY ProcAssumption, NullAssumption DEF TypeOK
<1>2. \A w \in Workers : worker[w].pc \in HoldingPcs => Job(w) \in Jobs
  BY DEF TypeOK, HoldingPcs
<1>3. ASSUME NEW w \in Workers, Launch(w), Live(Job(w))
      PROVE  RunningIsExact'
  <2>1. /\ RUNNING' = [RUNNING EXCEPT ![ProcOf[w]][Job(w)] = w]
        /\ worker' = [worker EXCEPT ![w].pc = "wait", ![w].silent = 0]
        /\ worker[w].pc = "launch" /\ Job(w) \in Jobs
    BY <1>2, <1>3 DEF Launch, Wrote, HoldingPcs
  <2>2. /\ worker'[w].pc = "wait" /\ Job(w)' = Job(w)
        /\ \A v \in Workers : v # w => worker'[v] = worker[v] /\ Job(v)' = Job(v)
    BY <1>1, <2>1 DEF Job, WorkerFrame
  <2>3. \A v \in Workers : worker[v].pc = "wait" => Job(v) # Job(w)
    BY <2>1 DEF SingleHolder, Holds, HoldingPcs
  <2>4. SUFFICES ASSUME NEW p \in Procs, NEW j \in Jobs, NEW v \in Workers
        PROVE  RUNNING'[p][j] = v <=> ProcOf[v] = p /\ worker'[v].pc = "wait" /\ Job(v)' = j
    BY DEF RunningIsExact
  <2>5. RUNNING[p][j] = v <=> ProcOf[v] = p /\ worker[v].pc = "wait" /\ Job(v) = j
    BY DEF RunningIsExact
  <2>6. RUNNING'[p][j] = IF p = ProcOf[w] /\ j = Job(w) THEN w ELSE RUNNING[p][j]
    BY <1>1, <2>1
  <2> QED  BY <2>1, <2>2, <2>3, <2>5, <2>6
<1>4. ASSUME NEW w \in Workers, ChildExit(w)
      PROVE  RunningIsExact'
  <2>1. /\ RUNNING' = [RUNNING EXCEPT ![ProcOf[w]][Job(w)] = None]
        /\ worker[w].pc = "wait" /\ Job(w) \in Jobs
    BY <1>2, <1>4 DEF ChildExit, HoldingPcs
  <2>2. /\ worker'[w].pc = "check"
        /\ \A v \in Workers : v # w => worker'[v] = worker[v] /\ Job(v)' = Job(v)
    BY <1>1, <1>4 DEF ChildExit, Job, WorkerFrame
  <2>3. \A v \in Workers : v # w /\ worker[v].pc = "wait" => Job(v) # Job(w)
    BY <2>1 DEF SingleHolder, Holds, HoldingPcs
  <2>4. SUFFICES ASSUME NEW p \in Procs, NEW j \in Jobs, NEW v \in Workers
        PROVE  RUNNING'[p][j] = v <=> ProcOf[v] = p /\ worker'[v].pc = "wait" /\ Job(v)' = j
    BY DEF RunningIsExact
  <2>5. /\ RUNNING[p][j] = v <=> ProcOf[v] = p /\ worker[v].pc = "wait" /\ Job(v) = j
        /\ RUNNING[ProcOf[w]][Job(w)] = w
    BY <1>1, <2>1 DEF RunningIsExact
  <2>6. RUNNING'[p][j] = IF p = ProcOf[w] /\ j = Job(w) THEN None ELSE RUNNING[p][j]
    BY <1>1, <2>1
  <2> QED  BY <1>1, <2>1, <2>2, <2>3, <2>5, <2>6
<1>5. ASSUME NEW p \in Procs, Crash(p)
      PROVE  RunningIsExact'
  <2>1. /\ RUNNING' = [RUNNING EXCEPT ![p] = [j \in Jobs |-> None]]
        /\ \A v \in Workers : worker'[v] = IF ProcOf[v] = p THEN IdleFrame ELSE worker[v]
    BY <1>5 DEF Crash
  <2>2. SUFFICES ASSUME NEW q \in Procs, NEW j \in Jobs, NEW v \in Workers
        PROVE  RUNNING'[q][j] = v <=> ProcOf[v] = q /\ worker'[v].pc = "wait" /\ Job(v)' = j
    BY DEF RunningIsExact
  <2>3. RUNNING[q][j] = v <=> ProcOf[v] = q /\ worker[v].pc = "wait" /\ Job(v) = j
    BY DEF RunningIsExact
  <2>4. RUNNING'[q][j] = IF q = p THEN None ELSE RUNNING[q][j]
    BY <1>1, <2>1
  <2>5. IdleFrame.pc # "wait"
    BY DEF IdleFrame
  <2>6. CASE q = p
    BY <1>1, <2>1, <2>4, <2>5, <2>6
  <2>7. CASE q # p
    <3>1. ProcOf[v] = q => worker'[v] = worker[v] /\ Job(v)' = Job(v)
      BY <2>1, <2>7 DEF Job
    <3> QED  BY <2>3, <2>4, <2>7, <3>1
  <2> QED  BY <2>6, <2>7
<1>6. CASE /\ RUNNING' = RUNNING
           /\ \A w \in Workers :
                /\ worker'[w].pc = "wait" <=> worker[w].pc = "wait"
                /\ worker[w].pc = "wait" => Job(w)' = Job(w)
  <2>1. SUFFICES ASSUME NEW p \in Procs, NEW j \in Jobs, NEW v \in Workers
        PROVE  RUNNING'[p][j] = v <=> ProcOf[v] = p /\ worker'[v].pc = "wait" /\ Job(v)' = j
    BY DEF RunningIsExact
  <2>2. RUNNING[p][j] = v <=> ProcOf[v] = p /\ worker[v].pc = "wait" /\ Job(v) = j
    BY DEF RunningIsExact
  <2> QED  BY <1>6, <2>2
<1> QED  BY <1>3, <1>4, <1>5, <1>6, WaitersStep

\* RunningIsExact: as long as one thread holds a job, terminate_job finds the child
\* of every runner that waits, and no other.
THEOREM RegistryIsExact ==
  ASSUME Timely, MaxRetries = 0
  PROVE  Spec => []RunningIsExact
<1>1. Init => RunningIsExact
  <2> SUFFICES ASSUME Init, NEW p \in Procs, NEW j \in Jobs, NEW w \in Workers
               PROVE  RUNNING[p][j] # w /\ worker[w].pc # "wait"
    BY DEF RunningIsExact
  <2> QED  BY NullAssumption DEF Init, IdleFrame
<1>2. OneRunnerInv => TypeOK /\ SingleHolder
  BY DEF OneRunnerInv
<1>3. TypeOK /\ SingleHolder /\ RunningIsExact /\ [Next]_vars => RunningIsExact'
  BY RunningStep
<1> QED  BY <1>1, <1>2, <1>3, OneRunnerInvariant, PTL DEF Spec

-----------------------------------------------------------------------------
(* A cancel that finds the runner waiting, or finds none, is final. *)

\* The row, if it is still there, is canceled, and whoever still holds the job only looks at
\* it: the child may run on, its runner re-reads the row, is refused by transition and again
\* by _force_fail.
Stuck(j) ==
  /\ j < nextId
  /\ Live(j) => jobs[j].status = "canceled"
  /\ \A w \in Workers :
       Job(w) = j => worker[w].pc \in {"wait", "check", "finish_read", "fail_read"}

\* No statement that can still reach the row changes its status.
LEMMA StuckRow ==
  ASSUME TypeOK, NoRetry, NEW j \in Jobs, Stuck(j), [Next]_vars
  PROVE  jobs'[j] # NoRow => jobs'[j].status = "canceled"
<1> DEFINE Goal == jobs'[j] # NoRow => jobs'[j].status = "canceled"
<1>1. /\ jobs \in [Jobs -> Row \cup {NoRow}]
      /\ jobs[j] # NoRow => jobs[j].status = "canceled"
      /\ nextId \in Nat /\ j \in Nat
  BY JobsAssumption DEF TypeOK, Stuck, Live, Jobs
<1>2. UNCHANGED jobs => Goal
  BY <1>1
<1>3. ASSUME NEW k, NEW q, Update(k, q), k = j => q.status = "canceled"
      PROVE  Goal
  BY <1>1, <1>3 DEF Update
<1>4. \A r \in Row : Touch(r).status = r.status /\ Aged(r).status = r.status
  BY DEF Touch, Aged, Row
<1>5. \A r \in Row : Transitioned(r, "canceled").status = "canceled"
  BY DEF Transitioned, Settled, TERMINAL_STATES, Row
<1>6. Live(j) => /\ ~Claimable(jobs[j]) /\ ~Stale(jobs[j])
                 /\ Touch(jobs[j]).status = "canceled"
                 /\ Transitioned(jobs[j], "canceled").status = "canceled"
                 /\ Aged(jobs[j]).status = "canceled"
  BY <1>1, <1>4, <1>5 DEF Live, Claimable, Stale
<1>7. \A k, q : Update(k, q) /\ ~Live(j) => Goal
  BY <1>1 DEF Update, Live
<1>8. ReclaimAll => Goal
  BY <1>1, <1>6 DEF ReclaimAll, Live
<1>9. ASSUME NEW w \in Workers, WorkerStep(w) \/ Renew(w) \/ ChildExit(w) \/ Raise(w)
      PROVE  Goal
  <2>1. worker[w].pc \in {"claim", "start_write", "launch", "finish_write", "fail_write"}
        => Job(w) # j
    BY DEF Stuck
  <2>2. CASE ClaimUpdate(w)
    BY <1>1, <1>2, <2>1, <2>2 DEF ClaimUpdate
  <2>3. CASE StartWrite(w) \/ FinishWrite(w) \/ FailWrite(w)
    BY <1>3, <2>1, <2>3 DEF StartWrite, FinishWrite, FailWrite
  <2>4. CASE Launch(w)
    BY <1>2, <1>3, <2>1, <2>4 DEF Launch
  <2>5. CASE Renew(w)
    BY <1>3, <1>6, <1>7, <2>5 DEF Renew
  <2>6. CASE UNCHANGED jobs
    BY <1>2, <2>6
  <2> QED
    BY <1>9, <2>2, <2>3, <2>4, <2>5, <2>6
       DEF WorkerStep, ClaimSelect, Enter, StartRead, FinishRead, TransitionRead,
           ChildExit, CheckCanceled, FailRead, Raise
<1>10. ASSUME NEW c \in Clients,
              \/ ClientStep(c)
              \/ \E k \in Jobs : CancelRead(c, k) \/ RetryRead(c, k)
                                   \/ \E p \in Procs : Terminate(c, p, k)
       PROVE  Goal
  <2>1. CASE CancelWrite(c)
    BY <1>3, <1>6, <1>7, <2>1 DEF CancelWrite
  <2>2. CASE CancelEvent(c)
    BY <1>3, <1>6, <1>7, <2>2 DEF CancelEvent
  <2>3. ~RetryWrite(c)
    BY DEF NoRetry, RetryWrite
  <2>4. CASE UNCHANGED jobs
    BY <1>2, <2>4
  <2> QED
    BY <1>10, <2>1, <2>2, <2>3, <2>4 DEF ClientStep, CancelRead, RetryRead, Terminate
<1>11. ASSUME NEW k \in Jobs, ChildReport(k) PROVE Goal
  BY <1>1, <1>6, <1>11 DEF ChildReport, Live
<1>12. CASE Create
  <2>1. nextId # j
    BY <1>1 DEF Stuck
  <2> QED  BY <1>1, <1>12, <2>1 DEF Create
<1>13. CASE Purge
  BY <1>1, <1>13 DEF Purge
<1>14. CASE Tick
  BY <1>1, <1>6, <1>14 DEF Tick
<1>15. CASE UNCHANGED jobs
  BY <1>2, <1>15
<1> QED
  BY <1>8, <1>9, <1>10, <1>11, <1>12, <1>13, <1>14, <1>15
     DEF Next, vars, StopWorkers, Crash, Exit, Restart, OrphanExit, Reclaim

\* Nobody takes the job, and whoever holds it comes no nearer to a write.
LEMMA StuckThreads ==
  ASSUME TypeOK, NEW j \in Jobs, Stuck(j), [Next]_vars, NEW w \in Workers, Job(w)' = j
  PROVE  worker'[w].pc \in {"wait", "check", "finish_read", "fail_read"}
<1> DEFINE Pcs == {"wait", "check", "finish_read", "fail_read"}
<1>1. /\ worker \in [Workers -> WorkerFrame] /\ j # None
      /\ Job(w) = j => worker[w].pc \in Pcs
      /\ Live(j) => jobs[j].status = "canceled"
  BY NullAssumption, JobsAssumption DEF TypeOK, Stuck, Jobs
<1>2. worker'[w] = worker[w] => worker'[w].pc \in Pcs
  BY <1>1 DEF Job
<1>3. ~ToIdle(w) /\ worker'[w] # IdleFrame
  BY <1>1 DEF ToIdle, IdleFrame, Job
<1>4. ASSUME NEW pc, Goto(w, pc) \/ Wrote(w, pc)
      PROVE  Job(w) = j /\ worker[w].pc \in Pcs /\ worker'[w].pc = pc
  BY <1>1, <1>4 DEF Goto, Wrote, Job, WorkerFrame
<1>5. ~can_transition("canceled", "succeeded") /\ ~can_transition("canceled", "failed")
  BY DEF can_transition, DEFAULT_TRANSITIONS
<1>6. CASE ClaimSelect(w)
  <2>1. PICK k \in Jobs : /\ Candidate(k)
                          /\ worker' = [worker EXCEPT ![w].pc = "claim", ![w].job = k]
    BY <1>6 DEF ClaimSelect
  <2>2. k = j
    BY <1>1, <2>1 DEF Job, WorkerFrame
  <2> QED  BY <1>1, <2>1, <2>2 DEF Candidate, Claimable
<1>7. CASE ClaimUpdate(w) \/ Enter(w) \/ StartRead(w) \/ StartWrite(w) \/ Launch(w)
  BY <1>3, <1>4, <1>7 DEF ClaimUpdate, Enter, StartRead, TransitionRead, StartWrite, Launch
<1>8. CASE CheckCanceled(w)
  BY <1>3, <1>4, <1>8 DEF CheckCanceled
<1>9. CASE FinishRead(w)
  <2>1. worker[w].verdict \in {"succeeded", "failed"}
    BY <1>1 DEF WorkerFrame
  <2> QED  BY <1>1, <1>4, <1>5, <1>9, <2>1 DEF FinishRead, TransitionRead
<1>10. CASE FailRead(w)
  BY <1>1, <1>3, <1>4, <1>10 DEF FailRead, TERMINAL_STATES
<1>11. CASE FinishWrite(w) \/ FailWrite(w)
  BY <1>3, <1>11 DEF FinishWrite, FailWrite
<1>12. CASE Renew(w)
  <2>1. PICK h : worker' = [worker EXCEPT ![w].held = h, ![w].silent = 0]
    BY <1>12 DEF Renew
  <2> QED  BY <1>1, <1>12, <2>1 DEF Renew, WorkerFrame
<1>13. CASE ChildExit(w)
  BY <1>1, <1>13 DEF ChildExit, WorkerFrame
<1>14. CASE Raise(w)
  BY <1>3, <1>4, <1>14 DEF Raise
<1>15. ASSUME NEW v \in Workers, v # w,
              WorkerStep(v) \/ Renew(v) \/ ChildExit(v) \/ Raise(v)
       PROVE  worker'[w] = worker[w]
  BY <1>1, <1>15
     DEF WorkerStep, ClaimSelect, ClaimUpdate, Enter, StartRead, FinishRead, TransitionRead,
         StartWrite, Launch, Renew, ChildExit, CheckCanceled, FinishWrite, FailRead, FailWrite,
         Raise, Goto, Wrote, ToIdle
<1>16. ASSUME NEW p \in Procs, Crash(p)
       PROVE  worker'[w] = worker[w]
  BY <1>3, <1>16 DEF Crash
<1>17. CASE Tick
  BY <1>1, <1>17 DEF Tick, Job, WorkerFrame
<1>18. CASE UNCHANGED worker
  BY <1>2, <1>18
<1> QED
  BY <1>2, <1>6, <1>7, <1>8, <1>9, <1>10, <1>11, <1>12, <1>13, <1>14, <1>15, <1>16, <1>17, <1>18
     DEF Next, WorkerStep, vars, StopWorkers, Exit, Restart, ChildReport, OrphanExit,
         ClientStep, CancelRead, CancelWrite, CancelEvent, RetryRead, RetryWrite, Terminate,
         Create, Reclaim, Purge

\* Stuck is stable.
LEMMA StuckStep ==
  ASSUME TypeOK, NoRetry, NEW j \in Jobs, Stuck(j), [Next]_vars
  PROVE  Stuck(j)'
<1>1. j < nextId'
  <2>1. nextId \in Nat /\ j \in Nat
    BY JobsAssumption DEF TypeOK, Jobs
  <2> QED  BY <2>1, NextIdStep DEF Stuck, Create
<1>2. (Live(j) => jobs[j].status = "canceled")'
  BY StuckRow DEF Live
<1>3. \A w \in Workers :
        Job(w)' = j => worker'[w].pc \in {"wait", "check", "finish_read", "fail_read"}
  BY StuckThreads
<1> QED  BY <1>1, <1>2, <1>3 DEF Stuck

\* CancelSticks: a job canceled while its runner waits for the child, or is about to re-read the
\* row, or while nobody has it, never gets another status, whichever way the runner, the other
\* sessions, the crashes and reclaims interleave; only a retry, excluded here, may revive it.
THEOREM CancelsAreFinal ==
  ASSUME MaxRetries = 0
  PROVE  Spec => CancelSticks
<1>1. ASSUME NEW j \in Jobs
      PROVE  Spec => [](/\ Live(j) /\ jobs[j].status = "canceled"
                        /\ \A w \in Workers : Job(w) = j => worker[w].pc \in {"wait", "check"}
                        => [](Live(j) => jobs[j].status = "canceled"))
  <2>1. Init => NoRetry
    BY DEF Init, NoRetry, Disturbances
  <2>2. TypeOK /\ NoRetry /\ [Next]_vars => NoRetry'
    BY NoRetryStep
  <2>3. TypeOK /\ NoRetry /\ Stuck(j) /\ [Next]_vars => Stuck(j)'
    BY StuckStep
  <2>4. TypeOK /\ UnusedIds
        => (/\ Live(j) /\ jobs[j].status = "canceled"
            /\ \A w \in Workers : Job(w) = j => worker[w].pc \in {"wait", "check"}
            => Stuck(j))
    <3>1. TypeOK => nextId \in Nat /\ j \in Nat
      BY JobsAssumption DEF TypeOK, Jobs
    <3> QED  BY <3>1 DEF UnusedIds, Stuck
  <2>5. Stuck(j) => (Live(j) => jobs[j].status = "canceled")
    BY DEF Stuck
  <2> QED  BY <2>1, <2>2, <2>3, <2>4, <2>5, TypeCorrect, IdsUnused, PTL DEF Spec
<1> QED  BY <1>1 DEF CancelSticks

-----------------------------------------------------------------------------
(* The queue implements JobDispatch, as long as nobody cancels or retries. *)

\* No session is about to change a job.
QuietClients ==
  /\ count["cancel"] = 0 /\ count["retry"] = 0
  /\ \A c \in Clients : client[c].pc = "idle"

\* A job that somebody holds is not settled yet.
HeldUnsettled ==
  \A w \in Workers : Holds(w) /\ Live(Job(w)) => jobs[Job(w)].status \notin TERMINAL_STATES

DispatchInv == OneRunnerInv /\ QuietClients /\ HeldUnsettled

\* The settling write of a runner.
Settles(w) == (FinishWrite(w) \/ FailWrite(w)) /\ Live(Job(w))

SameStates == \A j \in Jobs : StateOf(j)' = StateOf(j)

\* HolderOf, without its CHOOSE.
HolderExact ==
  \A j \in Jobs : /\ HolderOf(j) \in Workers \cup {None}
                  /\ \A w \in Workers : HolderOf(j) = w <=> Holds(w) /\ Job(w) = j

LEMMA HolderOfExact == SingleHolder => HolderExact
<1> SUFFICES ASSUME SingleHolder, NEW j \in Jobs
             PROVE  /\ HolderOf(j) \in Workers \cup {None}
                    /\ \A w \in Workers : HolderOf(j) = w <=> Holds(w) /\ Job(w) = j
  BY DEF HolderExact
<1>1. CASE \E w \in Workers : Holds(w) /\ Job(w) = j
  <2>1. HolderOf(j) = CHOOSE w \in Workers : Holds(w) /\ Job(w) = j
    BY <1>1 DEF HolderOf
  <2>2. HolderOf(j) \in Workers /\ Holds(HolderOf(j)) /\ Job(HolderOf(j)) = j
    BY <1>1, <2>1
  <2> QED  BY <2>2 DEF SingleHolder
<1>2. CASE ~\E w \in Workers : Holds(w) /\ Job(w) = j
  BY <1>2, NullAssumption DEF HolderOf
<1> QED  BY <1>1, <1>2

LEMMA NoClientStep ==
  ASSUME QuietClients, MaxCancels = 0, MaxRetries = 0, NEW c \in Clients,
         \/ ClientStep(c)
         \/ \E j \in Jobs : CancelRead(c, j) \/ RetryRead(c, j)
                              \/ \E p \in Procs : Terminate(c, p, j)
  PROVE  FALSE
<1>1. client[c].pc = "idle" /\ ~Disturb("cancel", MaxCancels) /\ ~Disturb("retry", MaxRetries)
  BY DEF QuietClients, Disturb
<1> QED  BY <1>1 DEF ClientStep, CancelRead, CancelWrite, CancelEvent, RetryRead, RetryWrite,
                     Terminate

LEMMA QuietStep ==
  ASSUME TypeOK, QuietClients, MaxCancels = 0, MaxRetries = 0, [Next]_vars
  PROVE  QuietClients'
<1>1. count \in [Disturbances -> Nat] /\ {"cancel", "retry", "purge", "mishap"} = Disturbances
  BY DEF TypeOK, Disturbances
<1>2. ASSUME NEW d \in {"purge", "mishap"}, NEW bound, Disturb(d, bound)
      PROVE  count'["cancel"] = 0 /\ count'["retry"] = 0
  BY <1>1, <1>2 DEF Disturb, QuietClients
<1>3. ASSUME \/ \E w \in Workers : Raise(w)
             \/ \E p \in Procs : StopWorkers(p) \/ Crash(p)
             \/ Purge
      PROVE  QuietClients'
  BY <1>2, <1>3 DEF Raise, StopWorkers, Crash, Purge, QuietClients
<1>4. CASE UNCHANGED <<client, count>>
  BY <1>4 DEF QuietClients
<1>5. ASSUME NEW c \in Clients,
             \/ ClientStep(c)
             \/ \E j \in Jobs : CancelRead(c, j) \/ RetryRead(c, j)
                                  \/ \E p \in Procs : Terminate(c, p, j)
      PROVE  QuietClients'
  BY <1>5, NoClientStep
<1> QED
  BY <1>3, <1>4, <1>5
     DEF Next, vars, WorkerStep, ClaimSelect, ClaimUpdate, Enter, StartRead, FinishRead,
         TransitionRead, StartWrite, Launch, Renew, ChildExit, CheckCanceled,
         FinishWrite, FailRead, FailWrite, Exit, Restart, ChildReport, OrphanExit, Create,
         Reclaim, Tick

\* The state of a job, as JobDispatch sees it, moves only when the job is created,
\* purged, or settled by its runner.
LEMMA StatesStep ==
  ASSUME DispatchInv, MaxCancels = 0, MaxRetries = 0, [Next]_vars
  PROVE  Create \/ Purge \/ (\E w \in Workers : Settles(w)) \/ SameStates
<1>1. /\ jobs \in [Jobs -> Row \cup {NoRow}] /\ worker \in [Workers -> WorkerFrame]
      /\ \A w \in Workers : worker[w].pc # "idle" => Job(w) \in Jobs
      /\ HeldUnsettled
  BY DEF DispatchInv, OneRunnerInv, TypeOK
<1>2. SUFFICES ASSUME ~Create, ~Purge, ~\E w \in Workers : Settles(w)
      PROVE  SameStates
  OBVIOUS
<1>3. nextId' = nextId
  BY <1>2, NextIdStep
<1>4. ASSUME NEW k \in Jobs, NEW q, q # NoRow, jobs' = [jobs EXCEPT ![k] = q], Live(k),
             q.status \in TERMINAL_STATES <=> jobs[k].status \in TERMINAL_STATES
      PROVE  SameStates
  BY <1>1, <1>3, <1>4 DEF SameStates, StateOf, Live
<1>5. ASSUME UNCHANGED jobs
      PROVE  SameStates
  BY <1>3, <1>5 DEF SameStates, StateOf, Live
<1>6. ASSUME NEW r \in Row
      PROVE  /\ Touch(r).status = r.status /\ Touch(r) \in Row
             /\ Aged(r).status = r.status /\ Aged(r) \in Row
             /\ \A w \in Workers : Claim(r, w).status = r.status /\ Claim(r, w) \in Row
             /\ Transitioned(r, "running").status = "running"
             /\ Transitioned(r, "running") \in Row
             /\ Reclaimed(r).status = "pending" /\ Reclaimed(r) \in Row
             /\ "running" \notin TERMINAL_STATES /\ "pending" \notin TERMINAL_STATES
  <2>1. "running" \in Statuses
    BY DEF Statuses
  <2>2. /\ Touch(r) \in Row /\ Aged(r) \in Row /\ (\A w \in Workers : Claim(r, w) \in Row)
        /\ Transitioned(r, "running") \in Row /\ Reclaimed(r) \in Row
    BY <2>1, StatementsType
  <2>3. Touch(r).status = r.status /\ Aged(r).status = r.status
    BY DEF Row, Touch, Aged
  <2>4. (\A w \in Workers : Claim(r, w).status = r.status) /\ Reclaimed(r).status = "pending"
    BY DEF Row, Claim, Reclaimed
  <2>5. Transitioned(r, "running").status = "running"
    BY DEF Row, Transitioned, Touch, TERMINAL_STATES
  <2> QED  BY <2>2, <2>3, <2>4, <2>5 DEF TERMINAL_STATES
<1>7. \A j \in Jobs : Live(j) => jobs[j] \in Row
  BY <1>1 DEF Live
<1>8. ASSUME NEW k \in Jobs, NEW q, Update(k, q), Live(k) => q \in Row,
             Live(k) => (q.status \in TERMINAL_STATES <=> jobs[k].status \in TERMINAL_STATES)
      PROVE  SameStates
  BY <1>4, <1>5, <1>8, NoRowAssumption DEF Update
<1>9. ASSUME NEW w \in Workers, WorkerStep(w) \/ Renew(w) \/ ChildExit(w) \/ Raise(w)
      PROVE  SameStates
  <2>1. worker[w].pc # "idle" => Job(w) \in Jobs
    BY <1>1
  <2>2. CASE ClaimUpdate(w)
    BY <1>4, <1>5, <1>6, <1>7, <2>1, <2>2, NoRowAssumption DEF ClaimUpdate
  <2>3. CASE StartWrite(w)
    <3>1. Job(w) \in Jobs /\ Holds(w) /\ Update(Job(w), Transitioned(jobs[Job(w)], "running"))
      BY <2>1, <2>3 DEF StartWrite, Holds, HoldingPcs
    <3>2. Live(Job(w)) => jobs[Job(w)].status \notin TERMINAL_STATES
      BY <1>1, <3>1 DEF HeldUnsettled
    <3> QED  BY <1>6, <1>7, <1>8, <3>1, <3>2
  <2>4. CASE Launch(w)
    BY <1>5, <1>6, <1>7, <1>8, <2>1, <2>4 DEF Launch
  <2>5. CASE Renew(w)
    BY <1>6, <1>7, <1>8, <2>1, <2>5 DEF Renew
  <2>6. CASE FinishWrite(w) \/ FailWrite(w)
    <3>1. UNCHANGED jobs
      BY <1>2, <2>6 DEF Settles, FinishWrite, FailWrite, Update
    <3> QED  BY <1>5, <3>1
  <2>7. CASE UNCHANGED jobs
    BY <1>5, <2>7
  <2> QED
    BY <1>9, <2>2, <2>3, <2>4, <2>5, <2>6, <2>7
       DEF WorkerStep, ClaimSelect, Enter, StartRead, FinishRead, TransitionRead,
           ChildExit, CheckCanceled, FailRead, Raise
<1>10. ASSUME NEW j \in Jobs, ChildReport(j)
       PROVE  SameStates
  BY <1>4, <1>6, <1>7, <1>10, NoRowAssumption DEF ChildReport
<1>11. CASE ReclaimAll
  <2>1. ASSUME NEW j \in Jobs
        PROVE  StateOf(j)' = StateOf(j)
    <3>1. jobs'[j] = IF Live(j) /\ Stale(jobs[j]) THEN Reclaimed(jobs[j]) ELSE jobs[j]
      BY <1>11 DEF ReclaimAll
    <3>2. CASE Live(j) /\ Stale(jobs[j])
      <4>1. jobs'[j].status = "pending" /\ jobs'[j] # NoRow /\ jobs[j].status = "running"
        BY <1>6, <1>7, <3>1, <3>2, NoRowAssumption DEF Stale
      <4> QED  BY <1>6, <1>7, <3>2, <4>1 DEF StateOf, Live
    <3>3. CASE ~(Live(j) /\ Stale(jobs[j]))
      BY <1>3, <3>1, <3>3 DEF StateOf, Live
    <3> QED  BY <3>2, <3>3
  <2> QED  BY <2>1 DEF SameStates
<1>12. CASE Tick
  <2>1. ASSUME NEW j \in Jobs
        PROVE  StateOf(j)' = StateOf(j)
    <3>1. jobs'[j] = IF Live(j) THEN Aged(jobs[j]) ELSE NoRow
      BY <1>12 DEF Tick
    <3>2. CASE Live(j)
      <4>1. jobs'[j] # NoRow /\ jobs'[j].status = jobs[j].status
        BY <1>6, <1>7, <3>1, <3>2, NoRowAssumption
      <4> QED  BY <3>2, <4>1 DEF StateOf, Live
    <3>3. CASE ~Live(j)
      BY <1>3, <3>1, <3>3 DEF StateOf, Live
    <3> QED  BY <3>2, <3>3
  <2> QED  BY <2>1 DEF SameStates
<1>13. ASSUME NEW c \in Clients,
              \/ ClientStep(c)
              \/ \E j \in Jobs : CancelRead(c, j) \/ RetryRead(c, j)
                                   \/ \E p \in Procs : Terminate(c, p, j)
       PROVE  SameStates
  BY <1>13, NoClientStep DEF DispatchInv
<1> HIDE DEF SameStates
<1> QED
  BY <1>2, <1>5, <1>9, <1>10, <1>11, <1>12, <1>13
     DEF Next, vars, StopWorkers, Crash, Exit, Restart, OrphanExit, Reclaim

\* What a settling runner leaves behind.
LEMMA SettleStep ==
  ASSUME DispatchInv, NEW w \in Workers, Settles(w)
  PROVE  /\ Job(w) \in Jobs /\ Holds(w) /\ ~Holds(w)' /\ nextId' = nextId
         /\ jobs'[Job(w)] # NoRow /\ jobs'[Job(w)].status \in TERMINAL_STATES
         /\ \A j \in Jobs \ {Job(w)} : jobs'[j] = jobs[j]
         /\ \A v \in Workers \ {w} : worker'[v] = worker[v]
<1>1. /\ jobs \in [Jobs -> Row \cup {NoRow}] /\ worker \in [Workers -> WorkerFrame]
      /\ Job(w) \in Jobs /\ Holds(w) /\ Live(Job(w))
      /\ worker[w].verdict \in {"succeeded", "failed"}
  BY DEF Settles, FinishWrite, FailWrite, Holds, HoldingPcs, DispatchInv, OneRunnerInv, TypeOK,
         WorkerFrame
<1>2. ToIdle(w) /\ nextId' = nextId
  BY DEF Settles, FinishWrite, FailWrite
<1>3. PICK s \in {"succeeded", "failed"} : jobs' = [jobs EXCEPT ![Job(w)] = Settled(@, s)]
  <2>1. CASE FinishWrite(w)
    BY <1>1, <2>1 DEF FinishWrite, Update, Transitioned, TERMINAL_STATES
  <2>2. CASE FailWrite(w)
    BY <1>1, <2>2 DEF FailWrite, Update, ForceFailed
  <2> QED  BY <2>1, <2>2 DEF Settles
<1>4. jobs[Job(w)] \in Row
  BY <1>1 DEF Live
<1>5. Settled(jobs[Job(w)], s) \in Row /\ Settled(jobs[Job(w)], s).status = s
  <2>1. s \in Statuses /\ 0 \in FinishAges
    BY RetentionAssumption DEF Statuses, FinishAges
  <2> QED  BY <1>4, <2>1 DEF Settled, Row
<1>6. jobs'[Job(w)] = Settled(jobs[Job(w)], s)
  BY <1>1, <1>3
<1>7. ~Holds(w)' /\ \A v \in Workers \ {w} : worker'[v] = worker[v]
  BY <1>1, <1>2 DEF ToIdle, Holds, HoldingPcs, IdleFrame
<1> QED  BY <1>1, <1>2, <1>3, <1>5, <1>6, <1>7, NoRowAssumption DEF TERMINAL_STATES

LEMMA UnsettledStep ==
  ASSUME DispatchInv, MaxCancels = 0, MaxRetries = 0, [Next]_vars
  PROVE  HeldUnsettled'
<1>1. SUFFICES ASSUME NEW w \in Workers, Holds(w)', jobs'[Job(w)'] # NoRow
      PROVE  jobs'[Job(w)'].status \notin TERMINAL_STATES
  BY DEF HeldUnsettled, Live
<1>2. PICK j \in Jobs : j = Job(w) /\ Job(w)' = j
  BY <1>1, FrameStep DEF DispatchInv, OneRunnerInv
<1>3. Holds(w) \/ (Live(j) /\ Claimable(jobs[j]))
  BY <1>1, <1>2, FrameStep DEF DispatchInv, OneRunnerInv
<1>4. jobs \in [Jobs -> Row \cup {NoRow}] /\ j \in Nat /\ nextId \in Nat
  BY JobsAssumption DEF DispatchInv, OneRunnerInv, TypeOK, Jobs
<1>5. Live(j) => jobs[j].status \notin TERMINAL_STATES
  BY <1>2, <1>3 DEF DispatchInv, HeldUnsettled, Claimable, TERMINAL_STATES
<1>6. j < nextId
  BY <1>2, <1>3, <1>4 DEF DispatchInv, OneRunnerInv, HeldIdsExist, UnusedIds
<1>7. ASSUME NEW v \in Workers, Settles(v)
      PROVE  jobs'[j].status \notin TERMINAL_STATES
  <2>1. v # w
    BY <1>1, <1>7, SettleStep
  <2>2. Holds(w)
    BY <1>1, <1>7, <2>1, SettleStep DEF Holds
  <2>3. Job(v) # j
    BY <1>2, <1>7, <2>1, <2>2, SettleStep DEF DispatchInv, OneRunnerInv, SingleHolder
  <2> QED  BY <1>1, <1>2, <1>5, <1>7, <2>3, SettleStep DEF Live
<1>8. CASE Create
  <2>1. jobs'[j] = jobs[j]
    BY <1>4, <1>6, <1>8 DEF Create
  <2> QED  BY <1>1, <1>2, <1>5, <2>1 DEF Live
<1>9. CASE Purge
  <2>1. jobs'[j] = jobs[j]
    BY <1>1, <1>2, <1>9 DEF Purge
  <2> QED  BY <1>1, <1>2, <1>5, <2>1 DEF Live
<1>10. CASE SameStates
  <2>1. StateOf(j)' = StateOf(j) /\ StateOf(j) \in {"queued", "purged"}
    BY <1>2, <1>5, <1>6, <1>10 DEF SameStates, StateOf
  <2>2. StateOf(j)' = IF jobs'[j].status \in TERMINAL_STATES THEN "settled" ELSE "queued"
    BY <1>1, <1>2 DEF StateOf, Live
  <2> QED  BY <1>2, <2>1, <2>2
<1> QED  BY <1>2, <1>7, <1>8, <1>9, <1>10, StatesStep

-----------------------------------------------------------------------------
(* Every step is a step of JobDispatch, or none. *)

LEMMA DispatchStep ==
  ASSUME DispatchInv, SingleHolder', MaxCancels = 0, MaxRetries = 0,
         PurgeStatuses \subseteq TERMINAL_STATES, [Next]_vars
  PROVE  Dispatch!Next
<1>1. HolderExact /\ HolderExact'
  <2>1. (SingleHolder => HolderExact)'
    BY HolderOfExact, PTL
  <2> QED  BY <2>1, HolderOfExact DEF DispatchInv, OneRunnerInv
<1>2. /\ jobs \in [Jobs -> Row \cup {NoRow}] /\ worker \in [Workers -> WorkerFrame]
      /\ nextId \in Nat /\ Jobs \subseteq Nat /\ UnusedIds /\ None \notin Workers
  BY JobsAssumption, NullAssumption DEF DispatchInv, OneRunnerInv, TypeOK, Jobs
<1>3. ASSUME \A w \in Workers : Holds(w)' <=> Holds(w),
             \A w \in Workers : Holds(w) => Job(w)' = Job(w)
      PROVE  \A j \in Jobs : HolderOf(j)' = HolderOf(j)
  BY <1>1, <1>3 DEF HolderExact
<1>4. CASE Create
  <2>1. nextId \in Jobs /\ nextId' = nextId + 1 /\ UNCHANGED worker
        /\ \E p \in Priorities : jobs' = [jobs EXCEPT ![nextId] = NewRow(p)]
    <3>1. nextId \in 1 .. MaxJobs + 1 /\ nextId <= MaxJobs
      BY <1>4 DEF Create, DispatchInv, OneRunnerInv, TypeOK
    <3>2. nextId \in Jobs
      BY <3>1, JobsAssumption DEF Jobs
    <3> QED  BY <1>4, <3>2 DEF Create
  <2>2. \A j \in Jobs : HolderOf(j)' = HolderOf(j)
    BY <1>3, <2>1 DEF Holds, Job
  <2>3. PICK p \in 0 .. 100 : jobs' = [jobs EXCEPT ![nextId] = NewRow(p)]
    BY <2>1, OptionAssumption
  <2>4. NewRow(p) # NoRow /\ NewRow(p).status = "pending"
    <3>1. NewRow(p) \in Row
      BY NewRowType
    <3>2. NewRow(p).status = "pending"
      BY DEF NewRow
    <3> QED  BY <3>1, <3>2, NoRowAssumption
  <2>5. PICK j \in Jobs : j = nextId
    BY <2>1
  <2>6. StateOf(j) = "absent" /\ StateOf(j)' = "queued"
    <3>1. jobs'[j] = NewRow(p) /\ ~Live(j) /\ ~(j < nextId)
      BY <1>2, <2>3, <2>5 DEF UnusedIds
    <3>2. StateOf(j) = "absent"
      BY <3>1 DEF StateOf
    <3>3. jobs'[j] # NoRow /\ jobs'[j].status \notin TERMINAL_STATES
      BY <2>4, <3>1 DEF TERMINAL_STATES
    <3>4. StateOf(j)' = "queued"
      BY <3>3 DEF StateOf, Live
    <3> QED  BY <3>2, <3>4
  <2>7. \A k \in Jobs \ {j} : StateOf(k)' = StateOf(k)
    BY <1>2, <2>1, <2>3, <2>5 DEF StateOf, Live
  <2>8. Dispatch!Submit(j)
    BY <2>2, <2>6, <2>7 DEF Dispatch!Submit, Dispatch!Move
  <2> QED  BY <2>8 DEF Dispatch!Next
<1>5. CASE Purge
  <2> DEFINE S == {j \in Jobs : Live(j) /\ Purgeable(jobs[j], PurgeStatuses)}
  <2>1. /\ jobs' = [j \in Jobs |-> IF j \in S THEN NoRow ELSE jobs[j]]
        /\ nextId' = nextId /\ UNCHANGED worker
    BY <1>5 DEF Purge
  <2>2. \A j \in Jobs : HolderOf(j)' = HolderOf(j)
    BY <1>3, <2>1 DEF Holds, Job
  <2>3. \A j \in S : StateOf(j) = "settled" /\ j < nextId
    BY <1>2 DEF StateOf, Purgeable, UnusedIds
  <2>4. S \subseteq Jobs
    OBVIOUS
  <2> HIDE DEF S
  <2>5. \A j \in S : StateOf(j)' = "purged"
    BY <2>1, <2>3, <2>4 DEF StateOf, Live
  <2>6. \A j \in Jobs \ S : StateOf(j)' = StateOf(j)
    BY <2>1 DEF StateOf, Live
  <2>7. Dispatch!Purge(S)
    BY <2>2, <2>3, <2>4, <2>5, <2>6 DEF Dispatch!Purge
  <2> QED  BY <2>4, <2>7 DEF Dispatch!Next
<1>6. ASSUME NEW w \in Workers, Settles(w)
      PROVE  Dispatch!Next
  <2>1. /\ Job(w) \in Jobs /\ Holds(w) /\ ~Holds(w)' /\ nextId' = nextId
        /\ jobs'[Job(w)] # NoRow /\ jobs'[Job(w)].status \in TERMINAL_STATES
        /\ \A j \in Jobs \ {Job(w)} : jobs'[j] = jobs[j]
        /\ \A v \in Workers \ {w} : worker'[v] = worker[v]
    BY <1>6, SettleStep
  <2>2. StateOf(Job(w)) = "queued"
    BY <1>6, <2>1 DEF Settles, StateOf, DispatchInv, HeldUnsettled
  <2>3. PICK j \in Jobs : j = Job(w)
    BY <2>1
  <2>4. /\ StateOf(j)' = "settled"
        /\ \A k \in Jobs \ {j} : StateOf(k)' = StateOf(k)
    BY <2>1, <2>3 DEF StateOf, Live
  <2>5. HolderOf(j) = w
    BY <1>1, <2>1, <2>3 DEF HolderExact
  <2>6. \A v \in Workers \ {w} : (Holds(v)' <=> Holds(v)) /\ Job(v)' = Job(v)
    BY <2>1 DEF Holds, Job
  <2>7. HolderOf(j)' = None
    <3>1. \A v \in Workers : ~(Holds(v)' /\ Job(v)' = j)
      BY <2>1, <2>3, <2>6 DEF DispatchInv, OneRunnerInv, SingleHolder
    <3> QED  BY <1>1, <3>1 DEF HolderExact
  <2>8. \A k \in Jobs \ {j} : HolderOf(k)' = HolderOf(k)
    BY <1>1, <2>1, <2>3, <2>6 DEF HolderExact
  <2>9. Dispatch!Settle(j)
    BY <1>2, <2>2, <2>3, <2>4, <2>5, <2>7, <2>8 DEF Dispatch!Settle, Dispatch!Move
  <2> QED  BY <2>9 DEF Dispatch!Next
<1>7. CASE SameStates
  <2>1. ASSUME NEW w \in Workers, Holds(w)'
        PROVE  /\ Job(w) \in Jobs /\ Job(w)' = Job(w)
               /\ \/ Holds(w)
                  \/ /\ ClaimUpdate(w) /\ worker[w].pc = "claim"
                     /\ Live(Job(w)) /\ Claimable(jobs[Job(w)])
    BY <2>1, FrameStep DEF DispatchInv, OneRunnerInv
  <2>2. CASE \E w \in Workers : Holds(w)' /\ ~Holds(w)
    <3>1. PICK w \in Workers : Holds(w)' /\ ~Holds(w)
      BY <2>2
    <3>2. PICK j \in Jobs : j = Job(w) /\ Job(w)' = j
      BY <2>1, <3>1
    <3>3. ClaimUpdate(w) /\ worker[w].pc = "claim" /\ Live(j) /\ Claimable(jobs[j])
      BY <2>1, <3>1, <3>2
    <3>4. \A v \in Workers \ {w} : (Holds(v)' <=> Holds(v)) /\ Job(v)' = Job(v)
      BY <1>2, <3>3 DEF ClaimUpdate, Wrote, ToIdle, Holds, Job
    <3>5. StateOf(j) = "queued"
      BY <3>3 DEF StateOf, Claimable, TERMINAL_STATES
    <3>6. \A v \in Workers : Holds(v) => Job(v) # j
      BY <3>3, HeldRowIsSafe DEF DispatchInv
    <3>7. HolderOf(j) = None /\ \A k \in Jobs : HolderOf(k) # w
      BY <1>1, <3>1, <3>6 DEF HolderExact
    <3>8. HolderOf(j)' = w
      BY <1>1, <3>1, <3>2 DEF HolderExact
    <3>9. \A k \in Jobs \ {j} : HolderOf(k)' = HolderOf(k)
      BY <1>1, <3>1, <3>2, <3>4 DEF HolderExact
    <3>10. Dispatch!Take(j, w)
      BY <1>7, <3>5, <3>7, <3>8, <3>9 DEF Dispatch!Take, SameStates
    <3> QED  BY <3>10 DEF Dispatch!Next
  <2>3. CASE ~\E w \in Workers : Holds(w)' /\ ~Holds(w)
    <3> DEFINE S == {j \in Jobs : HolderOf(j)' = None}
    <3>1. \A j \in Jobs \ S : HolderOf(j)' = HolderOf(j)
      BY <1>1, <2>1, <2>3 DEF HolderExact
    <3>2. S \subseteq Jobs /\ \A j \in S : HolderOf(j)' = None
      OBVIOUS
    <3> HIDE DEF S
    <3>3. Dispatch!Drop(S)
      BY <1>7, <3>1, <3>2 DEF Dispatch!Drop, SameStates
    <3> QED  BY <3>2, <3>3 DEF Dispatch!Next
  <2> QED  BY <2>2, <2>3
<1> QED  BY <1>4, <1>5, <1>6, <1>7, StatesStep

\* ImplementsDispatch: any number of workers, processes and jobs, whatever crashes,
\* stops, fails and restarts, behave as JobDispatch promises: a job has one taker at
\* a time, only the taker settles it, and a settled job stays settled until purged.
THEOREM QueueImplementsDispatch ==
  ASSUME Timely, MaxCancels = 0, MaxRetries = 0, PurgeStatuses \subseteq TERMINAL_STATES
  PROVE  Spec => ImplementsDispatch
<1>1. Init => QuietClients /\ HeldUnsettled
  BY DEF Init, QuietClients, HeldUnsettled, Live, Disturbances, Holds, HoldingPcs, IdleFrame
<1>2. OneRunnerInv /\ OneRunnerInv' /\ QuietClients /\ HeldUnsettled /\ [Next]_vars
      => QuietClients' /\ HeldUnsettled' /\ [Dispatch!Next]_(Dispatch!vars)
  <2> SUFFICES ASSUME OneRunnerInv, OneRunnerInv', QuietClients, HeldUnsettled, [Next]_vars
               PROVE  QuietClients' /\ HeldUnsettled' /\ Dispatch!Next
    OBVIOUS
  <2>1. DispatchInv /\ TypeOK /\ SingleHolder'
    BY DEF DispatchInv, OneRunnerInv
  <2> QED  BY <2>1, QuietStep, UnsettledStep, DispatchStep
<1>3. Init => Dispatch!Init
  <2> SUFFICES ASSUME Init  PROVE Dispatch!Init
    OBVIOUS
  <2>1. \A j \in Jobs : StateOf(j) = "absent" /\ HolderOf(j) = None
    BY JobsAssumption DEF Init, StateOf, HolderOf, Live, Jobs, Holds, HoldingPcs, IdleFrame
  <2> QED  BY <2>1 DEF Dispatch!Init
<1> QED
  BY <1>1, <1>2, <1>3, OneRunnerInvariant, PTL DEF Spec, ImplementsDispatch, Dispatch!Spec

=============================================================================
