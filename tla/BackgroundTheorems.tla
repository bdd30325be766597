------------------------- MODULE BackgroundTheorems -------------------------
(***************************************************************************)
(* Proofs about JobSubmit: its types, that the end of a job stands         *)
(* whatever its own thread still tries, that dedup leaves one live job to  *)
(* a scope, and that a submission is answered with the job it caused; and  *)
(* about ParallelMap: that a batch leaves no item and no failure out.      *)
(***************************************************************************)
EXTENDS Background, SequenceTheorems, FiniteSetTheorems, TLAPS

JobRow == [scope : Scopes, status : Live \cup Terminal, created : Nat]

\* A terminal row keeps its status, and rows are only added.
JobsMove ==
  /\ Ids \subseteq Ids'
  /\ \A i \in Ids : jobs[i].status \in Terminal => jobs'[i].status = jobs[i].status

\* A session spawns its thread late, a body has a row, and a settled verdict is in it.
SessionOK(s) ==
  /\ session[s].pc \in {"idle", "check", "create", "before"} => thread[s].pc = "none"
  /\ session[s].pc # "idle" => session[s].scope \in Scopes
  /\ thread[s].pc # "none" => session[s].scope \in Scopes
  /\ thread[s].pc \in {"none", "open", "work"} => thread[s].verdict = None
  /\ thread[s].pc \in {"open", "work", "close", "fail", "own"} => thread[s].job \in Ids
  /\ thread[s].pc \in {"close", "fail"} /\ thread[s].verdict \in Terminal
     => jobs[thread[s].job].status \in Terminal

VerdictInv == TypeOK /\ \A s \in Sessions : SessionOK(s)

-----------------------------------------------------------------------------
(* What a statement does to the rows. *)

LEMMA SetStatusRows ==
  ASSUME NEW i \in Ids, NEW x \in Live \cup Terminal, jobs \in Seq(JobRow), SetStatus(i, x),
         jobs[i].status \in Terminal => x = jobs[i].status
  PROVE  jobs' \in Seq(JobRow) /\ Ids' = Ids /\ jobs'[i].status = x /\ JobsMove
<1>1. jobs' = [jobs EXCEPT ![i] = [jobs[i] EXCEPT !.status = x]]
  BY DEF SetStatus
<1>2. jobs[i] \in JobRow
  BY ElementOfSeq DEF Ids
<1>3. [jobs[i] EXCEPT !.status = x] \in JobRow /\ [jobs[i] EXCEPT !.status = x].status = x
  BY <1>2 DEF JobRow
<1>4. jobs' \in Seq(JobRow) /\ Ids' = Ids
  BY <1>1, <1>3, ExceptSeq DEF Ids
<1>5. jobs'[i] = [jobs[i] EXCEPT !.status = x] /\ \A k \in Ids \ {i} : jobs'[k] = jobs[k]
  BY <1>1 DEF Ids
<1> QED  BY <1>3, <1>4, <1>5 DEF JobsMove

LEMMA NewJobRows ==
  ASSUME NEW scope \in Scopes, jobs \in Seq(JobRow), clock \in Nat, NewJob(scope)
  PROVE  jobs' \in Seq(JobRow) /\ Len(jobs) + 1 \in Ids' /\ JobsMove
<1>1. [scope |-> scope, status |-> "pending", created |-> clock] \in JobRow
  BY DEF JobRow, Live
<1>2. /\ jobs' \in Seq(JobRow) /\ Len(jobs') = Len(jobs) + 1
      /\ \A i \in 1 .. Len(jobs) : jobs'[i] = jobs[i]
  BY <1>1, AppendProperties DEF NewJob
<1>3. Ids = 1 .. Len(jobs) /\ Ids' = 1 .. Len(jobs) + 1 /\ Len(jobs) \in Nat
  BY <1>2, LenProperties DEF Ids
<1> QED  BY <1>2, <1>3 DEF JobsMove

LEMMA SameRows ==
  ASSUME UNCHANGED jobs
  PROVE  Ids' = Ids /\ JobsMove
BY DEF JobsMove, Ids

-----------------------------------------------------------------------------
(* The invariant is kept, action by action. *)

SessionType == [pc : SessionPcs, mode : {"tracked", "detached"}, scope : Scopes \cup {None},
                after : Nat, result : Nat \cup {None}]
ThreadType  == [pc : ThreadPcs, job : Nat \cup {None}, verdict : Verdicts \cup {None}]

\* The steps of one session: the rows move as they may, and this session stays in order.
Kept(s) ==
  /\ jobs' \in Seq(JobRow) /\ clock' \in Nat /\ count' \in [{"cancel", "crash"} -> Nat]
  /\ JobsMove
  /\ \E x \in SessionType, y \in ThreadType :
       /\ session' = [session EXCEPT ![s] = x]
       /\ thread' = [thread EXCEPT ![s] = y]
  /\ SessionOK(s)'

LEMMA KeptIsEnough ==
  ASSUME VerdictInv, NEW s \in Sessions, Kept(s)
  PROVE  VerdictInv' /\ JobsMove
<1>1. session \in [Sessions -> SessionType] /\ thread \in [Sessions -> ThreadType]
  BY DEF VerdictInv, TypeOK, SessionType, ThreadType
<1>2. TypeOK'
  <2>1. session' \in [Sessions -> SessionType] /\ thread' \in [Sessions -> ThreadType]
    BY <1>1 DEF Kept
  <2> QED  BY <2>1 DEF Kept, TypeOK, SessionType, ThreadType, JobRow
<1>3. ASSUME NEW d \in Sessions, d # s  PROVE SessionOK(d)'
  <2>1. session'[d] = session[d] /\ thread'[d] = thread[d]
    BY <1>1, <1>3 DEF Kept
  <2> QED  BY <2>1 DEF VerdictInv, SessionOK, Kept, JobsMove
<1> QED  BY <1>2, <1>3 DEF Kept, VerdictInv

\* The session's own steps: only create_tracked touches the rows.
LEMMA SessionKept ==
  ASSUME VerdictInv, NEW s \in Sessions, Begin(s) \/ SessionStep(s) \/ AwaitTimeout(s)
  PROVE  VerdictInv' /\ JobsMove
<1>1. /\ session \in [Sessions -> SessionType] /\ thread \in [Sessions -> ThreadType]
      /\ jobs \in Seq(JobRow) /\ clock \in Nat /\ count \in [{"cancel", "crash"} -> Nat]
      /\ SessionOK(s) /\ session[s] \in SessionType /\ thread[s] \in ThreadType
      /\ Len(jobs) \in Nat
  BY LenProperties DEF VerdictInv, TypeOK, SessionType, ThreadType, JobRow
<1>2. Ids \subseteq Nat
  BY <1>1, LenProperties DEF Ids
<1>3. thread = [thread EXCEPT ![s] = thread[s]]
  BY <1>1
<1>4. \A pc \in SessionPcs : [session[s] EXCEPT !.pc = pc] \in SessionType
  BY <1>1 DEF SessionType
<1>5. \A scope : \A id \in LatestAnswers(scope) : id \in Nat
  <2>1. ASSUME NEW scope, NEW id \in LatestAnswers(scope)  PROVE id \in Nat
    <3> DEFINE Of(T) ==
                 LET match == {i \in T : jobs[i].scope = scope} IN
                 IF match = {} THEN {0}
                 ELSE {i \in match : \A k \in match : jobs[i].created >= jobs[k].created}
    <3>0. LatestAnswers(scope) = UNION {Of(S) : S \in Scans}
      BY DEF LatestAnswers
    <3> HIDE DEF Of
    <3>1. PICK S \in Scans : id \in Of(S)
      BY <2>1, <3>0
    <3>2. S \subseteq Ids
      BY DEF Scans
    <3> DEFINE match == {i \in S : jobs[i].scope = scope}
    <3>3. CASE match = {}
      BY <3>1, <3>3 DEF Of
    <3>4. CASE match # {}
      BY <1>2, <3>1, <3>2, <3>4 DEF Of
    <3> QED  BY <1>2, <3>2, <3>3, <3>4
  <2> QED  BY <2>1
<1>6. {"idle", "check", "create", "before", "await", "alive", "recheck", "returned", "rejected"}
      = SessionPcs
  BY DEF SessionPcs
<1>7. CASE Begin(s)
  <2>1. PICK scope \in Scopes, mode \in {"tracked", "detached"} :
          session' = [session EXCEPT ![s].pc = "check", ![s].scope = scope, ![s].mode = mode]
    BY <1>7 DEF Begin
  <2> DEFINE x == [session[s] EXCEPT !.pc = "check", !.scope = scope, !.mode = mode]
  <2>2. x \in SessionType /\ x.pc = "check" /\ x.scope = scope
    BY <1>1, <1>6 DEF SessionType
  <2>3. session' = [session EXCEPT ![s] = x] /\ session'[s] = x
    BY <1>1, <2>1
  <2>4. SessionOK(s)'
    BY <1>1, <1>7, <2>2, <2>3 DEF Begin, SessionOK, Ids
  <2> HIDE DEF x
  <2> QED  BY <1>1, <1>3, <1>7, <2>2, <2>3, <2>4, SameRows, KeptIsEnough DEF Begin, Kept
<1>8. CASE Check(s)
  <2>1. PICK pc \in {"rejected", "create", "before"} : Goto(s, pc)
    BY <1>8 DEF Check
  <2>2. session' = [session EXCEPT ![s] = [session[s] EXCEPT !.pc = pc]]
    BY <2>1 DEF Goto
  <2>3. SessionOK(s)'
    BY <1>1, <1>8, <2>2 DEF Check, SessionOK, Ids, SessionType
  <2> QED  BY <1>1, <1>3, <1>4, <1>6, <1>8, <2>1, <2>2, <2>3, SameRows, KeptIsEnough DEF Check, Kept
<1>9. CASE CreateTracked(s)
  <2>0. PICK n \in Nat : n = Len(jobs) + 1
    BY <1>1
  <2> DEFINE x == [session[s] EXCEPT !.pc = "returned", !.result = n]
             y == [thread[s] EXCEPT !.pc = "open", !.job = n]
  <2>1. x \in SessionType /\ x.pc = "returned" /\ x.scope = session[s].scope
    BY <1>1, <1>6 DEF SessionType
  <2>2. y \in ThreadType /\ y.pc = "open" /\ y.job = n /\ y.verdict = thread[s].verdict
    BY <1>1 DEF ThreadType, ThreadPcs
  <2>3. /\ session' = [session EXCEPT ![s] = x] /\ thread' = [thread EXCEPT ![s] = y]
        /\ session'[s] = x /\ thread'[s] = y
    BY <1>1, <1>9, <2>0 DEF CreateTracked, Answer
  <2>4. session[s].scope \in Scopes /\ thread[s].pc = "none" /\ thread[s].verdict = None
    BY <1>1, <1>9 DEF CreateTracked, SessionOK
  <2>5. jobs' \in Seq(JobRow) /\ Len(jobs) + 1 \in Ids' /\ JobsMove
    BY <1>1, <1>9, <2>4, NewJobRows DEF CreateTracked
  <2> HIDE DEF x, y
  <2>6. SessionOK(s)'
    BY <2>0, <2>1, <2>2, <2>3, <2>4, <2>5 DEF SessionOK
  <2> QED  BY <1>1, <1>9, <2>1, <2>2, <2>3, <2>5, <2>6, KeptIsEnough DEF CreateTracked, Kept
<1>10. CASE Before(s)
  <2>1. PICK id \in LatestAnswers(session[s].scope) :
          session' = [session EXCEPT ![s].pc = "await", ![s].after = id]
    BY <1>10 DEF Before
  <2> DEFINE x == [session[s] EXCEPT !.pc = "await", !.after = id]
             y == [thread[s] EXCEPT !.pc = "service"]
  <2>2. x \in SessionType /\ x.pc = "await" /\ x.scope = session[s].scope
    BY <1>1, <1>5, <1>6 DEF SessionType
  <2>3. y \in ThreadType /\ y.pc = "service"
    BY <1>1 DEF ThreadType, ThreadPcs
  <2>4. /\ session' = [session EXCEPT ![s] = x] /\ thread' = [thread EXCEPT ![s] = y]
        /\ session'[s] = x /\ thread'[s] = y
    BY <1>1, <1>10, <2>1 DEF Before, Thread
  <2> HIDE DEF x, y
  <2>5. SessionOK(s)'
    BY <1>1, <1>10, <2>2, <2>3, <2>4 DEF Before, SessionOK
  <2> QED  BY <1>1, <1>10, <2>2, <2>3, <2>4, <2>5, SameRows, KeptIsEnough DEF Before, Kept
<1>11. CASE AwaitPoll(s) \/ AwaitAlive(s) \/ AwaitRecheck(s) \/ AwaitTimeout(s)
  <2>1. \/ \E pc \in SessionPcs \ {"idle", "check", "create", "before"} : Goto(s, pc)
        \/ \E id \in Nat \cup {None} : Answer(s, id)
    BY <1>5, <1>11 DEF AwaitPoll, AwaitAlive, AwaitRecheck, AwaitTimeout, SessionPcs
  <2>2. PICK x \in SessionType :
          /\ session' = [session EXCEPT ![s] = x]
          /\ x.pc \notin {"idle", "check", "create", "before"} /\ x.scope = session[s].scope
    <3>1. ASSUME NEW id \in Nat \cup {None}
          PROVE  [session[s] EXCEPT !.pc = "returned", !.result = id] \in SessionType
      BY <1>1, <1>6 DEF SessionType
    <3>2. ASSUME NEW pc \in SessionPcs \ {"idle", "check", "create", "before"}, Goto(s, pc)
          PROVE  \E x \in SessionType :
                   /\ session' = [session EXCEPT ![s] = x]
                   /\ x.pc \notin {"idle", "check", "create", "before"}
                   /\ x.scope = session[s].scope
      <4> DEFINE x == [session[s] EXCEPT !.pc = pc]
      <4>1. x \in SessionType /\ x.pc = pc /\ x.scope = session[s].scope
        BY <1>1, <1>4 DEF SessionType
      <4>2. session' = [session EXCEPT ![s] = x]
        BY <1>1, <3>2 DEF Goto
      <4> HIDE DEF x
      <4> QED  BY <4>1, <4>2
    <3>3. ASSUME NEW id \in Nat \cup {None}, Answer(s, id)
          PROVE  \E x \in SessionType :
                   /\ session' = [session EXCEPT ![s] = x]
                   /\ x.pc \notin {"idle", "check", "create", "before"}
                   /\ x.scope = session[s].scope
      <4> DEFINE x == [session[s] EXCEPT !.pc = "returned", !.result = id]
      <4>1. x \in SessionType /\ x.pc = "returned" /\ x.scope = session[s].scope
        BY <1>1, <3>1 DEF SessionType
      <4>2. session' = [session EXCEPT ![s] = x]
        BY <1>1, <3>3 DEF Answer
      <4> HIDE DEF x
      <4> QED  BY <4>1, <4>2
    <3> QED  BY <2>1, <3>2, <3>3
  <2>3. UNCHANGED <<jobs, clock, thread, count>> /\ session[s].pc # "idle"
    BY <1>11 DEF AwaitPoll, AwaitAlive, AwaitRecheck, AwaitTimeout
  <2>4. SessionOK(s)'
    BY <1>1, <2>2, <2>3 DEF SessionOK, Ids
  <2> QED  BY <1>1, <1>3, <2>2, <2>3, <2>4, SameRows, KeptIsEnough DEF Kept
<1> QED  BY <1>7, <1>8, <1>9, <1>10, <1>11 DEF SessionStep

\* A step of the body or the service that moves a live row, and ends the work or not.
LEMMA ThreadKept ==
  ASSUME VerdictInv, NEW s \in Sessions, ThreadStep(s)
  PROVE  VerdictInv' /\ JobsMove
<1>1. /\ session \in [Sessions -> SessionType] /\ thread \in [Sessions -> ThreadType]
      /\ jobs \in Seq(JobRow) /\ clock \in Nat /\ count \in [{"cancel", "crash"} -> Nat]
      /\ SessionOK(s) /\ session[s] \in SessionType /\ thread[s] \in ThreadType
      /\ Len(jobs) \in Nat
  BY LenProperties DEF VerdictInv, TypeOK, SessionType, ThreadType, JobRow
<1>2. /\ session = [session EXCEPT ![s] = session[s]] /\ session' = session
      /\ clock' = clock /\ count' = count
  BY <1>1 DEF ThreadStep, Open, Work, Close, Fail, ServiceCreates, ServiceEnds
<1>3. session[s].scope \in Scopes /\ thread[s].pc # "none"
  BY <1>1 DEF ThreadStep, Open, Work, Close, Fail, ServiceCreates, ServiceEnds, SessionOK
<1>4. session[s].pc \notin {"idle", "check", "create", "before"}
  BY <1>1, <1>3 DEF SessionOK
<1>5. ASSUME NEW pc \in {"work", "close", "fail", "dead"}, Thread(s, pc), jobs' \in Seq(JobRow),
             JobsMove, pc = "work" => thread[s].pc = "open",
             pc # "dead" => thread[s].pc \in {"open", "work", "close"},
             pc \in {"close", "fail"} => thread[s].pc \in {"open", "work"} \/ UNCHANGED jobs
      PROVE  VerdictInv' /\ JobsMove
  <2> DEFINE y == [thread[s] EXCEPT !.pc = pc]
  <2>1. /\ y \in ThreadType /\ y.pc = pc /\ y.job = thread[s].job
        /\ y.verdict = thread[s].verdict
    BY <1>1 DEF ThreadType, ThreadPcs
  <2>2. thread' = [thread EXCEPT ![s] = y] /\ thread'[s] = y
    BY <1>1, <1>5 DEF Thread
  <2> HIDE DEF y
  <2>3. thread[s].pc \in {"open", "work"} => thread[s].verdict \notin Terminal
    BY <1>1, NoneAssumption DEF SessionOK
  <2>4. SessionOK(s)'
    BY <1>1, <1>2, <1>3, <1>4, <1>5, <2>1, <2>2, <2>3 DEF SessionOK, JobsMove
  <2> QED  BY <1>1, <1>2, <1>5, <2>1, <2>2, <2>4, KeptIsEnough DEF Kept
<1>6. ASSUME NEW x \in Live \cup Terminal, thread[s].job \in Ids, SetStatus(Job(s), x),
             jobs[Job(s)].status \notin Terminal
      PROVE  jobs' \in Seq(JobRow) /\ JobsMove /\ jobs'[Job(s)].status = x /\ Ids' = Ids
  BY <1>1, <1>6, SetStatusRows DEF Job
<1>7. {"running", "succeeded", "failed", "partial"} \subseteq Live \cup Terminal
      /\ "pending" \notin Terminal /\ "running" \notin Terminal /\ Live \cap Terminal = {}
  BY DEF Live, Terminal
<1>8. thread[s].pc \in {"open", "work", "close", "fail", "own"} => thread[s].job \in Ids
  BY <1>1 DEF SessionOK
<1>9. CASE Open(s)
  <2>1. CASE jobs[Job(s)].status = "pending"
    BY <1>5, <1>6, <1>7, <1>8, <1>9, <2>1 DEF Open
  <2>2. CASE jobs[Job(s)].status # "pending"
    BY <1>1, <1>5, <1>9, <2>2, SameRows DEF Open
  <2> QED  BY <2>1, <2>2
<1>10. CASE Work(s)
  <2>1. CASE Thread(s, "close") /\ UNCHANGED jobs
    BY <1>1, <1>5, <1>10, <2>1, SameRows DEF Work
  <2>2. CASE Thread(s, "fail") /\ UNCHANGED jobs
    BY <1>1, <1>5, <1>10, <2>2, SameRows DEF Work
  <2>3. ASSUME NEW v \in Verdicts, jobs[Job(s)].status = "running", SetStatus(Job(s), v),
               thread' = [thread EXCEPT ![s].pc = "close", ![s].verdict = v]
        PROVE  VerdictInv' /\ JobsMove
    <3> DEFINE y == [thread[s] EXCEPT !.pc = "close", !.verdict = v]
    <3>1. y \in ThreadType /\ y.pc = "close" /\ y.job = thread[s].job /\ y.verdict = v
      BY <1>1 DEF ThreadType, ThreadPcs
    <3>2. thread' = [thread EXCEPT ![s] = y] /\ thread'[s] = y
      BY <1>1, <2>3
    <3> HIDE DEF y
    <3>3. /\ thread[s].job \in Ids /\ v \in Live \cup Terminal
      BY <1>7, <1>8, <1>10 DEF Work, Verdicts
    <3>4. jobs' \in Seq(JobRow) /\ JobsMove /\ jobs'[Job(s)].status = v /\ Ids' = Ids
      BY <1>6, <1>7, <2>3, <3>3
    <3>5. SessionOK(s)'
      BY <1>2, <1>3, <1>4, <3>1, <3>2, <3>3, <3>4 DEF SessionOK, Job
    <3> QED  BY <1>1, <1>2, <3>1, <3>2, <3>4, <3>5, KeptIsEnough DEF Kept
  <2> QED  BY <1>10, <2>1, <2>2, <2>3 DEF Work
<1>11. CASE Close(s)
  <2>1. CASE jobs[Job(s)].status = "running"
    BY <1>5, <1>6, <1>7, <1>8, <1>11, <2>1 DEF Close
  <2>2. CASE jobs[Job(s)].status # "running"
    BY <1>1, <1>5, <1>11, <2>2, SameRows DEF Close
  <2> QED  BY <2>1, <2>2
<1>12. CASE Fail(s)
  <2>1. CASE jobs[Job(s)].status \in Terminal
    BY <1>1, <1>5, <1>12, <2>1, SameRows DEF Fail
  <2>2. CASE jobs[Job(s)].status \notin Terminal
    BY <1>5, <1>6, <1>7, <1>8, <1>12, <2>2 DEF Fail
  <2> QED  BY <2>1, <2>2
<1>13. CASE ServiceCreates(s)
  <2>0. PICK n \in Nat : n = Len(jobs) + 1
    BY <1>1
  <2> DEFINE y == [thread[s] EXCEPT !.pc = "own", !.job = n]
  <2>1. y \in ThreadType /\ y.pc = "own" /\ y.job = n
    BY <1>1 DEF ThreadType, ThreadPcs
  <2>2. thread' = [thread EXCEPT ![s] = y] /\ thread'[s] = y
    BY <1>1, <1>13, <2>0 DEF ServiceCreates
  <2> HIDE DEF y
  <2>3. jobs' \in Seq(JobRow) /\ n \in Ids' /\ JobsMove
    BY <1>1, <1>3, <1>13, <2>0, NewJobRows DEF ServiceCreates
  <2>4. SessionOK(s)'
    BY <1>2, <1>3, <1>4, <2>1, <2>2, <2>3 DEF SessionOK
  <2> QED  BY <1>1, <1>2, <2>1, <2>2, <2>3, <2>4, KeptIsEnough DEF Kept
<1>14. CASE ServiceEnds(s)
  <2>1. CASE UNCHANGED jobs
    BY <1>1, <1>5, <1>14, <2>1, SameRows DEF ServiceEnds
  <2>2. CASE \E v \in {"succeeded", "failed"} :
               thread[s].pc = "own" /\ jobs[Job(s)].status \in Live /\ SetStatus(Job(s), v)
    BY <1>5, <1>6, <1>7, <1>8, <1>14, <2>2 DEF ServiceEnds
  <2> QED  BY <1>14, <2>1, <2>2 DEF ServiceEnds
<1> QED  BY <1>9, <1>10, <1>11, <1>12, <1>13, <1>14 DEF ThreadStep

\* The rest of the system.
LEMMA SystemKept ==
  ASSUME VerdictInv, (\E i \in Ids : Cancel(i)) \/ Crash \/ ClockTick \/ UNCHANGED vars
  PROVE  VerdictInv' /\ JobsMove
<1>1. /\ session \in [Sessions -> SessionType] /\ thread \in [Sessions -> ThreadType]
      /\ jobs \in Seq(JobRow) /\ clock \in Nat /\ count \in [{"cancel", "crash"} -> Nat]
      /\ \A s \in Sessions : SessionOK(s)
  BY DEF VerdictInv, TypeOK, SessionType, ThreadType, JobRow
<1>2. CASE \E i \in Ids : Cancel(i)
  <2>1. PICK i \in Ids : Cancel(i)
    BY <1>2
  <2>2. "canceled" \in Live \cup Terminal /\ Live \cap Terminal = {}
    BY DEF Live, Terminal
  <2>3. jobs' \in Seq(JobRow) /\ JobsMove
    BY <1>1, <2>1, <2>2, SetStatusRows DEF Cancel
  <2>4. clock' = clock /\ session' = session /\ thread' = thread
        /\ count' \in [{"cancel", "crash"} -> Nat]
    BY <1>1, <2>1 DEF Cancel
  <2>5. TypeOK'
    BY <1>1, <2>3, <2>4 DEF TypeOK, SessionType, ThreadType, JobRow
  <2>6. \A s \in Sessions : SessionOK(s)'
    BY <1>1, <2>3, <2>4 DEF SessionOK, JobsMove
  <2> QED  BY <2>3, <2>5, <2>6 DEF VerdictInv
<1>3. CASE Crash
  <2>1. \A s \in Sessions :
          /\ session'[s] \in SessionType /\ thread'[s] \in ThreadType
          /\ session'[s].pc \in {"idle", "returned", "rejected"}
          /\ session'[s].pc = "idle" <=> session[s].pc = "idle"
          /\ session'[s].scope = session[s].scope
          /\ thread'[s] = thread[s] \/ (thread[s].pc # "none" /\ thread'[s].pc = "dead")
          /\ thread'[s].pc \in {"none", "dead"}
    <3> SUFFICES ASSUME NEW s \in Sessions
        PROVE  /\ session'[s] \in SessionType /\ thread'[s] \in ThreadType
               /\ session'[s].pc \in {"idle", "returned", "rejected"}
               /\ session'[s].pc = "idle" <=> session[s].pc = "idle"
               /\ session'[s].scope = session[s].scope
               /\ thread'[s] = thread[s] \/ (thread[s].pc # "none" /\ thread'[s].pc = "dead")
               /\ thread'[s].pc \in {"none", "dead"}
      OBVIOUS
    <3>1. session[s] \in SessionType /\ thread[s] \in ThreadType
      BY <1>1
    <3>2. [session[s] EXCEPT !.pc = "rejected"] \in SessionType
      BY <3>1 DEF SessionType, SessionPcs
    <3>3. [thread[s] EXCEPT !.pc = "dead"] \in ThreadType
      BY <3>1 DEF ThreadType, ThreadPcs
    <3>4. session'[s] = IF session[s].pc \in {"idle", "returned", "rejected"} THEN session[s]
                        ELSE [session[s] EXCEPT !.pc = "rejected"]
      BY <1>3 DEF Crash
    <3>5. thread'[s] = IF thread[s].pc = "none" THEN thread[s]
                       ELSE [thread[s] EXCEPT !.pc = "dead"]
      BY <1>3 DEF Crash
    <3>6. /\ session'[s] \in SessionType /\ session'[s].pc \in {"idle", "returned", "rejected"}
          /\ session'[s].pc = "idle" <=> session[s].pc = "idle"
          /\ session'[s].scope = session[s].scope
      <4>1. /\ [session[s] EXCEPT !.pc = "rejected"].pc = "rejected"
            /\ [session[s] EXCEPT !.pc = "rejected"].scope = session[s].scope
        BY <3>1 DEF SessionType
      <4> HIDE DEF SessionType
      <4> QED  BY <3>1, <3>2, <3>4, <4>1
    <3> QED  BY <3>1, <3>3, <3>5, <3>6 DEF ThreadType
  <2>2. /\ jobs' = jobs /\ clock' = clock /\ count' \in [{"cancel", "crash"} -> Nat]
        /\ session' \in [Sessions -> SessionType] /\ thread' \in [Sessions -> ThreadType]
    <3>1. /\ jobs' = jobs /\ clock' = clock
          /\ session' = [s \in Sessions |-> session'[s]]
          /\ thread' = [s \in Sessions |-> thread'[s]]
      BY <1>3 DEF Crash
    <3>2. count' \in [{"cancel", "crash"} -> Nat]
      BY <1>1, <1>3 DEF Crash
    <3> QED  BY <2>1, <3>1, <3>2
  <2>3. TypeOK'
    BY <1>1, <2>2 DEF TypeOK, SessionType, ThreadType, JobRow
  <2>4. ASSUME NEW s \in Sessions  PROVE SessionOK(s)'
    <3>1. SessionOK(s) /\ (thread[s].pc = "none" => thread'[s] = thread[s])
      BY <1>1, <2>1
    <3>2. /\ session'[s].pc \in {"idle", "returned", "rejected"}
          /\ session'[s].pc = "idle" <=> session[s].pc = "idle"
          /\ session'[s].scope = session[s].scope
          /\ thread'[s].pc \in {"none", "dead"}
      BY <2>1
    <3>3. CASE thread[s].pc = "none"
      <4>1. thread'[s] = thread[s]
        BY <3>1, <3>3
      <4> QED  BY <3>1, <3>2, <3>3, <4>1 DEF SessionOK
    <3>4. CASE thread[s].pc # "none"
      <4>1. thread'[s].pc = "dead"
        <5>1. thread'[s] = thread[s] => thread'[s].pc = thread[s].pc
          OBVIOUS
        <5> QED  BY <2>1, <3>2, <3>4, <5>1
      <4>2. session[s].scope \in Scopes /\ session[s].pc \notin {"idle", "create"}
        BY <3>1, <3>4 DEF SessionOK
      <4> QED  BY <3>1, <3>2, <4>1, <4>2 DEF SessionOK
    <3> QED  BY <3>3, <3>4
  <2> QED  BY <2>2, <2>3, <2>4, SameRows DEF VerdictInv
<1>4. CASE ClockTick \/ UNCHANGED vars
  <2>1. clock' \in Nat /\ UNCHANGED <<jobs, session, thread, count>>
    BY <1>1, <1>4 DEF ClockTick, vars
  <2> QED  BY <1>1, <2>1, SameRows DEF VerdictInv, TypeOK, SessionOK, Ids
<1> QED  BY <1>2, <1>3, <1>4

LEMMA VerdictStep ==
  ASSUME VerdictInv, [Next]_vars
  PROVE  VerdictInv' /\ JobsMove
BY SessionKept, ThreadKept, SystemKept DEF Next

LEMMA VerdictInit == Init => VerdictInv
<1> SUFFICES ASSUME Init  PROVE VerdictInv
  OBVIOUS
<1>1. TypeOK
  BY EmptySeq DEF Init, TypeOK, SessionPcs, ThreadPcs
<1>2. \A s \in Sessions : SessionOK(s)
  BY DEF Init, SessionOK
<1> QED  BY <1>1, <1>2 DEF VerdictInv

-----------------------------------------------------------------------------
\* Every variable keeps its type: each thread has the row that its steps index.
THEOREM TypeCorrect == Spec => []TypeOK
<1>1. VerdictInv /\ [Next]_vars => VerdictInv'
  BY VerdictStep
<1>2. VerdictInv => TypeOK
  BY DEF VerdictInv
<1> QED  BY <1>1, <1>2, VerdictInit, PTL DEF Spec

\* VerdictKept: once the work has settled its job, the transition("succeeded") that
\* follows and the force-fail after it leave the row as it is, and so does every
\* other session, cancel and crash.
THEOREM VerdictStands == Spec => VerdictKept
<1>1. VerdictInv /\ [Next]_vars
      => VerdictInv' /\ [\A s \in Sessions :
                           /\ thread[s].pc \in {"close", "fail"} /\ thread[s].verdict \in Terminal
                           => jobs'[Job(s)].status = jobs[Job(s)].status]_vars
  <2> SUFFICES ASSUME VerdictInv, [Next]_vars
               PROVE  /\ VerdictInv'
                      /\ \A s \in Sessions :
                           /\ thread[s].pc \in {"close", "fail"} /\ thread[s].verdict \in Terminal
                           => jobs'[Job(s)].status = jobs[Job(s)].status
    OBVIOUS
  <2>1. VerdictInv' /\ JobsMove
    BY VerdictStep
  <2>2. ASSUME NEW s \in Sessions, thread[s].pc \in {"close", "fail"},
               thread[s].verdict \in Terminal
        PROVE  jobs'[Job(s)].status = jobs[Job(s)].status
    BY <2>1, <2>2 DEF VerdictInv, SessionOK, JobsMove, Job
  <2> QED  BY <2>1, <2>2
<1> QED  BY <1>1, VerdictInit, PTL DEF Spec, VerdictKept

-----------------------------------------------------------------------------
(* One live job per scope.  What the dedup of one submission relies on is that *)
(* no other one of its scope is under way (Serial) and that its scan reaches   *)
(* the live rows; what is proved first is a summary of every step.             *)

\* The rows stay, whatever their status; no row comes back to life.
RowsStay ==
  \A i \in Ids : /\ jobs'[i].scope = jobs[i].scope /\ jobs'[i].created = jobs[i].created
                 /\ jobs'[i].status \in Live => jobs[i].status \in Live

\* No row is added.
Settles == Ids' = Ids /\ RowsStay

\* One is.
Adds(scope) ==
  /\ Ids' = Ids \cup {Len(jobs) + 1} /\ \A i \in Ids : i < Len(jobs) + 1
  /\ RowsStay
  /\ jobs'[Len(jobs) + 1] = [scope |-> scope, status |-> "pending", created |-> clock]

\* What the step of a session may do to its call and its thread.
Begins(s) ==
  /\ session[s].pc = "idle" /\ session'[s].pc = "check"
  /\ session'[s].scope \in Scopes /\ (Serial => ~InFlight(session'[s].scope))
  /\ session'[s].result = session[s].result
  /\ thread'[s] = thread[s] /\ UNCHANGED <<jobs, clock>>

Checks(s) ==
  /\ session[s].pc = "check"
  /\ \/ session'[s].pc = "rejected"
     \/ /\ session'[s].pc \in {"create", "before"}
        /\ \E S \in Scans : S \cap LiveIn(session[s].scope) = {}
  /\ session'[s].scope = session[s].scope /\ session'[s].result = session[s].result
  /\ thread'[s] = thread[s] /\ UNCHANGED <<jobs, clock>>

Creates(s) ==
  /\ session[s].pc = "create" /\ session'[s].pc = "returned"
  /\ session'[s].scope = session[s].scope /\ session'[s].result = Len(jobs) + 1
  /\ thread'[s].pc = "open" /\ thread'[s].job = Len(jobs) + 1
  /\ Adds(session[s].scope) /\ UNCHANGED clock

Looks(s) ==
  /\ session[s].pc = "before" /\ session'[s].pc = "await"
  /\ session'[s].scope = session[s].scope /\ session'[s].result = session[s].result
  /\ session'[s].after \in LatestAnswers(session[s].scope)
  /\ thread'[s].pc = "service" /\ thread'[s].job = thread[s].job
  /\ UNCHANGED <<jobs, clock>>

Awaiting(s) == session[s].pc \in {"await", "alive", "recheck"}

\* A look at the newest row answers if it is newer than before.
Waits(s) ==
  /\ Awaiting(s) /\ session'[s].scope = session[s].scope /\ session'[s].after = session[s].after
  /\ \/ Awaiting(s)' /\ session'[s].result = session[s].result
     \/ session'[s].pc = "returned" /\ session'[s].result = None
     \/ /\ session'[s].pc = "returned" /\ session'[s].result > session[s].after
        /\ session'[s].result \in LatestAnswers(session[s].scope)
  /\ thread'[s] = thread[s] /\ UNCHANGED <<jobs, clock>>

Works(s) ==
  /\ session'[s] = session[s]
  /\ thread[s].pc # "none" /\ thread'[s].pc \in {"work", "close", "fail", "dead"}
  /\ thread'[s].job = thread[s].job
  /\ Settles /\ UNCHANGED clock

Serves(s) ==
  /\ session'[s] = session[s]
  /\ thread[s].pc = "service" /\ thread'[s].pc = "own" /\ thread'[s].job = Len(jobs) + 1
  /\ Adds(session[s].scope) /\ UNCHANGED clock

Elsewhere(s) == \A t \in Sessions \ {s} : session'[t] = session[t] /\ thread'[t] = thread[t]

Turn(s) ==
  /\ Elsewhere(s)
  /\ \/ Begins(s) \/ Checks(s) \/ Creates(s) \/ Looks(s) \/ Waits(s) \/ Works(s) \/ Serves(s)

\* The sessions under way are rejected and every thread is dead.
Dies ==
  /\ \A s \in Sessions :
       /\ session'[s].pc \in {"idle", "returned", "rejected"}
       /\ session'[s].scope = session[s].scope /\ session'[s].result = session[s].result
       /\ session'[s].pc = session[s].pc \/ session'[s].pc = "rejected"
       /\ thread'[s].pc \in {"none", "dead"} /\ thread'[s].job = thread[s].job
       /\ thread'[s].pc = "none" <=> thread[s].pc = "none"
  /\ UNCHANGED <<jobs, clock>>

Rests == UNCHANGED <<session, thread>> /\ Settles /\ clock' >= clock

\* A change of status that revives nothing leaves the rows as they should be.
LEMMA StatusSettles ==
  ASSUME jobs \in Seq(JobRow), NEW i \in Ids, NEW x \in Live \cup Terminal, SetStatus(i, x),
         x \in Live => jobs[i].status \in Live
  PROVE  Settles
<1>1. jobs' = [jobs EXCEPT ![i] = [jobs[i] EXCEPT !.status = x]]
  BY DEF SetStatus
<1>2. jobs[i] \in JobRow
  BY ElementOfSeq DEF Ids
<1>3. /\ [jobs[i] EXCEPT !.status = x].status = x
      /\ [jobs[i] EXCEPT !.status = x].scope = jobs[i].scope
      /\ [jobs[i] EXCEPT !.status = x].created = jobs[i].created
      /\ [jobs[i] EXCEPT !.status = x] \in JobRow
  BY <1>2 DEF JobRow
<1>4. Ids' = Ids
  BY <1>1, <1>3, ExceptSeq DEF Ids
<1>5. jobs'[i] = [jobs[i] EXCEPT !.status = x] /\ \A k \in Ids \ {i} : jobs'[k] = jobs[k]
  BY <1>1 DEF Ids
<1> QED  BY <1>3, <1>4, <1>5 DEF Settles, RowsStay

\* A new job is one more row, alive.
LEMMA NewJobAdds ==
  ASSUME jobs \in Seq(JobRow), NEW scope \in Scopes, clock \in Nat, NewJob(scope)
  PROVE  Adds(scope)
<1> DEFINE r == [scope |-> scope, status |-> "pending", created |-> clock]
<1>1. r \in JobRow
  BY DEF JobRow, Live
<1>2. /\ jobs' \in Seq(JobRow) /\ Len(jobs') = Len(jobs) + 1 /\ jobs'[Len(jobs) + 1] = r
      /\ \A i \in 1 .. Len(jobs) : jobs'[i] = jobs[i]
  BY <1>1, AppendProperties DEF NewJob
<1>3. Ids = 1 .. Len(jobs) /\ Ids' = 1 .. Len(jobs) + 1 /\ Len(jobs) \in Nat
  BY <1>2, LenProperties DEF Ids
<1>4. Ids' = Ids \cup {Len(jobs) + 1} /\ \A i \in Ids : i < Len(jobs) + 1
  BY <1>3
<1>5. RowsStay
  BY <1>2, <1>3 DEF RowsStay
<1> QED  BY <1>2, <1>4, <1>5 DEF Adds

\* Nothing changes.
LEMMA SameSettles == UNCHANGED jobs => Settles
BY DEF Settles, RowsStay, Ids

\* What the call's own steps come to.
LEMMA TurnsOfCalls ==
  ASSUME VerdictInv, NEW s \in Sessions, Begin(s) \/ SessionStep(s) \/ AwaitTimeout(s)
  PROVE  Turn(s)
<1>1. /\ session \in [Sessions -> SessionType] /\ thread \in [Sessions -> ThreadType]
      /\ jobs \in Seq(JobRow) /\ clock \in Nat
      /\ SessionOK(s) /\ session[s] \in SessionType /\ thread[s] \in ThreadType
  BY DEF VerdictInv, TypeOK, SessionType, ThreadType, JobRow
<1>2. ASSUME NEW pc, Goto(s, pc), UNCHANGED thread
      PROVE  /\ Elsewhere(s) /\ session'[s].pc = pc /\ session'[s].scope = session[s].scope
             /\ session'[s].after = session[s].after /\ session'[s].result = session[s].result
  BY <1>1, <1>2 DEF Goto, Elsewhere, SessionType
<1>3. ASSUME NEW id, Answer(s, id)
      PROVE  /\ \A t \in Sessions \ {s} : session'[t] = session[t]
             /\ session'[s].pc = "returned" /\ session'[s].scope = session[s].scope
             /\ session'[s].after = session[s].after /\ session'[s].result = id
  BY <1>1, <1>3 DEF Answer, SessionType
<1>4. CASE Begin(s)
  <2>1. PICK scope \in Scopes, mode \in {"tracked", "detached"} :
          /\ Serial => ~InFlight(scope)
          /\ session' = [session EXCEPT ![s].pc = "check", ![s].scope = scope, ![s].mode = mode]
    BY <1>4 DEF Begin
  <2>2. /\ session'[s].pc = "check" /\ session'[s].scope = scope
        /\ session'[s].result = session[s].result
        /\ \A t \in Sessions \ {s} : session'[t] = session[t]
    BY <1>1, <2>1 DEF SessionType
  <2> QED  BY <1>4, <2>1, <2>2 DEF Begin, Turn, Begins, Elsewhere
<1>5. CASE Check(s)
  <2>1. PICK running \in RunningAnswers(session[s].scope) :
          Goto(s, IF running THEN "rejected"
                  ELSE IF session[s].mode = "tracked" THEN "create" ELSE "before")
    BY <1>5 DEF Check
  <2>2. PICK S \in Scans : running = (S \cap LiveIn(session[s].scope) # {})
    BY <2>1 DEF RunningAnswers
  <2>3. UNCHANGED <<jobs, clock, thread>> /\ session[s].pc = "check"
    BY <1>5 DEF Check
  <2>4. CASE S \cap LiveIn(session[s].scope) = {}
    <3>1. PICK pc \in {"create", "before"} : Goto(s, pc)
      BY <2>1, <2>2, <2>4
    <3> QED  BY <1>2, <2>3, <2>4, <3>1 DEF Turn, Checks
  <2>5. CASE S \cap LiveIn(session[s].scope) # {}
    <3>1. Goto(s, "rejected")
      BY <2>1, <2>2, <2>5
    <3> QED  BY <1>2, <2>3, <3>1 DEF Turn, Checks
  <2> QED  BY <2>4, <2>5
<1>6. CASE CreateTracked(s)
  <2>1. session[s].scope \in Scopes
    BY <1>1, <1>6 DEF CreateTracked, SessionOK
  <2>2. Adds(session[s].scope)
    BY <1>1, <1>6, <2>1, NewJobAdds DEF CreateTracked
  <2>3. /\ thread'[s].pc = "open" /\ thread'[s].job = Len(jobs) + 1
        /\ \A t \in Sessions \ {s} : thread'[t] = thread[t]
    <3>0. PICK n : n = Len(jobs) + 1
      OBVIOUS
    <3>1. thread' = [thread EXCEPT ![s] = [thread[s] EXCEPT !.pc = "open", !.job = n]]
      BY <1>1, <1>6, <3>0 DEF CreateTracked
    <3>2. /\ [thread[s] EXCEPT !.pc = "open", !.job = n].pc = "open"
          /\ [thread[s] EXCEPT !.pc = "open", !.job = n].job = n
      BY <1>1 DEF ThreadType
    <3> QED  BY <1>1, <3>0, <3>1, <3>2
  <2>4. Answer(s, Len(jobs) + 1)
    BY <1>6 DEF CreateTracked
  <2>5. session[s].pc = "create" /\ UNCHANGED clock
    BY <1>6 DEF CreateTracked
  <2>6. /\ \A t \in Sessions \ {s} : session'[t] = session[t]
        /\ session'[s].pc = "returned" /\ session'[s].scope = session[s].scope
        /\ session'[s].result = Len(jobs) + 1
    BY <1>3, <2>4
  <2> QED  BY <2>2, <2>3, <2>5, <2>6 DEF Turn, Creates, Elsewhere
<1>7. CASE Before(s)
  <2>1. PICK id \in LatestAnswers(session[s].scope) :
          session' = [session EXCEPT ![s].pc = "await", ![s].after = id]
    BY <1>7 DEF Before
  <2>2. /\ session'[s].pc = "await" /\ session'[s].scope = session[s].scope
        /\ session'[s].after = id /\ session'[s].result = session[s].result
        /\ \A t \in Sessions \ {s} : session'[t] = session[t]
    BY <1>1, <2>1 DEF SessionType
  <2>3. /\ thread'[s].pc = "service" /\ thread'[s].job = thread[s].job
        /\ \A t \in Sessions \ {s} : thread'[t] = thread[t]
    BY <1>1, <1>7 DEF Before, Thread, ThreadType
  <2> QED  BY <1>7, <2>1, <2>2, <2>3 DEF Before, Turn, Looks, Elsewhere
<1>8. CASE AwaitPoll(s) \/ AwaitAlive(s) \/ AwaitRecheck(s) \/ AwaitTimeout(s)
  <2>1. Awaiting(s) /\ UNCHANGED <<jobs, clock, thread>>
    BY <1>8 DEF AwaitPoll, AwaitAlive, AwaitRecheck, AwaitTimeout, Awaiting
  <2>2. \/ \E pc \in {"await", "alive", "recheck"} : Goto(s, pc)
        \/ Answer(s, None)
        \/ \E id \in LatestAnswers(session[s].scope) : id > session[s].after /\ Answer(s, id)
    BY <1>8 DEF AwaitPoll, AwaitAlive, AwaitRecheck, AwaitTimeout
  <2>3. CASE \E pc \in {"await", "alive", "recheck"} : Goto(s, pc)
    BY <1>2, <2>1, <2>3 DEF Turn, Waits, Awaiting
  <2>4. CASE Answer(s, None)
    BY <1>3, <2>1, <2>4 DEF Turn, Waits, Elsewhere
  <2>5. ASSUME NEW id \in LatestAnswers(session[s].scope), id > session[s].after, Answer(s, id)
        PROVE  Turn(s)
    BY <1>3, <2>1, <2>5 DEF Turn, Waits, Elsewhere
  <2> QED  BY <2>2, <2>3, <2>4, <2>5
<1> QED  BY <1>4, <1>5, <1>6, <1>7, <1>8 DEF SessionStep

\* What the steps of the body and of the service come to.
LEMMA TurnsOfThreads ==
  ASSUME VerdictInv, NEW s \in Sessions, ThreadStep(s)
  PROVE  Turn(s)
<1>1. /\ session \in [Sessions -> SessionType] /\ thread \in [Sessions -> ThreadType]
      /\ jobs \in Seq(JobRow) /\ clock \in Nat
      /\ SessionOK(s) /\ session[s] \in SessionType /\ thread[s] \in ThreadType
  BY DEF VerdictInv, TypeOK, SessionType, ThreadType, JobRow
<1>2. session' = session /\ clock' = clock
  BY DEF ThreadStep, Open, Work, Close, Fail, ServiceCreates, ServiceEnds
<1>3. session[s].scope \in Scopes /\ thread[s].pc # "none"
  BY <1>1 DEF ThreadStep, Open, Work, Close, Fail, ServiceCreates, ServiceEnds, SessionOK
<1>4. ASSUME NEW pc \in {"work", "close", "fail", "dead"}, Thread(s, pc), Settles
      PROVE  Turn(s)
  <2>1. /\ thread'[s].pc = pc /\ thread'[s].job = thread[s].job
        /\ \A t \in Sessions \ {s} : thread'[t] = thread[t]
    BY <1>1, <1>4 DEF Thread, ThreadType
  <2> QED  BY <1>2, <1>3, <1>4, <2>1 DEF Turn, Works, Elsewhere
<1>5. ASSUME NEW x \in Live \cup Terminal, Job(s) \in Ids, SetStatus(Job(s), x),
             x \in Live => jobs[Job(s)].status \in Live
      PROVE  Settles
  BY <1>1, <1>5, StatusSettles
<1>6. {"running", "succeeded", "failed", "partial"} \subseteq Live \cup Terminal
      /\ "pending" \in Live /\ "running" \in Live
  BY DEF Live, Terminal
<1>7. thread[s].pc \in {"open", "work", "close", "fail", "own"} => Job(s) \in Ids
  BY <1>1 DEF SessionOK, Job
<1>8. CASE Open(s)
  BY <1>4, <1>5, <1>6, <1>7, <1>8, SameSettles DEF Open
<1>9. CASE Work(s)
  <2>1. CASE (Thread(s, "close") \/ Thread(s, "fail")) /\ UNCHANGED jobs
    BY <1>4, <2>1, SameSettles
  <2>2. ASSUME NEW v \in Verdicts, jobs[Job(s)].status = "running", SetStatus(Job(s), v),
               thread' = [thread EXCEPT ![s].pc = "close", ![s].verdict = v]
        PROVE  Turn(s)
    <3>1. Settles
      BY <1>5, <1>6, <1>7, <1>9, <2>2 DEF Work, Verdicts
    <3>2. /\ thread'[s].pc = "close" /\ thread'[s].job = thread[s].job
          /\ \A t \in Sessions \ {s} : thread'[t] = thread[t]
      BY <1>1, <2>2 DEF ThreadType
    <3> QED  BY <1>2, <1>3, <3>1, <3>2 DEF Turn, Works, Elsewhere
  <2> QED  BY <1>9, <2>1, <2>2 DEF Work
<1>10. CASE Close(s)
  BY <1>4, <1>5, <1>6, <1>7, <1>10, SameSettles DEF Close
<1>11. CASE Fail(s)
  BY <1>4, <1>5, <1>6, <1>7, <1>11, SameSettles DEF Fail, Live, Terminal
<1>12. CASE ServiceCreates(s)
  <2>1. Adds(session[s].scope)
    BY <1>1, <1>3, <1>12, NewJobAdds DEF ServiceCreates
  <2>2. /\ thread'[s].pc = "own" /\ thread'[s].job = Len(jobs) + 1
        /\ \A t \in Sessions \ {s} : thread'[t] = thread[t]
    <3>0. PICK n : n = Len(jobs) + 1
      OBVIOUS
    <3>1. thread' = [thread EXCEPT ![s] = [thread[s] EXCEPT !.pc = "own", !.job = n]]
      BY <1>1, <1>12, <3>0 DEF ServiceCreates
    <3>2. /\ [thread[s] EXCEPT !.pc = "own", !.job = n].pc = "own"
          /\ [thread[s] EXCEPT !.pc = "own", !.job = n].job = n
      BY <1>1 DEF ThreadType
    <3> QED  BY <1>1, <3>0, <3>1, <3>2
  <2> QED  BY <1>2, <1>12, <2>1, <2>2 DEF ServiceCreates, Turn, Serves, Elsewhere
<1>13. CASE ServiceEnds(s)
  <2>1. Settles
    BY <1>5, <1>6, <1>7, <1>13, SameSettles DEF ServiceEnds, Live, Terminal
  <2> QED  BY <1>4, <1>13, <2>1 DEF ServiceEnds
<1> QED  BY <1>8, <1>9, <1>10, <1>11, <1>12, <1>13 DEF ThreadStep

\* What everything else comes to.
LEMMA TurnsOfTheRest ==
  ASSUME VerdictInv, (\E i \in Ids : Cancel(i)) \/ Crash \/ ClockTick \/ UNCHANGED vars
  PROVE  Dies \/ Rests
<1>1. /\ session \in [Sessions -> SessionType] /\ thread \in [Sessions -> ThreadType]
      /\ jobs \in Seq(JobRow) /\ clock \in Nat
  BY DEF VerdictInv, TypeOK, SessionType, ThreadType, JobRow
<1>2. CASE \E i \in Ids : Cancel(i)
  <2>1. PICK i \in Ids : Cancel(i)
    BY <1>2
  <2>2. Settles
    BY <1>1, <2>1, StatusSettles DEF Cancel, Terminal
  <2> QED  BY <1>1, <2>1, <2>2 DEF Cancel, Rests
<1>3. CASE Crash
  <2>1. ASSUME NEW s \in Sessions
        PROVE  /\ session'[s].pc \in {"idle", "returned", "rejected"}
               /\ session'[s].scope = session[s].scope /\ session'[s].result = session[s].result
               /\ session'[s].pc = session[s].pc \/ session'[s].pc = "rejected"
    <3>1. session'[s] = IF session[s].pc \in {"idle", "returned", "rejected"} THEN session[s]
                        ELSE [session[s] EXCEPT !.pc = "rejected"]
      BY <1>3 DEF Crash
    <3>2. /\ [session[s] EXCEPT !.pc = "rejected"].pc = "rejected"
          /\ [session[s] EXCEPT !.pc = "rejected"].scope = session[s].scope
          /\ [session[s] EXCEPT !.pc = "rejected"].result = session[s].result
      BY <1>1 DEF SessionType
    <3> QED  BY <3>1, <3>2
  <2>2. ASSUME NEW s \in Sessions
        PROVE  /\ thread'[s].pc \in {"none", "dead"} /\ thread'[s].job = thread[s].job
               /\ thread'[s].pc = "none" <=> thread[s].pc = "none"
    <3>1. thread'[s] = IF thread[s].pc = "none" THEN thread[s]
                       ELSE [thread[s] EXCEPT !.pc = "dead"]
      BY <1>3 DEF Crash
    <3>2. /\ [thread[s] EXCEPT !.pc = "dead"].pc = "dead"
          /\ [thread[s] EXCEPT !.pc = "dead"].job = thread[s].job
      BY <1>1 DEF ThreadType
    <3> QED  BY <3>1, <3>2
  <2> QED  BY <1>3, <2>1, <2>2 DEF Crash, Dies
<1>4. CASE ClockTick \/ UNCHANGED vars
  BY <1>1, <1>4, SameSettles DEF ClockTick, vars, Rests
<1> QED  BY <1>2, <1>3, <1>4

\* The summary of Next.
LEMMA EveryStep ==
  ASSUME VerdictInv, [Next]_vars
  PROVE  (\E s \in Sessions : Turn(s)) \/ Dies \/ Rests
BY TurnsOfCalls, TurnsOfThreads, TurnsOfTheRest DEF Next

-----------------------------------------------------------------------------
\* Whose row is which: a thread that has created none has none, and every row has its session.
Accounted ==
  /\ \A s \in Sessions :
       /\ thread[s].pc \in {"none", "service"} => thread[s].job = None
       /\ thread[s].job # None => thread[s].job \in Ids
  /\ \A i \in Ids : \E s \in Sessions : thread[s].job = i

\* Accounted is inductive: a row comes with the thread that has its id.
LEMMA AccountedStep ==
  ASSUME VerdictInv, Accounted, [Next]_vars
  PROVE  Accounted'
<1>1. CASE Dies
  BY <1>1 DEF Accounted, Dies, Ids
<1>2. CASE Rests
  BY <1>2 DEF Accounted, Rests, Settles
<1>3. ASSUME NEW s \in Sessions, Turn(s)  PROVE Accounted'
  <2>1. SessionOK(s) /\ None \notin Ids' /\ Len(jobs) \in Nat
    <3>1. jobs \in Seq(JobRow) /\ jobs' \in Seq(JobRow)
      BY VerdictStep DEF VerdictInv, TypeOK, JobRow
    <3> QED  BY <3>1, LenProperties, NoneAssumption DEF VerdictInv, Ids
  <2>2. CASE UNCHANGED jobs /\ thread'[s].job = thread[s].job
             /\ (thread'[s].pc \in {"none", "service"} => thread[s].pc \in {"none", "service"})
    BY <1>3, <2>2 DEF Turn, Elsewhere, Accounted, Ids
  <2>3. CASE Works(s)
    BY <1>3, <2>3 DEF Turn, Elsewhere, Accounted, Works, Settles
  <2>4. ASSUME NEW scope, Adds(scope), thread'[s].job = Len(jobs) + 1,
               thread[s].pc \in {"none", "service"}, thread'[s].pc \in {"open", "own"}
        PROVE  Accounted'
    <3>1. thread[s].job = None /\ Ids' = Ids \cup {Len(jobs) + 1} /\ None \notin Ids
      BY <2>1, <2>4 DEF Accounted, Adds
    <3>2. \A t \in Sessions \ {s} : thread'[t] = thread[t]
      BY <1>3 DEF Turn, Elsewhere
    <3>3. ASSUME NEW i \in Ids'  PROVE \E t \in Sessions : thread'[t].job = i
      <4>1. CASE i \in Ids
        <5>1. PICK t \in Sessions : thread[t].job = i
          BY <4>1 DEF Accounted
        <5>2. t # s
          BY <3>1, <4>1, <5>1
        <5> QED  BY <3>2, <5>1, <5>2
      <4> QED  BY <2>4, <3>1, <4>1
    <3>4. ASSUME NEW t \in Sessions
          PROVE  /\ thread'[t].pc \in {"none", "service"} => thread'[t].job = None
                 /\ thread'[t].job # None => thread'[t].job \in Ids'
      BY <2>4, <3>1, <3>2 DEF Accounted
    <3> QED  BY <3>3, <3>4 DEF Accounted
  <2>5. CASE Begins(s) \/ Checks(s) \/ Looks(s) \/ Waits(s)
    BY <2>1, <2>2, <2>5 DEF Begins, Checks, Looks, Waits, SessionOK
  <2>6. CASE Creates(s) \/ Serves(s)
    BY <2>1, <2>4, <2>6 DEF Creates, Serves, SessionOK
  <2> QED  BY <1>3, <2>3, <2>5, <2>6 DEF Turn
<1> QED  BY <1>1, <1>2, <1>3, EveryStep

\* Each session adds one row at most.
LEMMA RowsBounded ==
  ASSUME VerdictInv, Accounted, IsFiniteSet(Sessions)
  PROVE  Len(jobs) \in Nat /\ Len(jobs) <= Cardinality(Sessions)
<1>1. Len(jobs) \in Nat /\ Ids = 1 .. Len(jobs)
  BY LenProperties DEF VerdictInv, TypeOK, Ids
<1> DEFINE Creators == {s \in Sessions : thread[s].job \in Ids}
           f == [s \in Creators |-> thread[s].job]
<1>2. IsFiniteSet(Creators) /\ Cardinality(Creators) <= Cardinality(Sessions)
  BY FS_Subset
<1>3. f \in Surjection(Creators, Ids)
  <2>1. f \in [Creators -> Ids]
    OBVIOUS
  <2>2. \A i \in Ids : \E s \in Creators : f[s] = i
    BY DEF Accounted
  <2> QED  BY <2>1, <2>2 DEF Surjection
<1>4. Cardinality(Ids) <= Cardinality(Creators)
  <2> HIDE DEF Creators, f
  <2> QED  BY <1>2, <1>3, FS_Surjection
<1>5. Cardinality(Ids) = Len(jobs)
  <2> HIDE DEF Creators, f
  <2>1. Cardinality(1 .. Len(jobs)) = IF 1 > Len(jobs) THEN 0 ELSE Len(jobs) - 1 + 1
    BY <1>1, FS_Interval
  <2> QED  BY <1>1, <2>1
<1>6. Cardinality(Creators) \in Nat /\ Cardinality(Sessions) \in Nat
  BY <1>2, FS_CardinalityType
<1> QED  BY <1>1, <1>2, <1>4, <1>5, <1>6

\* A scan of no more rows than the limit is the whole table.
LEMMA ScansAreWhole ==
  ASSUME VerdictInv, Len(jobs) <= ScanLimit, NEW S \in Scans
  PROVE  S = Ids
<1>1. Len(jobs) \in Nat /\ Ids = 1 .. Len(jobs)
  BY LenProperties DEF VerdictInv, TypeOK, Ids
<1>2. IsFiniteSet(Ids) /\ Cardinality(Ids) = Len(jobs)
  BY <1>1, FS_Interval
<1>3. ScanSize = Len(jobs)
  BY <1>1, LimitAssumption DEF ScanSize
<1>4. S \in SUBSET Ids /\ Cardinality(S) = Cardinality(Ids)
  BY <1>2, <1>3 DEF Scans
<1> QED  BY <1>2, <1>4, FS_Subset

-----------------------------------------------------------------------------
\* The call is before its answer, or its service has created no job yet.
Flying(s) == session[s].pc \notin {"idle", "returned", "rejected"} \/ thread[s].pc = "service"

Exclusive ==
  \A s, t \in Sessions :
    Flying(s) /\ Flying(t) /\ session[s].scope = session[t].scope => s = t

\* Nothing of the scope is alive from the dedup scan to the job.
Cleared ==
  \A s \in Sessions :
    session[s].pc \in {"create", "before"} \/ thread[s].pc = "service"
      => \A i \in Ids : jobs[i].scope = session[s].scope => jobs[i].status \notin Live

OneEach ==
  \A i, k \in Ids :
    jobs[i].scope = jobs[k].scope /\ {jobs[i].status, jobs[k].status} \subseteq Live => i = k

OneInv == Exclusive /\ Cleared /\ OneEach

\* No live job is so old that a scan leaves it out.
ScansReachLive == \A S \in Scans, scope \in Scopes : LiveIn(scope) \subseteq S

\* The dedup invariant is inductive.
LEMMA OneStep ==
  ASSUME Serial, VerdictInv, OneInv, ScansReachLive, [Next]_vars
  PROVE  OneInv'
<1> USE DEF Flying
<1>1. CASE Dies
  BY <1>1 DEF OneInv, Exclusive, Cleared, OneEach, Dies, Ids
<1>2. CASE Rests
  BY <1>2 DEF OneInv, Exclusive, Cleared, OneEach, Rests, Settles, RowsStay
<1>3. ASSUME NEW s \in Sessions, Turn(s)  PROVE OneInv'
  <2>1. SessionOK(s)
    BY DEF VerdictInv
  <2>2. \A t \in Sessions \ {s} : session'[t] = session[t] /\ thread'[t] = thread[t]
    BY <1>3 DEF Turn, Elsewhere
  <2>3. CASE Begins(s)
    <3>1. \A t \in Sessions : Flying(t) => session[t].scope # session'[s].scope
      BY <2>3 DEF Begins, InFlight
    <3> QED  BY <2>1, <2>2, <2>3, <3>1
             DEF Begins, OneInv, Exclusive, Cleared, OneEach, SessionOK, Ids
  <2>4. CASE Checks(s)
    <3>1. session'[s].pc \in {"create", "before"}
          => \A i \in Ids : jobs[i].scope = session[s].scope => jobs[i].status \notin Live
      <4> SUFFICES ASSUME session'[s].pc \in {"create", "before"}
                   PROVE  \A i \in Ids : jobs[i].scope = session[s].scope
                                          => jobs[i].status \notin Live
        OBVIOUS
      <4>1. PICK S \in Scans : S \cap LiveIn(session[s].scope) = {}
        BY <2>4 DEF Checks
      <4>2. session[s].scope \in Scopes
        BY <2>1, <2>4 DEF Checks, SessionOK
      <4>3. LiveIn(session[s].scope) = {}
        BY <4>1, <4>2 DEF ScansReachLive
      <4> QED  BY <4>3 DEF LiveIn
    <3> QED  BY <2>1, <2>2, <2>4, <3>1
             DEF Checks, OneInv, Exclusive, Cleared, OneEach, SessionOK, Ids
  <2>5. CASE Looks(s)
    BY <2>2, <2>5 DEF Looks, OneInv, Exclusive, Cleared, OneEach, Ids
  <2>6. CASE Waits(s)
    BY <2>2, <2>6 DEF Waits, Awaiting, OneInv, Exclusive, Cleared, OneEach, Ids
  <2>7. CASE Works(s)
    BY <2>2, <2>7 DEF Works, Settles, RowsStay, OneInv, Exclusive, Cleared, OneEach
  <2>8. ASSUME Adds(session[s].scope), Flying(s),
               session[s].pc = "create" \/ thread[s].pc = "service",
               session'[s].scope = session[s].scope, Flying(s)' => Flying(s),
               session'[s].pc \notin {"create", "before"}, thread'[s].pc # "service"
        PROVE  OneInv'
    <3>1. \A i \in Ids : jobs[i].scope = session[s].scope => jobs[i].status \notin Live
      BY <2>8 DEF OneInv, Cleared
    <3>2. PICK n :
            /\ Ids' = Ids \cup {n} /\ jobs'[n].scope = session[s].scope
            /\ \A i \in Ids : /\ jobs'[i].scope = jobs[i].scope
                              /\ jobs'[i].status \in Live => jobs[i].status \in Live
      BY <2>8 DEF Adds, RowsStay
    <3>3. OneEach'
      <4> SUFFICES ASSUME NEW i \in Ids', NEW k \in Ids', jobs'[i].scope = jobs'[k].scope,
                          {jobs'[i].status, jobs'[k].status} \subseteq Live
                   PROVE  i = k
        BY DEF OneEach, Live
      <4>1. CASE i \in Ids /\ k \in Ids
        BY <3>2, <4>1 DEF OneInv, OneEach
      <4>2. CASE i \notin Ids \/ k \notin Ids
        BY <3>1, <3>2, <4>2
      <4> QED  BY <4>1, <4>2
    <3>4. Exclusive'
      BY <2>2, <2>8 DEF OneInv, Exclusive
    <3>5. \A t \in Sessions \ {s} :
            session[t].pc \in {"create", "before"} \/ thread[t].pc = "service"
              => session[t].scope # session[s].scope
      BY <2>8 DEF OneInv, Exclusive
    <3>6. Cleared'
      <4> SUFFICES ASSUME NEW t \in Sessions, NEW i \in Ids',
                          session'[t].pc \in {"create", "before"} \/ thread'[t].pc = "service",
                          jobs'[i].scope = session'[t].scope
                   PROVE  jobs'[i].status \notin Live
        BY DEF Cleared, Live
      <4>1. t # s
        BY <2>8
      <4>2. /\ session'[t] = session[t] /\ thread'[t] = thread[t]
            /\ session[t].scope # session[s].scope
        BY <2>2, <3>5, <4>1
      <4>3. i \in Ids
        BY <3>2, <4>2
      <4> QED  BY <3>2, <4>2, <4>3 DEF OneInv, Cleared
    <3> QED  BY <3>3, <3>4, <3>6 DEF OneInv
  <2>9. CASE Creates(s)
    BY <2>8, <2>9 DEF Creates
  <2>10. CASE Serves(s)
    BY <2>1, <2>8, <2>10 DEF Serves, SessionOK
  <2> QED  BY <1>3, <2>3, <2>4, <2>5, <2>6, <2>7, <2>9, <2>10 DEF Turn
<1> QED  BY <1>1, <1>2, <1>3, EveryStep

\* At the start there is no row and nobody is under way.
LEMMA OneInit == Init => OneInv /\ Accounted
BY DEF Init, OneInv, Exclusive, Cleared, OneEach, Accounted, Flying, Ids

\* No two different live rows of a scope: one at most.
LEMMA OneIsEnough == ASSUME VerdictInv, OneEach  PROVE OneLivePerScope
<1> SUFFICES ASSUME NEW scope \in Scopes  PROVE Cardinality(LiveIn(scope)) <= 1
  BY DEF OneLivePerScope
<1>1. \A i, k \in LiveIn(scope) : i = k
  BY DEF LiveIn, OneEach
<1>2. CASE LiveIn(scope) = {}
  BY <1>2, FS_EmptySet
<1>3. CASE LiveIn(scope) # {}
  <2>1. PICK i : i \in LiveIn(scope)
    BY <1>3
  <2>2. LiveIn(scope) = {i}
    BY <1>1, <2>1
  <2>3. Cardinality({i}) = 1
    BY FS_Singleton
  <2> QED  BY <2>2, <2>3
<1> QED  BY <1>2, <1>3

-----------------------------------------------------------------------------
\* OneLivePerScope: whatever is submitted, canceled or lost, and however many jobs there are,
\* as long as no live job has fallen behind the newest ScanLimit rows that the scan reads
\* (_DEDUP_SCAN_LIMIT) and the submissions of a scope do not overlap.
THEOREM OneLiveWhileScanned ==
  ASSUME Serial
  PROVE  Spec /\ []ScansReachLive => []OneLivePerScope
<1>1. VerdictInv /\ [Next]_vars => VerdictInv'
  BY VerdictStep
<1>2. VerdictInv /\ OneInv /\ ScansReachLive /\ [Next]_vars => OneInv'
  BY OneStep
<1>3. VerdictInv /\ OneInv => OneLivePerScope
  BY OneIsEnough DEF OneInv
<1> QED  BY <1>1, <1>2, <1>3, VerdictInit, OneInit, PTL DEF Spec

\* The same without a condition on the behaviour: up to ScanLimit submissions nothing falls behind.
THEOREM OneLive ==
  ASSUME Serial, IsFiniteSet(Sessions), Cardinality(Sessions) <= ScanLimit
  PROVE  Spec => []OneLivePerScope
<1>1. VerdictInv /\ [Next]_vars => VerdictInv'
  BY VerdictStep
<1>2. VerdictInv /\ Accounted /\ [Next]_vars => Accounted'
  BY AccountedStep
<1>3. VerdictInv /\ Accounted => ScansReachLive
  <2> SUFFICES ASSUME VerdictInv, Accounted, NEW S \in Scans, NEW scope \in Scopes
               PROVE  LiveIn(scope) \subseteq S
    BY DEF ScansReachLive
  <2>1. Len(jobs) <= ScanLimit
    BY RowsBounded, FS_CardinalityType, LimitAssumption
  <2> QED  BY <2>1, ScansAreWhole DEF LiveIn
<1> QED  BY <1>1, <1>2, <1>3, VerdictInit, OneInit, OneLiveWhileScanned, PTL DEF Spec

-----------------------------------------------------------------------------
(* The answer of a submission is the job it caused: created_at tells rows apart, *)
(* so the newest of the scope is the last one, and between the look before the   *)
(* service and the answer nobody else adds a row to the scope.                   *)

InOrder ==
  /\ \A i \in Ids : jobs[i].created <= clock
  /\ \A i, k \in Ids : i < k => jobs[i].created <= jobs[k].created

\* What is newer than the look before is the service's own row.
OwnIsNext ==
  \A s \in Sessions :
    Awaiting(s) =>
      /\ session[s].after \in Ids \cup {0}
      /\ \A i \in Ids : jobs[i].scope = session[s].scope /\ i > session[s].after
                         => i = thread[s].job
      /\ thread[s].job # None => /\ thread[s].job > session[s].after
                                 /\ jobs[thread[s].job].scope = session[s].scope

OwnAnswers == \A s \in Sessions : session[s].result # None => session[s].result = thread[s].job

OwnInv == InOrder /\ (DistinctTimes => OwnIsNext /\ OwnAnswers)

ScansWhole == \A S \in Scans : S = Ids

\* Rows are added in the order of their times, and a tie stays a tie.
LEMMA InOrderStep ==
  ASSUME VerdictInv, InOrder, [Next]_vars
  PROVE  InOrder' /\ (DistinctTimes' => DistinctTimes)
<1>1. clock \in Nat /\ Ids \subseteq Nat /\ \A i \in Ids : jobs[i].created \in Nat
  <2>1. jobs \in Seq(JobRow) /\ clock \in Nat
    BY DEF VerdictInv, TypeOK, JobRow
  <2>2. \A i \in Ids : jobs[i] \in JobRow
    BY <2>1, ElementOfSeq DEF Ids
  <2> QED  BY <2>1, <2>2, LenProperties DEF Ids, JobRow
<1>2. CASE Settles /\ clock' >= clock /\ clock' \in Nat
  BY <1>1, <1>2 DEF InOrder, DistinctTimes, Settles, RowsStay
<1>3. ASSUME NEW scope, Adds(scope), UNCHANGED clock
      PROVE  InOrder' /\ (DistinctTimes' => DistinctTimes)
  <2>1. PICK n : n = Len(jobs) + 1
    OBVIOUS
  <2>2. /\ Ids' = Ids \cup {n} /\ \A i \in Ids : i < n
        /\ \A i \in Ids : jobs'[i].created = jobs[i].created
        /\ jobs'[n].created = clock
    BY <1>3, <2>1 DEF Adds, RowsStay
  <2>3. n \in Nat
    <3>1. Len(jobs) \in Nat
      BY LenProperties DEF VerdictInv, TypeOK
    <3> QED  BY <2>1, <3>1
  <2>4. InOrder'
    <3>1. \A i \in Ids : jobs'[i].created <= clock /\ i < n /\ i \in Nat
      BY <1>1, <2>2 DEF InOrder
    <3>2. \A i, k \in Ids : i < k => jobs'[i].created <= jobs'[k].created
      BY <2>2 DEF InOrder
    <3>3. \A i \in Ids' : i \in Ids \/ i = n
      BY <2>2
    <3>4. \A i \in Ids' : jobs'[i].created <= clock'
      BY <1>1, <1>3, <2>2, <3>1, <3>3
    <3>5. ASSUME NEW i \in Ids', NEW k \in Ids', i < k
          PROVE  jobs'[i].created <= jobs'[k].created
      <4>1. CASE k = n
        BY <2>2, <3>4, <4>1, <1>3
      <4>2. CASE k # n
        BY <2>3, <3>1, <3>2, <3>3, <3>5, <4>2
      <4> QED  BY <4>1, <4>2
    <3> QED  BY <3>4, <3>5 DEF InOrder
  <2>5. DistinctTimes' => DistinctTimes
    BY <2>2 DEF DistinctTimes
  <2> QED  BY <2>4, <2>5
<1>4. CASE Dies
  BY <1>1, <1>2, <1>4, SameSettles DEF Dies
<1>5. CASE Rests
  BY <1>1, <1>2, <1>5, VerdictStep DEF Rests, VerdictInv, TypeOK
<1>6. ASSUME NEW s \in Sessions, Turn(s)  PROVE InOrder' /\ (DistinctTimes' => DistinctTimes)
  <2>1. CASE Creates(s) \/ Serves(s)
    BY <1>3, <2>1 DEF Creates, Serves
  <2>2. CASE Works(s)
    BY <1>1, <1>2, <2>2 DEF Works
  <2>3. CASE Begins(s) \/ Checks(s) \/ Looks(s) \/ Waits(s)
    BY <1>1, <1>2, <2>3, SameSettles DEF Begins, Checks, Looks, Waits
  <2> QED  BY <1>6, <2>1, <2>2, <2>3 DEF Turn
<1> QED  BY <1>4, <1>5, <1>6, EveryStep

\* With distinct times, the newest row of a scope has the largest id.
LEMMA LatestIsLast ==
  ASSUME VerdictInv, InOrder, DistinctTimes, ScansWhole, NEW scope,
         NEW id \in LatestAnswers(scope)
  PROVE  /\ id \in Ids \cup {0} /\ id \in Nat
         /\ id \in Ids => jobs[id].scope = scope
         /\ \A i \in Ids : jobs[i].scope = scope => i <= id
<1>1. Ids \subseteq Nat \ {0} /\ \A i \in Ids : jobs[i].created \in Nat
  <2>1. jobs \in Seq(JobRow)
    BY DEF VerdictInv, TypeOK, JobRow
  <2>2. \A i \in Ids : jobs[i] \in JobRow
    BY <2>1, ElementOfSeq DEF Ids
  <2> QED  BY <2>1, <2>2, LenProperties DEF Ids, JobRow
<1> DEFINE match == {i \in Ids : jobs[i].scope = scope}
           newest == {i \in match : \A k \in match : jobs[i].created >= jobs[k].created}
<1>2. id \in IF match = {} THEN {0} ELSE newest
  <2> DEFINE Of(T) ==
               LET m == {i \in T : jobs[i].scope = scope} IN
               IF m = {} THEN {0}
               ELSE {i \in m : \A k \in m : jobs[i].created >= jobs[k].created}
  <2>1. LatestAnswers(scope) = UNION {Of(S) : S \in Scans}
    BY DEF LatestAnswers
  <2>2. PICK S \in Scans : id \in Of(S)
    <3> HIDE DEF Of
    <3> QED  BY <2>1
  <2>3. S = Ids
    BY DEF ScansWhole
  <2> QED  BY <2>2, <2>3
<1>3. CASE match = {}
  BY <1>1, <1>2, <1>3
<1>4. CASE match # {}
  <2>1. id \in match /\ \A k \in match : jobs[id].created >= jobs[k].created
    BY <1>2, <1>4
  <2>2. ASSUME NEW i \in match  PROVE i <= id
    <3>1. id \in Ids /\ i \in Ids /\ jobs[id].created >= jobs[i].created
      BY <2>1
    <3>2. id < i => jobs[id].created <= jobs[i].created
      BY <3>1 DEF InOrder
    <3>3. id < i => jobs[id].created = jobs[i].created
      BY <1>1, <3>1, <3>2
    <3>4. id < i => id = i
      BY <3>1, <3>3 DEF DistinctTimes
    <3>5. id \in Nat /\ i \in Nat
      BY <1>1, <3>1
    <3> QED  BY <3>4, <3>5
  <2> QED  BY <1>1, <2>1, <2>2
<1> QED  BY <1>3, <1>4

\* What a waiting call knows of its row is inductive.
LEMMA OwnStep ==
  ASSUME VerdictInv, Accounted, OneInv, OwnInv, ScansWhole, [Next]_vars
  PROVE  OwnInv'
<1>1. InOrder' /\ (DistinctTimes' => DistinctTimes)
  BY InOrderStep DEF OwnInv
<1> SUFFICES ASSUME DistinctTimes'  PROVE (OwnIsNext /\ OwnAnswers)'
  BY <1>1 DEF OwnInv
<1>2. DistinctTimes /\ OwnIsNext /\ OwnAnswers
  BY <1>1 DEF OwnInv
<1>3. Ids \subseteq Nat \ {0} /\ Len(jobs) \in Nat /\ None \notin Nat
      /\ \A s \in Sessions : session[s].after \in Nat
  <2>1. jobs \in Seq(JobRow)
    BY DEF VerdictInv, TypeOK, JobRow
  <2> QED  BY <2>1, LenProperties, NoneAssumption DEF Ids, VerdictInv, TypeOK
<1>4. CASE Dies
  BY <1>2, <1>4 DEF OwnIsNext, OwnAnswers, Dies, Awaiting
<1>5. CASE Rests
  <2>1. Ids' = Ids /\ session' = session /\ thread' = thread
        /\ \A i \in Ids : jobs'[i].scope = jobs[i].scope
    BY <1>5 DEF Rests, Settles, RowsStay
  <2>2. OwnAnswers'
    BY <1>2, <2>1 DEF OwnAnswers
  <2>3. OwnIsNext'
    BY <1>2, <2>1 DEF OwnIsNext, Awaiting, Accounted
  <2> QED  BY <2>2, <2>3
<1>6. ASSUME NEW s \in Sessions, Turn(s)  PROVE (OwnIsNext /\ OwnAnswers)'
  <2>1. SessionOK(s)
    BY DEF VerdictInv
  <2>2. \A t \in Sessions \ {s} : session'[t] = session[t] /\ thread'[t] = thread[t]
    BY <1>6 DEF Turn, Elsewhere
  <2>3. CASE Begins(s) \/ Checks(s)
    <3>1. /\ ~Awaiting(s)' /\ session'[s].result = session[s].result /\ thread'[s] = thread[s]
          /\ jobs' = jobs
      BY <2>3 DEF Begins, Checks, Awaiting
    <3> QED  BY <1>2, <2>2, <3>1 DEF OwnIsNext, OwnAnswers, Awaiting, Ids
  <2>4. CASE Looks(s)
    <3>1. /\ session'[s].scope = session[s].scope /\ session'[s].result = session[s].result
          /\ thread'[s].job = thread[s].job /\ jobs' = jobs
          /\ session'[s].after \in LatestAnswers(session[s].scope)
      BY <2>4 DEF Looks
    <3>2. thread[s].job = None
      BY <2>1, <2>4 DEF Looks, SessionOK, Accounted
    <3>3. /\ session'[s].after \in Ids \cup {0} /\ session'[s].after \in Nat
          /\ \A i \in Ids : jobs[i].scope = session[s].scope => i <= session'[s].after
      BY <1>2, <3>1, LatestIsLast DEF OwnInv
    <3>4. \A i \in Ids : jobs[i].scope = session[s].scope => ~(i > session'[s].after)
      <4>1. \A i, a \in Nat : i <= a => ~(i > a)
        OBVIOUS
      <4> QED  BY <1>3, <3>3, <4>1
    <3> QED  BY <1>2, <2>2, <3>1, <3>2, <3>3, <3>4 DEF OwnIsNext, OwnAnswers, Awaiting, Ids
  <2>5. CASE Waits(s)
    <3>1. /\ session'[s].scope = session[s].scope /\ session'[s].after = session[s].after
          /\ thread'[s] = thread[s] /\ jobs' = jobs /\ Awaiting(s)
      BY <2>5 DEF Waits
    <3>2. OwnIsNext'
      BY <1>2, <2>2, <3>1 DEF OwnIsNext, Awaiting, Ids
    <3>3. session'[s].result # None => session'[s].result = thread'[s].job
      <4>1. CASE session'[s].result \in {session[s].result, None}
        BY <1>2, <3>1, <4>1 DEF OwnAnswers
      <4>2. CASE /\ session'[s].result > session[s].after
                 /\ session'[s].result \in LatestAnswers(session[s].scope)
        <5>1. /\ session'[s].result \in Ids \cup {0}
              /\ session'[s].result \in Ids => jobs[session'[s].result].scope = session[s].scope
          BY <1>2, <4>2, LatestIsLast DEF OwnInv
        <5>2. session'[s].result # 0
          BY <1>3, <4>2
        <5> QED  BY <1>2, <3>1, <4>2, <5>1, <5>2 DEF OwnIsNext
      <4> QED  BY <2>5, <4>1, <4>2 DEF Waits
    <3> QED  BY <1>2, <2>2, <3>1, <3>2, <3>3 DEF OwnAnswers
  <2>6. CASE Works(s)
    <3>1. Ids' = Ids /\ session'[s] = session[s] /\ thread'[s].job = thread[s].job
          /\ \A i \in Ids : jobs'[i].scope = jobs[i].scope
      BY <2>6 DEF Works, Settles, RowsStay
    <3>2. OwnAnswers'
      BY <1>2, <2>2, <3>1 DEF OwnAnswers
    <3>3. ASSUME NEW t \in Sessions
          PROVE  session'[t] = session[t] /\ thread'[t].job = thread[t].job
      BY <2>2, <3>1
    <3>4. OwnIsNext'
      BY <1>2, <3>1, <3>3 DEF OwnIsNext, Awaiting, Accounted
    <3> QED  BY <3>2, <3>4
  <2>7. CASE Creates(s) \/ Serves(s)
    <3>0. PICK n : n = Len(jobs) + 1
      OBVIOUS
    <3>1. /\ Ids' = Ids \cup {n} /\ \A i \in Ids : i < n /\ jobs'[i].scope = jobs[i].scope
          /\ jobs'[n].scope = session[s].scope /\ thread'[s].job = n /\ n \in Nat \ {0}
          /\ session'[s].scope = session[s].scope
      BY <1>3, <2>7, <3>0 DEF Creates, Serves, Adds, RowsStay
    <3>2. Flying(s) /\ thread[s].job = None
      BY <2>1, <2>7 DEF Creates, Serves, SessionOK, Accounted, Flying
    <3>3. ASSUME NEW t \in Sessions \ {s}, Awaiting(t)
          PROVE  session[t].scope # session[s].scope
      BY <3>2, <3>3 DEF OneInv, Exclusive, Flying, Awaiting
    <3>4. OwnAnswers'
      <4>1. session'[s].result # None => session'[s].result = n
        <5>1. CASE Creates(s)
          BY <3>0, <5>1 DEF Creates
        <5>2. CASE Serves(s)
          BY <1>2, <3>2, <5>2 DEF Serves, OwnAnswers
        <5> QED  BY <2>7, <5>1, <5>2
      <4> QED  BY <1>2, <2>2, <3>1, <4>1 DEF OwnAnswers
    <3>5. ASSUME NEW t \in Sessions, Awaiting(t)'
          PROVE  /\ session'[t].after \in Ids' \cup {0}
                 /\ \A i \in Ids' : /\ jobs'[i].scope = session'[t].scope
                                    /\ i > session'[t].after
                                    => i = thread'[t].job
                 /\ thread'[t].job # None => /\ thread'[t].job > session'[t].after
                                             /\ jobs'[thread'[t].job].scope = session'[t].scope
      <4>1. CASE t # s
        <5>1. /\ session'[t] = session[t] /\ thread'[t] = thread[t] /\ Awaiting(t)
              /\ session[t].scope # session[s].scope
          BY <2>2, <3>3, <3>5, <4>1 DEF Awaiting
        <5>2. thread[t].job # None => thread[t].job \in Ids
          BY DEF Accounted
        <5> QED  BY <1>2, <3>1, <5>1, <5>2 DEF OwnIsNext
      <4>2. CASE t = s
        <5>1. session'[s] = session[s] /\ Awaiting(s)
          BY <2>7, <3>5, <4>2 DEF Creates, Serves, Awaiting
        <5>2. session[s].after \in Ids \cup {0}
              /\ \A i \in Ids : jobs[i].scope = session[s].scope => ~(i > session[s].after)
          BY <1>2, <1>3, <3>2, <5>1 DEF OwnIsNext
        <5>3. n > session[s].after
          BY <1>3, <3>1, <5>2
        <5> QED  BY <3>1, <4>2, <5>1, <5>2, <5>3
      <4> QED  BY <4>1, <4>2
    <3> QED  BY <3>4, <3>5 DEF OwnIsNext
  <2> QED  BY <1>6, <2>3, <2>4, <2>5, <2>6, <2>7 DEF Turn
<1> QED  BY <1>4, <1>5, <1>6, EveryStep

\* At the start nobody waits.
LEMMA OwnInit == Init => OwnInv
BY DEF Init, OwnInv, InOrder, OwnIsNext, OwnAnswers, Awaiting, Ids

\* The second look answers None only if there is no row of its own.
LEMMA NoneStep ==
  ASSUME VerdictInv, Accounted, OwnInv, ScansWhole, NEW s \in Sessions, AwaitRecheck(s),
         session'[s].result = None, DistinctTimes
  PROVE  thread[s].job = None
<1>1. PICK id \in LatestAnswers(session[s].scope) :
        Answer(s, IF id > session[s].after THEN id ELSE None)
  BY DEF AwaitRecheck
<1>2. /\ id \in Nat /\ \A i \in Ids : jobs[i].scope = session[s].scope => i <= id
  BY LatestIsLast DEF OwnInv
<1>3. session'[s].result = IF id > session[s].after THEN id ELSE None
  BY <1>1 DEF Answer, VerdictInv, TypeOK
<1>4. ~(id > session[s].after) /\ session[s].after \in Nat /\ Ids \subseteq Nat
  BY <1>2, <1>3, NoneAssumption, LenProperties DEF VerdictInv, TypeOK, Ids
<1> SUFFICES ASSUME thread[s].job # None  PROVE FALSE
  OBVIOUS
<1>5. /\ thread[s].job \in Ids /\ thread[s].job > session[s].after
      /\ jobs[thread[s].job].scope = session[s].scope
  BY DEF OwnInv, OwnIsNext, Awaiting, AwaitRecheck, Accounted
<1>6. \A i, a, k \in Nat : i <= k /\ i > a => k > a
  OBVIOUS
<1> QED  BY <1>2, <1>4, <1>5, <1>6

-----------------------------------------------------------------------------
\* AnswersOwnJob: the id that submit_detached returns is the one of the job its service created,
\* and None after the second look means that it created none, while created_at tells the rows
\* apart.
THEOREM AnswersAreOwn ==
  ASSUME Serial, IsFiniteSet(Sessions), Cardinality(Sessions) <= ScanLimit
  PROVE  Spec => AnswersOwnJob
<1> DEFINE Inv == VerdictInv /\ Accounted /\ OneInv /\ OwnInv
<1>1. VerdictInv /\ Accounted => ScansWhole /\ ScansReachLive
  <2> SUFFICES ASSUME VerdictInv, Accounted  PROVE ScansWhole /\ ScansReachLive
    OBVIOUS
  <2>1. Len(jobs) <= ScanLimit
    BY RowsBounded, FS_CardinalityType, LimitAssumption
  <2> QED  BY <2>1, ScansAreWhole DEF ScansWhole, ScansReachLive, LiveIn
<1>2. Init => Inv
  BY VerdictInit, OneInit, OwnInit
<1>3. Inv /\ [Next]_vars
      => Inv' /\ [\A s \in Sessions :
                    AwaitRecheck(s) /\ session'[s].result = None /\ DistinctTimes
                    => thread[s].job = None]_vars
  BY <1>1, VerdictStep, AccountedStep, OneStep, OwnStep, NoneStep
<1>4. Inv => ResolvesOwnJob
  BY DEF OwnInv, OwnAnswers, ResolvesOwnJob
<1> QED  BY <1>2, <1>3, <1>4, PTL DEF Spec, AnswersOwnJob, NoneMeansNothing

-----------------------------------------------------------------------------
(* Batches. *)

Steps == {"queued", "run", "count", "report", "done", "error", "stopped"}

Once(seq, i) ==
  \E k \in DOMAIN seq : seq[k] = i /\ \A m \in DOMAIN seq : seq[m] = i => m = k
Never(seq, i) == \A k \in DOMAIN seq : seq[k] # i

BatchType ==
  /\ end \in [Pool!Index -> Pool!Ends] /\ item \in [Pool!Index -> Steps]
  /\ lock \in 0 .. Items /\ done \in Nat
  /\ reports \in Seq(Nat) /\ failures \in Seq(Pool!Index) /\ errors \in Seq(Pool!Index)

\* The critical section is that of the item with the lock.
LockHeld == \A i \in Pool!Index : item[i] = "report" <=> lock = i

\* A failure is told once fn has ended, and where it is told to.
FailureOk(i) ==
  /\ item[i] \in {"count", "report", "done"} => end[i] \in {"ok", "caught"}
  /\ item[i] = "stopped" => end[i] = "interrupt"
  /\ item[i] = "error" => end[i] # "interrupt"
  /\ IF item[i] \notin {"queued", "run"} /\ end[i] = "caught"
       THEN Once(failures, i) ELSE Never(failures, i)
  /\ IF item[i] = "error" THEN Once(errors, i) ELSE Never(errors, i)

Counted ==
  {i \in Pool!Index : item[i] \in {"report", "done"} \/ (item[i] = "error" /\ end[i] # "uncaught")}

\* What is reported was counted, and is not what the holder of the lock has still to report.
ReportsOk ==
  /\ Pool!ProgressGrows
  /\ \A k \in DOMAIN reports : reports[k] <= done /\ (lock # 0 => reports[k] < done)

\* A batch that is over does nothing more.
OverOk ==
  outcome # "none" => /\ Pool!Busy = {} /\ outcome \in {"interrupt", Pool!Held}
                      /\ Pool!EveryItemAttempted

BatchInv ==
  /\ BatchType /\ LockHeld /\ ReportsOk /\ OverOk
  /\ done = Cardinality(Counted)
  /\ \A i \in Pool!Index : FailureOk(i)

LEMMA BatchStart ==
  ASSUME Pool!Init
  PROVE  BatchInv
<1>1. /\ end \in [Pool!Index -> Pool!Ends] /\ item = [i \in Pool!Index |-> "queued"]
      /\ lock = 0 /\ done = 0 /\ reports = <<>> /\ failures = <<>> /\ errors = <<>>
      /\ outcome = IF Items = 0 THEN "returned" ELSE "none"
  BY DEF Pool!Init
<1>2. Items \in Nat
  BY PoolAssumption DEF Pool!ItemsAssumption
<1>3. BatchType /\ LockHeld
  BY <1>1, <1>2 DEF BatchType, LockHeld, Steps, Pool!Index
<1>4. ReportsOk
  BY <1>1 DEF ReportsOk, Pool!ProgressGrows
<1>5. OverOk
  BY <1>1 DEF OverOk, Pool!Busy, Pool!In, Pool!Held, Pool!EveryItemAttempted, Pool!Index
<1>6. done = Cardinality(Counted)
  <2>1. Counted = {}
    BY <1>1 DEF Counted
  <2> QED  BY <1>1, <2>1, FS_EmptySet
<1>7. \A i \in Pool!Index : FailureOk(i)
  BY <1>1 DEF FailureOk, Never
<1> QED  BY <1>3, <1>4, <1>5, <1>6, <1>7 DEF BatchInv

\* While an item moves the batch is not over.
LEMMA NotOver ==
  ASSUME OverOk, NEW i \in Pool!Index, item[i] \in {"run", "count", "report"}
  PROVE  outcome = "none"
BY DEF OverOk, Pool!Busy, Pool!In

\* One item moves.
LEMMA ItemMoves ==
  ASSUME BatchType, NEW i \in Pool!Index, NEW pc \in Steps, Pool!Goto(i, pc)
  PROVE  /\ item' \in [Pool!Index -> Steps] /\ item'[i] = pc
         /\ \A j \in Pool!Index \ {i} : item'[j] = item[j]
BY DEF Pool!Goto, BatchType

\* What is appended is told once more, and nothing else is.
LEMMA AppendTells ==
  ASSUME NEW S, NEW seq \in Seq(S), NEW i \in S
  PROVE  /\ Append(seq, i) \in Seq(S)
         /\ Never(seq, i) => Once(Append(seq, i), i)
         /\ \A j \in S \ {i} : /\ Once(seq, j) => Once(Append(seq, i), j)
                               /\ Never(seq, j) => Never(Append(seq, i), j)
<1> DEFINE t == Append(seq, i)
           n == Len(seq)
<1>1. /\ t \in Seq(S) /\ n \in Nat /\ DOMAIN seq = 1 .. n /\ DOMAIN t = 1 .. n + 1
      /\ t[n + 1] = i /\ \A k \in 1 .. n : t[k] = seq[k]
  OBVIOUS
<1> HIDE DEF t, n
<1>2. \A k \in DOMAIN t : k \in DOMAIN seq \/ k = n + 1
  BY <1>1
<1>3. \A k \in DOMAIN seq : k \in DOMAIN t /\ t[k] = seq[k]
  BY <1>1
<1>4. n + 1 \in DOMAIN t
  BY <1>1
<1>5. Never(seq, i) => Once(t, i)
  BY <1>1, <1>2, <1>3, <1>4 DEF Never, Once
<1>6. ASSUME NEW j \in S \ {i} PROVE Once(seq, j) => Once(t, j)
  BY <1>1, <1>2, <1>3 DEF Once
<1>7. ASSUME NEW j \in S \ {i} PROVE Never(seq, j) => Never(t, j)
  BY <1>1, <1>2, <1>3 DEF Never
<1> QED  BY <1>1, <1>5, <1>6, <1>7 DEF t

\* The counted are finitely many.
LEMMA CountedFinite ==
  /\ IsFiniteSet(Pool!Index)
  /\ IsFiniteSet(Counted)
<1>1. IsFiniteSet(Pool!Index)
  BY PoolAssumption, FS_Interval DEF Pool!Index, Pool!ItemsAssumption
<1>2. Counted \subseteq Pool!Index
  BY DEF Counted
<1> QED  BY <1>1, <1>2, FS_Subset

LEMMA TakeStep ==
  ASSUME BatchInv, NEW i \in Pool!Index, Pool!Take(i)
  PROVE  BatchInv'
<1>1. /\ outcome = "none" /\ item[i] = "queued" /\ Pool!Goto(i, "run")
      /\ workers' = workers /\ end' = end /\ lock' = lock /\ done' = done /\ reports' = reports
      /\ failures' = failures /\ errors' = errors /\ outcome' = outcome
  BY DEF Pool!Take
<1>2. /\ item' \in [Pool!Index -> Steps] /\ item'[i] = "run"
      /\ \A j \in Pool!Index \ {i} : item'[j] = item[j]
  BY <1>1, ItemMoves DEF BatchInv, Steps
<1>3. BatchType'
  BY <1>1, <1>2 DEF BatchInv, BatchType
<1>4. LockHeld' /\ ReportsOk' /\ OverOk'
  BY <1>1, <1>2 DEF BatchInv, LockHeld, ReportsOk, OverOk, Pool!ProgressGrows
<1>5. Counted' = Counted
  BY <1>1, <1>2 DEF Counted
<1>6. \A j \in Pool!Index : FailureOk(j)'
  BY <1>1, <1>2 DEF BatchInv, FailureOk
<1> QED  BY <1>1, <1>3, <1>4, <1>5, <1>6 DEF BatchInv

LEMMA WorkStep ==
  ASSUME BatchInv, NEW i \in Pool!Index, Pool!Work(i)
  PROVE  BatchInv'
<1> DEFINE pc == CASE end[i] = "uncaught" -> "error" [] end[i] = "interrupt" -> "stopped"
                   [] OTHER -> "count"
<1>1. /\ item[i] = "run" /\ Pool!Goto(i, pc)
      /\ failures' = (IF end[i] = "caught" THEN Append(failures, i) ELSE failures)
      /\ errors' = (IF end[i] = "uncaught" THEN Append(errors, i) ELSE errors)
      /\ workers' = workers /\ end' = end /\ lock' = lock /\ done' = done /\ reports' = reports
      /\ outcome' = outcome
  BY DEF Pool!Work, Pool!Ended
<1>2. end[i] \in {"ok", "caught", "uncaught", "interrupt"}
  BY DEF BatchInv, BatchType, Pool!Ends
<1>3. /\ pc \in {"error", "stopped", "count"} /\ pc \in Steps
      /\ pc = "error" <=> end[i] = "uncaught"
      /\ pc = "stopped" <=> end[i] = "interrupt"
  BY <1>2 DEF Steps
<1> HIDE DEF pc
<1>4. /\ item' \in [Pool!Index -> Steps] /\ item'[i] = pc
      /\ \A j \in Pool!Index \ {i} : item'[j] = item[j]
  BY <1>1, <1>3, ItemMoves DEF BatchInv
<1>5. /\ failures \in Seq(Pool!Index) /\ errors \in Seq(Pool!Index)
      /\ Never(failures, i) /\ Never(errors, i)
  BY <1>1 DEF BatchInv, BatchType, FailureOk
<1>6. /\ failures' \in Seq(Pool!Index) /\ errors' \in Seq(Pool!Index)
      /\ IF end[i] = "caught" THEN Once(failures', i) ELSE Never(failures', i)
      /\ IF end[i] = "uncaught" THEN Once(errors', i) ELSE Never(errors', i)
      /\ \A j \in Pool!Index \ {i} :
           /\ (Once(failures, j) => Once(failures', j))
           /\ (Never(failures, j) => Never(failures', j))
           /\ (Once(errors, j) => Once(errors', j)) /\ (Never(errors, j) => Never(errors', j))
  BY <1>1, <1>5, AppendTells
<1>7. BatchType'
  BY <1>1, <1>4, <1>6 DEF BatchInv, BatchType
<1>8. LockHeld' /\ ReportsOk'
  BY <1>1, <1>3, <1>4 DEF BatchInv, LockHeld, ReportsOk, Pool!ProgressGrows
<1>9. OverOk'
  BY <1>1, NotOver DEF BatchInv, OverOk
<1>10. Counted' = Counted
  BY <1>1, <1>3, <1>4 DEF Counted
<1>11. FailureOk(i)'
  BY <1>1, <1>2, <1>3, <1>4, <1>6 DEF FailureOk
<1>12. \A j \in Pool!Index \ {i} : FailureOk(j)'
  BY <1>1, <1>4, <1>6 DEF BatchInv, FailureOk
<1> QED  BY <1>1, <1>7, <1>8, <1>9, <1>10, <1>11, <1>12 DEF BatchInv

LEMMA CountStep ==
  ASSUME BatchInv, NEW i \in Pool!Index, Pool!Count(i)
  PROVE  BatchInv'
<1>1. /\ item[i] = "count" /\ lock = 0 /\ lock' = i /\ done' = done + 1 /\ Pool!Goto(i, "report")
      /\ workers' = workers /\ end' = end /\ reports' = reports /\ failures' = failures
      /\ errors' = errors /\ outcome' = outcome
  BY DEF Pool!Count
<1>2. /\ item' \in [Pool!Index -> Steps] /\ item'[i] = "report"
      /\ \A j \in Pool!Index \ {i} : item'[j] = item[j]
  BY <1>1, ItemMoves DEF BatchInv, Steps
<1>3. Items \in Nat /\ i \in 1 .. Items
  BY PoolAssumption DEF Pool!Index, Pool!ItemsAssumption
<1>4. BatchType'
  BY <1>1, <1>2, <1>3 DEF BatchInv, BatchType
<1>5. LockHeld'
  BY <1>1, <1>2, <1>3 DEF BatchInv, LockHeld, Pool!Index
<1>6. ReportsOk'
  <2>1. \A k \in DOMAIN reports : reports[k] \in Nat /\ reports[k] <= done
    BY DEF BatchInv, BatchType, ReportsOk
  <2>2. done \in Nat
    BY DEF BatchInv, BatchType
  <2>3. \A k \in DOMAIN reports : reports[k] <= done + 1 /\ reports[k] < done + 1
    BY <2>1, <2>2
  <2> QED  BY <1>1, <2>3 DEF BatchInv, ReportsOk, Pool!ProgressGrows
<1>7. OverOk'
  BY <1>1, NotOver DEF BatchInv, OverOk
<1>8. done' = Cardinality(Counted')
  <2>1. Counted' = Counted \cup {i} /\ i \notin Counted
    BY <1>1, <1>2 DEF Counted
  <2> QED  BY <1>1, <2>1, CountedFinite, FS_AddElement DEF BatchInv
<1>9. \A j \in Pool!Index : FailureOk(j)'
  BY <1>1, <1>2 DEF BatchInv, FailureOk
<1> QED  BY <1>4, <1>5, <1>6, <1>7, <1>8, <1>9 DEF BatchInv

LEMMA ReportStep ==
  ASSUME BatchInv, NEW i \in Pool!Index, Pool!Report(i)
  PROVE  BatchInv'
<1>1. /\ item[i] = "report" /\ lock = i /\ lock' = 0
      /\ workers' = workers /\ end' = end /\ done' = done /\ failures' = failures
      /\ outcome' = outcome
  BY DEF Pool!Report, BatchInv, LockHeld
<1>2. \/ reports' = Append(reports, done) /\ Pool!Goto(i, "done") /\ errors' = errors
      \/ errors' = Append(errors, i) /\ Pool!Goto(i, "error") /\ reports' = reports
  BY DEF Pool!Report
<1>3. /\ item' \in [Pool!Index -> Steps] /\ item'[i] \in {"done", "error"}
      /\ \A j \in Pool!Index \ {i} : item'[j] = item[j]
      /\ \/ reports' = Append(reports, done) /\ item'[i] = "done" /\ errors' = errors
         \/ errors' = Append(errors, i) /\ item'[i] = "error" /\ reports' = reports
  BY <1>2, ItemMoves DEF BatchInv, Steps
<1>4. /\ end[i] \in {"ok", "caught"} /\ Never(errors, i) /\ errors \in Seq(Pool!Index)
      /\ (IF end[i] = "caught" THEN Once(failures, i) ELSE Never(failures, i))
  BY <1>1 DEF BatchInv, BatchType, FailureOk
<1>5. /\ errors' \in Seq(Pool!Index)
      /\ IF item'[i] = "error" THEN Once(errors', i) ELSE Never(errors', i)
      /\ \A j \in Pool!Index \ {i} :
           (Once(errors, j) => Once(errors', j)) /\ (Never(errors, j) => Never(errors', j))
  BY <1>3, <1>4, AppendTells
<1>6. /\ reports \in Seq(Nat) /\ done \in Nat /\ i \in 1 .. Items /\ Items \in Nat
  BY PoolAssumption DEF BatchInv, BatchType, Pool!Index, Pool!ItemsAssumption
<1>7. reports' \in Seq(Nat)
  BY <1>3, <1>6
<1>8. BatchType'
  BY <1>1, <1>3, <1>5, <1>6, <1>7 DEF BatchInv, BatchType
<1>9. LockHeld'
  BY <1>1, <1>3, <1>6 DEF BatchInv, LockHeld, Pool!Index
<1>10. ReportsOk'
  <2> DEFINE n == Len(reports)
  <2>1. \A k \in DOMAIN reports : reports[k] < done
    BY <1>1, <1>6 DEF BatchInv, ReportsOk
  <2>2. n \in Nat /\ DOMAIN reports = 1 .. n /\ \A k \in 1 .. n - 1 : reports[k] < reports[k + 1]
    BY <1>6 DEF BatchInv, ReportsOk, Pool!ProgressGrows
  <2>3. CASE reports' = reports
    <3>1. \A k \in DOMAIN reports : reports[k] <= done
      BY DEF BatchInv, ReportsOk
    <3> QED  BY <1>1, <2>2, <2>3, <3>1 DEF ReportsOk, Pool!ProgressGrows
  <2>4. CASE reports' = Append(reports, done)
    <3>1. /\ Len(reports') = n + 1 /\ DOMAIN reports' = 1 .. n + 1 /\ reports'[n + 1] = done
          /\ \A k \in 1 .. n : reports'[k] = reports[k]
      BY <1>6, <2>4
    <3> HIDE DEF n
    <3>2. \A k \in 1 .. n + 1 : reports'[k] <= done
      <4>1. \A k \in 1 .. n : reports[k] \in Nat /\ reports[k] <= done
        BY <1>6, <2>1, <2>2
      <4>2. \A k \in 1 .. n + 1 : k \in 1 .. n \/ k = n + 1
        BY <2>2
      <4> QED  BY <1>6, <3>1, <4>1, <4>2
    <3>3. \A k \in 1 .. n : reports'[k] < reports'[k + 1]
      <4> SUFFICES ASSUME NEW k \in 1 .. n  PROVE reports'[k] < reports'[k + 1]
        OBVIOUS
      <4>1. CASE k = n
        BY <2>1, <2>2, <3>1, <4>1
      <4>2. CASE k # n
        <5>1. k \in 1 .. n - 1 /\ k + 1 \in 1 .. n
          BY <2>2, <4>2
        <5> QED  BY <2>2, <3>1, <5>1
      <4> QED  BY <4>1, <4>2
    <3>4. Len(reports') - 1 = n
      BY <2>2, <3>1
    <3>5. Pool!ProgressGrows'
      BY <3>3, <3>4 DEF Pool!ProgressGrows
    <3>6. \A k \in DOMAIN reports' : reports'[k] <= done' /\ lock' = 0
      BY <1>1, <3>1, <3>2
    <3> QED  BY <3>5, <3>6 DEF ReportsOk
  <2> QED  BY <1>3, <2>3, <2>4
<1>11. OverOk'
  BY <1>1, NotOver DEF BatchInv, OverOk
<1>12. Counted' = Counted
  BY <1>1, <1>3, <1>4 DEF Counted
<1>13. FailureOk(i)'
  BY <1>1, <1>3, <1>4, <1>5 DEF FailureOk
<1>14. \A j \in Pool!Index \ {i} : FailureOk(j)'
  BY <1>1, <1>3, <1>5 DEF BatchInv, FailureOk
<1> QED  BY <1>1, <1>8, <1>9, <1>10, <1>11, <1>12, <1>13, <1>14 DEF BatchInv

LEMMA FinishStep ==
  ASSUME BatchInv, Pool!Finish
  PROVE  BatchInv'
<1>1. /\ Pool!In({"queued"}) = {} \/ (workers <= 1 /\ Pool!In({"stopped"}) # {})
      /\ Pool!Busy = {}
      /\ outcome' = (IF Pool!In({"stopped"}) # {} THEN "interrupt" ELSE Pool!Held)
      /\ workers' = workers /\ end' = end /\ item' = item /\ lock' = lock /\ done' = done
      /\ reports' = reports /\ failures' = failures /\ errors' = errors
  BY DEF Pool!Finish
<1>2. OverOk'
  BY <1>1 DEF OverOk, Pool!Busy, Pool!In, Pool!Held, Pool!EveryItemAttempted
<1>3. BatchType' /\ LockHeld' /\ ReportsOk' /\ Counted' = Counted
  BY <1>1 DEF BatchInv, BatchType, LockHeld, ReportsOk, Pool!ProgressGrows, Counted
<1>4. \A j \in Pool!Index : FailureOk(j)'
  BY <1>1 DEF BatchInv, FailureOk
<1> QED  BY <1>1, <1>2, <1>3, <1>4 DEF BatchInv

LEMMA BatchStep ==
  ASSUME BatchInv, [Pool!Next]_Pool!vars
  PROVE  BatchInv'
<1>1. CASE UNCHANGED Pool!vars
  <2>1. /\ workers' = workers /\ end' = end /\ item' = item /\ lock' = lock /\ done' = done
        /\ reports' = reports /\ failures' = failures /\ errors' = errors /\ outcome' = outcome
    BY <1>1 DEF Pool!vars
  <2> QED  BY <2>1 DEF BatchInv, BatchType, LockHeld, ReportsOk, OverOk, Counted, FailureOk,
                       Pool!ProgressGrows, Pool!Busy, Pool!In, Pool!Held, Pool!EveryItemAttempted
<1> QED  BY <1>1, TakeStep, WorkStep, CountStep, ReportStep, FinishStep DEF Pool!Next

LEMMA SameBatchCardinality == \A S : Pool!Cardinality(S) = Cardinality(S)
BY DEF Pool!Cardinality, Cardinality

\* Told once is told at one place.
LEMMA OnceIsOne ==
  ASSUME NEW seq, NEW i, Once(seq, i)
  PROVE  Cardinality({k \in DOMAIN seq : seq[k] = i}) = 1
<1>1. PICK k \in DOMAIN seq : seq[k] = i /\ \A m \in DOMAIN seq : seq[m] = i => m = k
  BY DEF Once
<1>2. {m \in DOMAIN seq : seq[m] = i} = {k}
  BY <1>1
<1> QED  BY <1>2, FS_Singleton

\* What is raised is what is held.
LEMMA RaisesHeld ==
  ASSUME BatchInv
  PROVE  /\ Pool!Held = "returned" <=> Pool!ToSet(errors) = {}
         /\ Pool!Held = "group" <=> Cardinality(Pool!ToSet(errors)) > 1
<1> DEFINE n == Len(errors)
           held == Pool!ToSet(errors)
<1>1. errors \in Seq(Pool!Index) /\ n \in Nat /\ DOMAIN errors = 1 .. n
  BY DEF BatchInv, BatchType
<1>2. held = {errors[k] : k \in 1 .. n} /\ held \subseteq Pool!Index
  BY <1>1 DEF Pool!ToSet
<1>3. IsFiniteSet(held) /\ Cardinality(held) \in Nat
  BY <1>2, CountedFinite, FS_Subset, FS_CardinalityType
<1>4. \A k, m \in 1 .. n : errors[k] = errors[m] => k = m
  BY <1>1 DEF BatchInv, FailureOk, Once, Never
<1>5. Pool!Held = CASE n = 0 -> "returned" [] n = 1 -> "raised" [] OTHER -> "group"
  BY <1>1 DEF Pool!Held
<1> HIDE DEF n, held
<1>6. CASE n = 0
  <2>1. held = {}
    BY <1>2, <1>6
  <2> QED  BY <1>5, <1>6, <2>1, FS_EmptySet DEF held
<1>7. CASE n = 1
  <2>1. held = {errors[1]}
    BY <1>2, <1>7
  <2>2. Cardinality(held) = 1
    BY <2>1, FS_Singleton
  <2> QED  BY <1>5, <1>7, <2>1, <2>2 DEF held
<1>8. CASE n \notin {0, 1}
  <2>1. 1 \in 1 .. n /\ 2 \in 1 .. n
    BY <1>1, <1>8
  <2>2. errors[1] \in held /\ errors[2] \in held /\ errors[1] # errors[2]
    BY <1>2, <1>4, <2>1
  <2>3. Cardinality(held) # 0 /\ Cardinality(held) # 1
    BY <1>3, <2>2, FS_EmptySet, FS_Singleton
  <2> QED  BY <1>3, <1>5, <1>8, <2>2, <2>3 DEF held
<1> QED  BY <1>6, <1>7, <1>8

LEMMA BatchSound ==
  ASSUME BatchInv
  PROVE  Pool!BatchAccounts
<1>1. Pool!ProgressGrows /\ Pool!EveryItemAttempted
  BY DEF BatchInv, ReportsOk, OverOk, Pool!EveryItemAttempted
<1>2. ASSUME outcome # "none"
      PROVE  /\ \A i \in Pool!In({"done", "error"}) :
                  /\ end[i] = "caught" => Once(failures, i)
                  /\ end[i] = "uncaught" => Once(errors, i)
             /\ Counted = {i \in Pool!In({"done", "error"}) : end[i] # "uncaught"}
             /\ outcome # "interrupt" => outcome = Pool!Held
  <2>1. \A i \in Pool!Index : item[i] # "report"
    BY <1>2 DEF BatchInv, OverOk, Pool!Busy, Pool!In
  <2>2. \A i \in Pool!In({"done", "error"}) :
          /\ end[i] = "caught" => Once(failures, i)
          /\ end[i] = "uncaught" => Once(errors, i)
    BY DEF BatchInv, FailureOk, Pool!In
  <2>3. \A i \in Pool!Index : item[i] = "done" => end[i] # "uncaught"
    BY DEF BatchInv, FailureOk
  <2>4. Counted = {i \in Pool!In({"done", "error"}) : end[i] # "uncaught"}
    BY <2>1, <2>3 DEF Counted, Pool!In
  <2> QED  BY <1>2, <2>2, <2>4 DEF BatchInv, OverOk
<1>3. done = Cardinality(Counted)
  BY DEF BatchInv
<1>4. Pool!FailuresAccounted
  BY <1>2, <1>3, OnceIsOne, RaisesHeld, SameBatchCardinality DEF Pool!FailuresAccounted
<1> QED  BY <1>1, <1>4 DEF Pool!BatchAccounts

-----------------------------------------------------------------------------
(* The composition. *)

\* A behaviour of the composition is one of each part, but for the fairness, which is of the part
\* that runs.
THEOREM EachBackgroundPartRunsAlone ==
  BackgroundSpec => /\ Init /\ [][Next]_vars
                    /\ Pool!Init /\ [][Pool!Next]_Pool!vars
<1>1. BackgroundInit => Init /\ Pool!Init
  BY DEF BackgroundInit
<1>2. [BackgroundNext]_backgroundVars => [Next]_vars /\ [Pool!Next]_Pool!vars
  BY DEF BackgroundNext, backgroundVars, vars, poolVars, Pool!vars
<1> QED  BY <1>1, <1>2, PTL DEF BackgroundSpec

\* BatchAccounts (parallel.py): whenever a batch is over, every item was attempted, unless a loop
\* was interrupted; each failure is recorded or held, once; the count is that of the items fn came
\* back from; what is held is raised, alone or as a group; and progress only grows: for any number
\* of items, workers and failures, and whether or not the progress callback raises.
THEOREM BatchesLoseNothing ==
  BackgroundSpec => []Pool!BatchAccounts
<1>1. Pool!Init => BatchInv
  BY BatchStart
<1>2. BatchInv => Pool!BatchAccounts
  BY BatchSound
<1>3. BatchInv /\ [Pool!Next]_Pool!vars => BatchInv'
  BY BatchStep
<1> QED  BY <1>1, <1>2, <1>3, EachBackgroundPartRunsAlone, PTL
=============================================================================
