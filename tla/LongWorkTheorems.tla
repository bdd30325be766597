--------------------------- MODULE LongWorkTheorems ---------------------------
(***************************************************************************)
(* Long work that is stopped, killed and taken up again is taken up where  *)
(* it was left, for any number of workers and at any bounds: the steps of  *)
(* a job, a pipeline of snapshots, fetches through a shared throttle,      *)
(* images made local, links and articles.  Each part has an inductive      *)
(* invariant of its own; the last section puts them together for the       *)
(* composition.                                                            *)
(***************************************************************************)
EXTENDS LongWork, Sequences, FiniteSetTheorems, WellFoundedInduction, TLAPS

-----------------------------------------------------------------------------
(* The steps of a job (JobSteps), for any runners, processes and plan and any *)
(* number of runs, takeovers and crashes.                                     *)

\* An index that was read is at most the next one: rows are only added.
IndexRead == \A r \in Runners : At(r, "insert") => runner[r].index <= Cardinality(steps)

StepsInv ==
  /\ TypeOK
  /\ IsFiniteSet(steps)
  /\ IndicesDense
  /\ IndexRead
  /\ BodyOwnsRow
  /\ ProgressTallies

-----------------------------------------------------------------------------
(* The index given to the next step. *)

\* start_step reads the number of the rows, also when there are none.
LEMMA NextIndexIsCount ==
  ASSUME IsFiniteSet(steps), IndicesDense
  PROVE  NextIndex = Cardinality(steps)
<1> DEFINE n == Cardinality(steps)
<1>1. n \in Nat /\ Indices = 0..(n - 1)
  BY FS_CardinalityType DEF IndicesDense
<1>2. CASE n = 0
  BY <1>1, <1>2 DEF NextIndex
<1>3. CASE n # 0
  <2>1. n - 1 \in 0..(n - 1) /\ \A y \in 0..(n - 1) : n - 1 >= y
    BY <1>1, <1>3
  <2>2. Max(0..(n - 1)) \in 0..(n - 1) /\ \A y \in 0..(n - 1) : Max(0..(n - 1)) >= y
    BY <2>1 DEF Max
  <2>3. Max(0..(n - 1)) = n - 1
    BY <1>1, <2>1, <2>2
  <2> QED  BY <1>1, <1>3, <2>1, <2>3 DEF NextIndex
<1> QED  BY <1>2, <1>3

-----------------------------------------------------------------------------
(* Types. *)

LEMMA TypeStep ==
  ASSUME StepsInv, [Next]_vars
  PROVE  TypeOK'
<1> USE DEF Pcs, Outcomes, Names
<1>1. TypeOK /\ BodyOwnsRow /\ IsFiniteSet(steps)
  BY DEF StepsInv
<1>2. NextIndex \in Nat
  BY NextIndexIsCount, FS_CardinalityType DEF StepsInv
<1>3. NSteps \in Nat /\ 1 \in 1..(NSteps + 1) /\ IdleFrame \in Frame /\ IdleFrame.pc = "idle"
  BY PlanAssumption DEF IdleFrame, Frame
<1>4. ASSUME NEW r \in Runners, Advance(r), runner[r].name \in Names
      PROVE  /\ runner' \in [Runners -> Frame]
             /\ \A q \in Runners : runner'[q].pc \in {"find", "lock", "insert", "body"}
                                     => runner'[q].name \in Names
  <2>1. /\ Following(runner[r]) \in Frame
        /\ Following(runner[r]).pc \in {"find", "lock", "insert", "body"}
             => Following(runner[r]).name \in Names
    <3>1. runner[r] \in Frame /\ runner[r].name \in Nat
      BY <1>1, <1>3, <1>4 DEF TypeOK
    <3>2. runner[r].name + 1 \in 1..(NSteps + 1)
      BY <1>3, <1>4, <3>1
    <3>3. /\ Following(runner[r]).name = runner[r].name + 1
          /\ Following(runner[r]).pc = IF runner[r].name < NSteps THEN "find" ELSE "done"
          /\ Following(runner[r]) \in Frame
      BY <3>1, <3>2 DEF Frame, Following
    <3> QED  BY <1>3, <1>4, <3>1, <3>3
  <2> QED  BY <1>1, <1>4, <2>1 DEF TypeOK, Advance
<1>5. ASSUME NEW r \in Runners, NEW pc \in Pcs, Goto(r, pc),
             pc \in {"find", "lock", "insert", "body"} => runner[r].name \in Names
      PROVE  /\ runner' \in [Runners -> Frame]
             /\ \A q \in Runners : runner'[q].pc \in {"find", "lock", "insert", "body"}
                                     => runner'[q].name \in Names
  BY <1>1, <1>5 DEF TypeOK, Goto, Frame
<1>6. ASSUME NEW r \in Runners, ToIdle(r)
      PROVE  /\ runner' \in [Runners -> Frame]
             /\ \A q \in Runners : runner'[q].pc \in {"find", "lock", "insert", "body"}
                                     => runner'[q].name \in Names
  BY <1>1, <1>3, <1>6 DEF TypeOK, ToIdle
<1>7. ASSUME NEW r \in Runners, Open(r) PROVE TypeOK'
  <2>1. count' \in [{"runs", "takeovers", "crashes"} -> Nat]
    BY <1>1, <1>7 DEF Open, Spend, TypeOK
  <2>2. /\ runner' \in [Runners -> Frame]
        /\ \A q \in Runners : runner'[q].pc \in {"find", "lock", "insert", "body"}
                                => runner'[q].name \in Names
    <3> DEFINE f == [IdleFrame EXCEPT !.pc = IF NSteps = 0 THEN "done" ELSE "find"]
    <3>1. f \in Frame /\ (f.pc = "find" => f.name \in Names) /\ f.pc \in {"find", "done"}
      BY <1>3 DEF Frame, IdleFrame
    <3>2. runner' = [runner EXCEPT ![r] = f]
      BY <1>7 DEF Open
    <3> QED  BY <1>1, <3>1, <3>2 DEF TypeOK
  <2> QED  BY <1>1, <1>7, <2>1, <2>2 DEF Open, TypeOK
<1>8. ASSUME NEW r \in Runners, Find(r) PROVE TypeOK'
  BY <1>1, <1>4, <1>5, <1>8 DEF Find, TypeOK, At
<1>9. ASSUME NEW r \in Runners, StartRead(r) PROVE TypeOK'
  <2>1. ProcOf[r] \in Procs
    BY ProcAssumption
  <2> QED  BY <1>1, <1>2, <1>9, <2>1 DEF StartRead, TypeOK, At, Frame
<1>10. ASSUME NEW r \in Runners, StartWrite(r) PROVE TypeOK'
  <2>1. runner[r].index \in Nat /\ runner[r].name \in Names
    BY <1>1, <1>10 DEF StartWrite, TypeOK, At, Frame
  <2>2. steps' \subseteq Step
    BY <1>1, <1>10, <2>1 DEF StartWrite, TypeOK, Step
  <2> QED  BY <1>1, <1>5, <1>10, <2>1, <2>2 DEF StartWrite, TypeOK
<1>11. ASSUME NEW r \in Runners, NEW o \in Outcomes, At(r, "body"), FinishStep(r, o)
       PROVE  steps' \subseteq Step /\ progress' \in Nat
  <2>1. Own(r) \in steps
    BY <1>1, <1>11 DEF Own, BodyOwnsRow
  <2>2. [Own(r) EXCEPT !.status = o] \in Step
    BY <1>1, <1>11, <2>1 DEF TypeOK, Step
  <2> QED  BY <1>1, <1>11, <2>2 DEF FinishStep, TypeOK
<1>12. ASSUME NEW r \in Runners, Finish(r) PROVE TypeOK'
  <2>1. runner[r].name \in Names
    BY <1>1, <1>12 DEF Finish, TypeOK, At
  <2>2. PICK o \in Outcomes : FinishStep(r, o) /\ (Advance(r) \/ Goto(r, "fail"))
    BY <1>12 DEF Finish
  <2>3. steps' \subseteq Step /\ progress' \in Nat
    BY <1>11, <1>12, <2>2 DEF Finish
  <2> QED  BY <1>1, <1>4, <1>5, <1>12, <2>1, <2>2, <2>3 DEF Finish, TypeOK
<1>13. ASSUME NEW r \in Runners, Done(r) \/ Fail(r) PROVE TypeOK'
  BY <1>1, <1>5, <1>6, <1>13 DEF Done, Fail, TypeOK
<1>14. ASSUME NEW p \in Procs, Crash(p) PROVE TypeOK'
  BY <1>1, <1>3, <1>14 DEF Crash, Spend, TypeOK
<1>15. CASE Requeue
  BY <1>1, <1>15 DEF Requeue, TypeOK
<1>16. CASE UNCHANGED vars
  BY <1>1, <1>16 DEF vars, TypeOK
<1> QED
  BY <1>7, <1>8, <1>9, <1>10, <1>12, <1>13, <1>14, <1>15, <1>16 DEF Next

-----------------------------------------------------------------------------
(* Rows. *)

\* What a step does to rows and frames: it leaves the rows alone, and nobody enters
\* a block; or it inserts the next row and its runner enters the block; or the
\* runner finishes its own row and leaves the block.
LEMMA RowsStep ==
  ASSUME StepsInv, [Next]_vars
  PROVE  \/ /\ UNCHANGED <<steps, progress>>
            /\ \A r \in Runners :
                 \/ runner'[r] = runner[r]
                 \/ runner'[r].pc = "insert" /\ runner'[r].index = Cardinality(steps)
                 \/ runner'[r].pc \notin {"insert", "body"}
         \/ \E r \in Runners :
              /\ At(r, "insert") /\ ~Collides(r)
              /\ steps' = steps \cup {[index |-> runner[r].index, name |-> runner[r].name,
                                       status |-> "running"]}
              /\ Goto(r, "body")
              /\ UNCHANGED progress
         \/ \E r \in Runners, o \in Outcomes :
              /\ At(r, "body") /\ FinishStep(r, o)
              /\ \A q \in Runners : \/ q # r /\ runner'[q] = runner[q]
                                    \/ q = r /\ runner'[q].pc \notin {"insert", "body"}
<1>1. runner \in [Runners -> Frame] /\ NextIndex = Cardinality(steps)
  BY NextIndexIsCount DEF StepsInv, TypeOK
<1>2. ASSUME NEW r \in Runners, StartWrite(r)
      PROVE  \/ UNCHANGED <<steps, progress>> /\ Goto(r, "fail")
             \/ /\ At(r, "insert") /\ ~Collides(r)
                /\ steps' = steps \cup {[index |-> runner[r].index, name |-> runner[r].name,
                                         status |-> "running"]}
                /\ Goto(r, "body")
                /\ UNCHANGED progress
  BY <1>2 DEF StartWrite
<1>3. ASSUME NEW r \in Runners, Finish(r)
      PROVE  \E o \in Outcomes :
               /\ At(r, "body") /\ FinishStep(r, o)
               /\ \A q \in Runners : \/ q # r /\ runner'[q] = runner[q]
                                     \/ q = r /\ runner'[q].pc \notin {"insert", "body"}
  <2>1. /\ Following(runner[r]).pc \in {"find", "done"}
        /\ [runner[r] EXCEPT !.pc = "fail"].pc = "fail"
    BY <1>1 DEF Following, Frame
  <2>2. ASSUME Advance(r) \/ Goto(r, "fail")
        PROVE  \A q \in Runners : \/ q # r /\ runner'[q] = runner[q]
                                  \/ q = r /\ runner'[q].pc \notin {"insert", "body"}
    BY <1>1, <2>1, <2>2 DEF Advance, Goto
  <2>3. PICK o \in Outcomes : FinishStep(r, o) /\ (Advance(r) \/ Goto(r, "fail"))
    BY <1>3 DEF Finish, Outcomes
  <2> QED  BY <1>3, <2>2, <2>3 DEF Finish
<1>4. ASSUME NEW r \in Runners, Open(r) \/ Find(r) \/ StartRead(r) \/ Done(r) \/ Fail(r)
      PROVE  /\ UNCHANGED <<steps, progress>>
             /\ \A q \in Runners :
                  \/ runner'[q] = runner[q]
                  \/ runner'[q].pc = "insert" /\ runner'[q].index = Cardinality(steps)
                  \/ runner'[q].pc \notin {"insert", "body"}
  <2>1. UNCHANGED <<steps, progress>>
    BY <1>4 DEF Open, Find, StartRead, Done, Fail
  <2>2. \A q \in Runners \ {r} : runner'[q] = runner[q]
    BY <1>1, <1>4 DEF Open, Find, StartRead, Done, Fail, Advance, Goto, ToIdle
  <2>3. Following(runner[r]).pc \in {"find", "done"}
    BY <1>1 DEF Following, Frame
  <2>4. \/ runner'[r].pc \notin {"insert", "body"}
        \/ runner'[r].pc = "insert" /\ runner'[r].index = Cardinality(steps)
    <3>1. CASE Open(r)
      BY <1>1, <3>1 DEF Open, IdleFrame
    <3>2. CASE Find(r)
      BY <1>1, <2>3, <3>2 DEF Find, Advance, Goto, Frame
    <3>3. CASE StartRead(r)
      BY <1>1, <3>3 DEF StartRead, Frame
    <3>4. CASE Done(r) \/ Fail(r)
      BY <1>1, <3>4 DEF Done, Fail, Goto, ToIdle, IdleFrame, Frame
    <3> QED  BY <1>4, <3>1, <3>2, <3>3, <3>4
  <2> QED  BY <2>1, <2>2, <2>4
<1>5. ASSUME NEW p \in Procs, Crash(p)
      PROVE  /\ UNCHANGED <<steps, progress>>
             /\ \A q \in Runners : runner'[q] = runner[q] \/ runner'[q].pc = "idle"
  BY <1>1, <1>5 DEF Crash, IdleFrame
<1>6. Requeue \/ UNCHANGED vars => UNCHANGED <<steps, progress, runner>>
  BY DEF Requeue, vars
<1>7. ASSUME NEW r \in Runners, Goto(r, "fail")
      PROVE  \A q \in Runners : runner'[q] = runner[q] \/ runner'[q].pc = "fail"
  BY <1>1, <1>7 DEF Goto
<1> QED  BY <1>2, <1>3, <1>4, <1>5, <1>6, <1>7 DEF Next

\* The row invariants are kept.
LEMMA InvStep ==
  ASSUME StepsInv, [Next]_vars
  PROVE  StepsInv'
<1> DEFINE n == Cardinality(steps)
           done == {s \in steps : s.status \in Outcomes}
<1>1. /\ TypeOK /\ IsFiniteSet(steps) /\ IndicesDense /\ IndexRead /\ BodyOwnsRow
      /\ ProgressTallies
      /\ steps \subseteq Step /\ runner \in [Runners -> Frame]
      /\ AutoTrack \in BOOLEAN
  BY PlanAssumption DEF StepsInv, TypeOK
<1>2. TypeOK'
  BY TypeStep
<1>3. n \in Nat /\ Indices = 0..(n - 1)
      /\ \A s, t \in steps : s.index = t.index => s = t
  BY <1>1, FS_CardinalityType DEF IndicesDense
<1>4. IsFiniteSet(done) /\ (AutoTrack => progress = Cardinality(done))
  BY <1>1, FS_Subset DEF ProgressTallies
<1>5. CASE /\ UNCHANGED <<steps, progress>>
           /\ \A r \in Runners :
                \/ runner'[r] = runner[r]
                \/ runner'[r].pc = "insert" /\ runner'[r].index = n
                \/ runner'[r].pc \notin {"insert", "body"}
  <2>1. IsFiniteSet(steps)' /\ IndicesDense' /\ ProgressTallies'
    BY <1>1, <1>5 DEF IndicesDense, Indices, ProgressTallies
  <2>2. IndexRead'
    BY <1>1, <1>3, <1>5 DEF IndexRead, At
  <2>3. BodyOwnsRow'
    BY <1>1, <1>5 DEF BodyOwnsRow, At
  <2> QED  BY <1>2, <2>1, <2>2, <2>3 DEF StepsInv
<1>6. ASSUME NEW r \in Runners, At(r, "insert"), ~Collides(r),
             steps' = steps \cup {[index |-> runner[r].index, name |-> runner[r].name,
                                   status |-> "running"]},
             Goto(r, "body"), UNCHANGED progress
      PROVE  StepsInv'
  <2> DEFINE new == [index |-> runner[r].index, name |-> runner[r].name, status |-> "running"]
  <2>1. runner[r].index = n
    <3>1. runner[r].index \in Nat /\ runner[r].index <= n /\ runner[r].index \notin 0..(n - 1)
      BY <1>1, <1>3, <1>6 DEF IndexRead, Collides, Frame
    <3> QED  BY <1>3, <3>1
  <2>2. new \notin steps /\ \A s \in steps : s.index # n
    BY <1>3, <1>6, <2>1 DEF Collides, Indices
  <2>3. IsFiniteSet(steps') /\ Cardinality(steps') = n + 1
    BY <1>1, <1>6, <2>2, FS_AddElement
  <2>4. IndicesDense'
    <3>1. Indices' = Indices \cup {n}
      <4>1. new.index = n /\ steps' = steps \cup {new}
        BY <1>6, <2>1
      <4> QED  BY <4>1 DEF Indices
    <3>2. Indices' = 0..((n + 1) - 1)
      BY <1>3, <3>1
    <3>3. \A s, t \in steps' : s.index = t.index => s = t
      BY <1>3, <1>6, <2>1, <2>2
    <3> QED  BY <2>3, <3>2, <3>3 DEF IndicesDense
  <2>5. IndexRead'
    BY <1>1, <1>3, <1>6, <2>3 DEF IndexRead, Goto, At, Frame
  <2>6. BodyOwnsRow'
    <3>1. \A q \in Runners : At(q, "body")' => q = r \/ (At(q, "body") /\ runner'[q] = runner[q])
      BY <1>1, <1>6 DEF Goto, At
    <3>2. runner'[r].index = n /\ runner'[r].name = runner[r].name
      BY <1>1, <1>6, <2>1 DEF Goto, Frame
    <3>3. \A q \in Runners : At(q, "body") => runner[q].index # n
      BY <1>1, <2>2 DEF BodyOwnsRow
    <3> QED  BY <1>1, <1>6, <2>1, <3>1, <3>2, <3>3 DEF BodyOwnsRow
  <2>7. ProgressTallies'
    <3>1. done' = done
      BY <1>6 DEF Outcomes
    <3> QED  BY <1>4, <1>6, <3>1 DEF ProgressTallies
  <2> QED  BY <1>2, <2>3, <2>4, <2>5, <2>6, <2>7 DEF StepsInv
<1>7. ASSUME NEW r \in Runners, NEW o \in Outcomes, At(r, "body"), FinishStep(r, o),
             \A q \in Runners : \/ q # r /\ runner'[q] = runner[q]
                                \/ q = r /\ runner'[q].pc \notin {"insert", "body"}
      PROVE  StepsInv'
  <2> DEFINE old == Own(r)
             new == [Own(r) EXCEPT !.status = o]
  <2>1. /\ old = [index |-> runner[r].index, name |-> runner[r].name, status |-> "running"]
        /\ old \in steps
    BY <1>1, <1>3, <1>7 DEF Own, BodyOwnsRow
  <2>2. /\ new.index = old.index /\ new.status = o /\ o # "running"
        /\ new \notin steps /\ old.status \notin Outcomes
    BY <1>3, <1>7, <2>1 DEF Outcomes
  <2>3. steps' = (steps \ {old}) \cup {new}
    BY <1>7 DEF FinishStep
  <2>4. IsFiniteSet(steps') /\ Cardinality(steps') = n
    <3>1. IsFiniteSet(steps \ {old}) /\ Cardinality(steps \ {old}) = n - 1
      BY <1>1, <2>1, FS_RemoveElement
    <3>2. /\ IsFiniteSet((steps \ {old}) \cup {new})
          /\ Cardinality((steps \ {old}) \cup {new}) = (n - 1) + 1
      BY <2>2, <3>1, FS_AddElement
    <3> QED  BY <1>3, <2>3, <3>2
  <2>5. IndicesDense'
    <3>1. Indices' = Indices
      BY <2>1, <2>2, <2>3 DEF Indices
    <3>2. \A s, t \in steps' : s.index = t.index => s = t
      BY <1>3, <2>1, <2>2, <2>3
    <3> QED  BY <1>3, <2>4, <3>1, <3>2 DEF IndicesDense
  <2>6. IndexRead'
    BY <1>1, <1>7, <2>4 DEF IndexRead, At
  <2>7. BodyOwnsRow'
    <3>1. \A q \in Runners : At(q, "body")' => q # r /\ At(q, "body") /\ runner'[q] = runner[q]
      BY <1>7 DEF At
    <3>2. \A q \in Runners : At(q, "body") /\ q # r => runner[q].index # runner[r].index
      BY <1>1, <1>7 DEF BodyOwnsRow
    <3> QED  BY <1>1, <2>1, <2>3, <3>1, <3>2 DEF BodyOwnsRow
  <2>8. ProgressTallies'
    <3>1. done' = done \cup {new} /\ new \notin done
      BY <1>7, <2>1, <2>2, <2>3
    <3>2. Cardinality(done') = Cardinality(done) + 1
      BY <1>4, <3>1, FS_AddElement
    <3> QED  BY <1>4, <1>7, <3>2 DEF ProgressTallies, FinishStep
  <2> QED  BY <1>2, <2>4, <2>5, <2>6, <2>7, <2>8 DEF StepsInv
<1> QED  BY <1>5, <1>6, <1>7, RowsStep

LEMMA StepsInit == Init => StepsInv
<1> SUFFICES ASSUME Init PROVE StepsInv
  OBVIOUS
<1>1. /\ IdleFrame \in Frame /\ IdleFrame.pc = "idle"
      /\ \A r \in Runners : runner[r] = IdleFrame
  BY PlanAssumption DEF Init, IdleFrame, Frame, Pcs
<1>2. TypeOK
  BY <1>1 DEF Init, TypeOK
<1>3. steps = {} /\ IsFiniteSet(steps) /\ Cardinality(steps) = 0
  BY FS_EmptySet DEF Init
<1>4. IndicesDense
  BY <1>3 DEF IndicesDense, Indices
<1>5. IndexRead /\ BodyOwnsRow
  BY <1>1 DEF IndexRead, BodyOwnsRow, At
<1>6. ProgressTallies
  <2>1. {s \in steps : s.status \in Outcomes} = {}
    BY <1>3
  <2> QED  BY <2>1, FS_EmptySet DEF Init, ProgressTallies
<1> QED  BY <1>2, <1>3, <1>4, <1>5, <1>6 DEF StepsInv

\* The invariant holds initially and is kept.
LEMMA StepsInvariant == Spec => []StepsInv
<1>1. Init => StepsInv
  BY StepsInit
<1>2. StepsInv /\ [Next]_vars => StepsInv'
  BY InvStep
<1> QED  BY <1>1, <1>2, PTL DEF Spec

\* The steps of a job are numbered without gaps or repetitions (start_step).
THEOREM NumberedDensely == Spec => []IndicesDense
  BY StepsInvariant, PTL DEF StepsInv

\* Whoever runs a step has a row of its own for it (Job.step).
THEOREM StepsAreOwned == Spec => []BodyOwnsRow
  BY StepsInvariant, PTL DEF StepsInv

\* auto_track_progress counts every finished row exactly once (finish_step).
THEOREM ProgressIsExact == Spec => []ProgressTallies
  BY StepsInvariant, PTL DEF StepsInv

-----------------------------------------------------------------------------
(* The plan. *)

\* Every step of the plan before n has finished once.
Covered(n) == \A m \in Names : m < n => \E s \in Named(m) : s.status \in Outcomes

\* A runner comes to a step when those before it have finished, in whichever run.
Followed(r) ==
  /\ ~At(r, "idle") => Covered(runner[r].name)
  /\ At(r, "done")  => Covered(NSteps + 1)

PlanFollowed == \A r \in Runners : Followed(r)

PlanInv == StepsInv /\ PlanFollowed /\ (status = "succeeded" => Covered(NSteps + 1))

\* A row that has finished stays.
LEMMA FinishedStay ==
  ASSUME StepsInv, [Next]_vars, NEW s \in steps, s.status \in Outcomes
  PROVE  s \in steps'
<1>1. ASSUME NEW r \in Runners, NEW o \in Outcomes, At(r, "body"), FinishStep(r, o)
      PROVE  s \in steps'
  <2>1. Own(r).status = "running"
    <3>1. /\ \A t, u \in steps : t.index = u.index => t = u
          /\ [index |-> runner[r].index, name |-> runner[r].name, status |-> "running"] \in steps
      BY <1>1 DEF StepsInv, BodyOwnsRow, IndicesDense
    <3>2. Own(r) = [index |-> runner[r].index, name |-> runner[r].name, status |-> "running"]
      BY <3>1 DEF Own
    <3> QED  BY <3>2
  <2>2. s # Own(r)
    BY <2>1 DEF Outcomes
  <2> QED  BY <1>1, <2>2 DEF FinishStep
<1> QED  BY <1>1, RowsStep

LEMMA CoveredStays ==
  ASSUME StepsInv, [Next]_vars, NEW n, Covered(n)
  PROVE  Covered(n)'
BY FinishedStay DEF Covered, Named

\* A runner that stays at its step stays covered.
LEMMA FollowedStays ==
  ASSUME StepsInv, [Next]_vars, NEW r \in Runners, Followed(r),
         runner'[r].name = runner[r].name,
         At(r, "idle") => At(r, "idle")', At(r, "done")' => At(r, "done")
  PROVE  Followed(r)'
<1>1. PICK n : n = runner[r].name
  OBVIOUS
<1>2. (Covered(n) => Covered(n)') /\ (Covered(NSteps + 1) => Covered(NSteps + 1)')
  BY CoveredStays
<1>3. Covered(runner[r].name)' <=> Covered(n)'
  BY <1>1 DEF Covered
<1> QED  BY <1>1, <1>2, <1>3 DEF Followed

\* A runner that goes on from a finished step is covered.
LEMMA FollowedOn ==
  ASSUME StepsInv, [Next]_vars, NEW r \in Runners, Followed(r), ~At(r, "idle"),
         NEW n \in Names, n = runner[r].name, Advance(r),
         \E s \in Named(n)' : s.status \in Outcomes
  PROVE  Followed(r)'
<1>1. runner \in [Runners -> Frame] /\ NSteps \in Nat
  BY PlanAssumption DEF StepsInv, TypeOK
<1>2. /\ runner'[r].name = n + 1
      /\ runner'[r].pc = IF n < NSteps THEN "find" ELSE "done"
  BY <1>1 DEF Advance, Following, Frame
<1>3. Covered(n)'
  BY CoveredStays DEF Followed
<1>4. Covered(n + 1)'
  BY <1>1, <1>3 DEF Covered, Names
<1>5. At(r, "done")' => n + 1 = NSteps + 1
  BY <1>1, <1>2 DEF At, Names
<1>6. Covered(runner[r].name)' <=> Covered(n + 1)'
  BY <1>2 DEF Covered
<1>7. At(r, "done")' => Covered(NSteps + 1)'
  BY <1>4, <1>5 DEF Covered
<1> QED  BY <1>4, <1>6, <1>7 DEF Followed

LEMMA FollowedStep ==
  ASSUME StepsInv, PlanFollowed, [Next]_vars
  PROVE  PlanFollowed'
<1>1. /\ TypeOK /\ BodyOwnsRow
      /\ \A s, t \in steps : s.index = t.index => s = t
      /\ runner \in [Runners -> Frame] /\ NSteps \in Nat
      /\ \A r \in Runners : Followed(r)
  BY PlanAssumption DEF StepsInv, TypeOK, PlanFollowed, IndicesDense
<1>2. ASSUME NEW r \in Runners, runner'[r] = runner[r]
      PROVE  Followed(r)'
  BY <1>1, <1>2, FollowedStays DEF At
<1>3. ASSUME NEW r \in Runners, NEW pc \in Pcs \ {"done"}, ~At(r, "idle"), Goto(r, pc)
      PROVE  Followed(r)'
  <2>1. runner'[r].name = runner[r].name /\ runner'[r].pc = pc
    BY <1>1, <1>3 DEF Goto, Frame
  <2> QED  BY <1>1, <1>3, <2>1, FollowedStays DEF At
<1>4. ASSUME NEW r \in Runners, runner'[r].pc = "idle"
      PROVE  Followed(r)'
  BY <1>4 DEF Followed, At
<1>5. ASSUME NEW r \in Runners, Open(r)
      PROVE  Followed(r)'
  <2>1. runner'[r].name = 1 /\ (runner'[r].pc = "done" => NSteps = 0)
    BY <1>1, <1>5 DEF Open, IdleFrame
  <2> QED  BY <1>1, <2>1 DEF Followed, Covered, Names, At
<1>6. ASSUME NEW r \in Runners, Find(r)
      PROVE  Followed(r)'
  <2>1. CASE Goto(r, "lock")
    BY <1>3, <1>6, <2>1 DEF Find, At, Pcs
  <2>2. CASE Advance(r) /\ Skips(runner[r].name)
    <3>1. PICK n \in Names : n = runner[r].name
      BY <1>1, <1>6 DEF Find, At, TypeOK
    <3>2. PICK s \in Named(n) : s.status \in Outcomes
      BY <2>2, <3>1 DEF Skips, Latest, Outcomes
    <3>3. steps' = steps
      BY <1>6 DEF Find
    <3>4. \E t \in Named(n)' : t.status \in Outcomes
      BY <3>2, <3>3 DEF Named
    <3> QED  BY <1>1, <1>6, <2>2, <3>1, <3>4, FollowedOn DEF Find, At
  <2> QED  BY <1>6, <2>1, <2>2 DEF Find
<1>7. ASSUME NEW r \in Runners, StartRead(r)
      PROVE  Followed(r)'
  <2>1. runner'[r].name = runner[r].name /\ runner'[r].pc = "insert" /\ runner[r].pc = "lock"
    BY <1>1, <1>7 DEF StartRead, At, Frame
  <2> QED  BY <1>1, <2>1, FollowedStays DEF At
<1>8. ASSUME NEW r \in Runners, StartWrite(r)
      PROVE  Followed(r)'
  BY <1>3, <1>8 DEF StartWrite, At, Pcs
<1>9. ASSUME NEW r \in Runners, Finish(r)
      PROVE  Followed(r)'
  <2>1. CASE Goto(r, "fail")
    BY <1>3, <1>9, <2>1 DEF Finish, At, Pcs
  <2>2. ASSUME NEW o \in Outcomes, FinishStep(r, o), Advance(r)
        PROVE  Followed(r)'
    <3>1. PICK n \in Names : n = runner[r].name
      BY <1>1, <1>9 DEF Finish, At, TypeOK
    <3>2. Own(r) = [index |-> runner[r].index, name |-> runner[r].name, status |-> "running"]
      BY <1>1, <1>9 DEF Finish, Own, BodyOwnsRow
    <3>3. [Own(r) EXCEPT !.status = o] \in steps'
      BY <2>2 DEF FinishStep
    <3>4. [Own(r) EXCEPT !.status = o].name = n /\ [Own(r) EXCEPT !.status = o].status = o
      BY <3>1, <3>2
    <3>5. \E t \in Named(n)' : t.status \in Outcomes
      BY <2>2, <3>3, <3>4 DEF Named
    <3> QED  BY <1>1, <1>9, <2>2, <3>1, <3>5, FollowedOn DEF Finish, At
  <2> QED  BY <1>9, <2>1, <2>2 DEF Finish
<1>10. ASSUME NEW r \in Runners, Done(r) \/ Fail(r)
       PROVE  Followed(r)'
  <2>1. CASE Goto(r, "fail") /\ At(r, "done")
    BY <1>3, <2>1 DEF At, Pcs
  <2>2. CASE ToIdle(r)
    BY <1>1, <1>4, <2>2 DEF ToIdle, IdleFrame
  <2> QED  BY <1>10, <2>1, <2>2 DEF Done, Fail
<1>11. ASSUME NEW r \in Runners,
              \/ Open(r) \/ Find(r) \/ StartRead(r) \/ StartWrite(r)
              \/ Finish(r) \/ Done(r) \/ Fail(r)
       PROVE  PlanFollowed'
  <2>1. \A q \in Runners \ {r} : runner'[q] = runner[q]
    BY <1>1, <1>11 DEF Open, Find, StartRead, StartWrite, Finish, Done, Fail, Advance, Goto, ToIdle
  <2>2. Followed(r)'
    BY <1>5, <1>6, <1>7, <1>8, <1>9, <1>10, <1>11
  <2> QED  BY <1>2, <2>1, <2>2 DEF PlanFollowed
<1>12. ASSUME NEW p \in Procs, Crash(p)
       PROVE  PlanFollowed'
  <2>1. \A r \in Runners : runner'[r] = runner[r] \/ runner'[r].pc = "idle"
    BY <1>1, <1>12 DEF Crash, IdleFrame
  <2> QED  BY <1>2, <1>4, <2>1 DEF PlanFollowed
<1>13. CASE Requeue \/ UNCHANGED vars
  BY <1>2, <1>13 DEF Requeue, vars, PlanFollowed
<1> QED  BY <1>11, <1>12, <1>13 DEF Next

LEMMA PlanStep ==
  ASSUME PlanInv, [Next]_vars
  PROVE  PlanInv'
<1>1. StepsInv' /\ PlanFollowed'
  BY InvStep, FollowedStep DEF PlanInv
<1>2. ASSUME status' = "succeeded"
      PROVE  Covered(NSteps + 1)
  <2>1. status = "succeeded" \/ \E r \in Runners : At(r, "done")
    BY <1>2 DEF Next, Open, Find, StartRead, StartWrite, Finish, Done, Fail, Crash, Requeue, vars
  <2> QED  BY <2>1 DEF PlanInv, PlanFollowed, Followed
<1>3. Covered(NSteps + 1) => Covered(NSteps + 1)'
  BY CoveredStays DEF PlanInv
<1> QED  BY <1>1, <1>2, <1>3 DEF PlanInv

\* SucceededIsComplete: a job that succeeded has finished every step of its plan, over
\* however many runs, crashes and overlapping runners.
THEOREM SuccessIsComplete == Spec => []SucceededIsComplete
<1>1. Init => PlanInv
  <2>1. Init => StepsInv
    BY StepsInit
  <2>2. Init => PlanFollowed /\ status # "succeeded"
    BY DEF Init, PlanFollowed, Followed, At, IdleFrame
  <2> QED  BY <2>1, <2>2 DEF PlanInv
<1>2. PlanInv => SucceededIsComplete
  <2>1. \A n \in Names : n < NSteps + 1
    BY PlanAssumption DEF Names
  <2> QED  BY <2>1 DEF PlanInv, SucceededIsComplete, Covered
<1> QED  BY <1>1, <1>2, PlanStep, PTL DEF Spec
\* RowsAreOwned: the rows of a job are numbered without gaps, and every runner in the
\* body of a step has a running row that no other runner writes.
THEOREM RowsOwned == Spec => []RowsAreOwned
BY NumberedDensely, StepsAreOwned, PTL DEF RowsAreOwned

\* ProgressIsTrue: the progress that a job shows is the number of its finished rows, and
\* a job that shows success has finished every step of its plan.
THEOREM ProgressTrue == Spec => []ProgressIsTrue
BY ProgressIsExact, SuccessIsComplete, PTL DEF ProgressIsTrue

-----------------------------------------------------------------------------
(* No step is started twice. *)

\* A runner between its SELECT and its INSERT has the lock of its process.
LockHeld == \A r \in Runners : At(r, "insert") => lock[ProcOf[r]] = r

Alone == \A q, r \in Active : q = r

\* Of a runner that is alone: its row is the last one; and it starts no step that succeeded.
Newest(r) ==
  /\ At(r, "body") => \A s \in steps : s.index <= runner[r].index
  /\ At(r, "lock") \/ At(r, "insert") =>
       \A s \in Named(runner[r].name) : s.status # "succeeded"

\* What find_step finds: a step that succeeded was not started again.
SucceededLast ==
  \A s, t \in steps : s.name = t.name /\ s.status = "succeeded" => t.index <= s.index

Orderly == Alone /\ (\A r \in Runners : Newest(r)) /\ SucceededLast

OnceInv == StepsInv /\ LockHeld /\ (count["takeovers"] = 0 => Orderly)

LEMMA LockStep ==
  ASSUME StepsInv, LockHeld, [Next]_vars
  PROVE  LockHeld'
<1>1. /\ runner \in [Runners -> Frame] /\ lock \in [Procs -> Runners \cup {None}]
      /\ ProcOf \in [Runners -> Procs] /\ None \notin Runners
  BY ProcAssumption, NoneAssumption DEF StepsInv, TypeOK
<1>2. ASSUME NEW r \in Runners, StartRead(r)
      PROVE  LockHeld'
  <2>1. /\ lock[ProcOf[r]] = None /\ lock' = [lock EXCEPT ![ProcOf[r]] = r]
        /\ \A q \in Runners \ {r} : runner'[q] = runner[q]
    BY <1>1, <1>2 DEF StartRead
  <2>2. \A q \in Runners \ {r} : At(q, "insert") => ProcOf[q] # ProcOf[r]
    BY <1>1, <2>1 DEF LockHeld
  <2> QED  BY <1>1, <2>1, <2>2 DEF LockHeld, At
<1>3. ASSUME NEW r \in Runners, StartWrite(r)
      PROVE  LockHeld'
  <2>1. /\ At(r, "insert") /\ lock' = [lock EXCEPT ![ProcOf[r]] = None]
        /\ runner'[r].pc \in {"fail", "body"}
        /\ \A q \in Runners \ {r} : runner'[q] = runner[q]
    BY <1>1, <1>3 DEF StartWrite, Goto, Frame
  <2>2. \A q \in Runners \ {r} : At(q, "insert") => ProcOf[q] # ProcOf[r]
    BY <2>1 DEF LockHeld
  <2> QED  BY <1>1, <2>1, <2>2 DEF LockHeld, At
<1>4. ASSUME NEW r \in Runners, Open(r) \/ Find(r) \/ Finish(r) \/ Done(r) \/ Fail(r)
      PROVE  LockHeld'
  <2>1. lock' = lock /\ \A q \in Runners \ {r} : runner'[q] = runner[q]
    BY <1>1, <1>4 DEF Open, Find, Finish, Done, Fail, Advance, Goto, ToIdle
  <2>2. runner'[r].pc # "insert"
    <3>1. Following(runner[r]).pc \in {"find", "done"} /\ IdleFrame.pc = "idle"
      BY <1>1 DEF Following, Frame, IdleFrame
    <3>2. Advance(r) \/ ToIdle(r) \/ Goto(r, "fail") \/ Goto(r, "lock") => runner'[r].pc # "insert"
      BY <1>1, <3>1 DEF Advance, ToIdle, Goto, Frame
    <3>3. Open(r) => runner'[r].pc # "insert"
      BY <1>1 DEF Open, IdleFrame
    <3> QED  BY <1>4, <3>2, <3>3 DEF Find, Finish, Done, Fail
  <2> QED  BY <2>1, <2>2 DEF LockHeld, At
<1>5. ASSUME NEW p \in Procs, Crash(p)
      PROVE  LockHeld'
  BY <1>1, <1>5 DEF Crash, IdleFrame, LockHeld, At
<1>6. CASE Requeue \/ UNCHANGED vars
  BY <1>6 DEF Requeue, vars, LockHeld, At
<1> QED  BY <1>2, <1>3, <1>4, <1>5, <1>6 DEF Next

\* The row that a runner inserts is the last one.
LEMMA InsertLast ==
  ASSUME StepsInv, NEW r \in Runners, At(r, "insert"), ~Collides(r)
  PROVE  \A s \in steps : s.index < runner[r].index
<1> DEFINE n == Cardinality(steps)
<1>1. n \in Nat /\ Indices = 0..(n - 1) /\ runner[r].index <= n /\ runner[r].index \in Nat
  BY FS_CardinalityType DEF StepsInv, IndicesDense, IndexRead, TypeOK, Frame
<1>2. runner[r].index = n
  BY <1>1 DEF Collides
<1>3. \A s \in steps : s.index \in 0..(n - 1)
  BY <1>1 DEF Indices
<1> HIDE DEF n
<1> QED  BY <1>1, <1>2, <1>3

\* A runner that is alone moves: the others stay idle.
LEMMA AloneMoves ==
  ASSUME Alone, NEW r \in Runners, ~At(r, "idle"),
         \A q \in Runners \ {r} : runner'[q] = runner[q]
  PROVE  Alone' /\ \A q \in Runners \ {r} : Newest(q)'
<1>1. \A q \in Runners \ {r} : At(q, "idle") /\ At(q, "idle")'
  BY DEF Alone, Active, At
<1> QED  BY <1>1 DEF Alone, Active, Newest, At

LEMMA OrderlyStep ==
  ASSUME StepsInv, Orderly, [Next]_vars, count'["takeovers"] = 0
  PROVE  Orderly'
<1>1. /\ runner \in [Runners -> Frame] /\ steps \subseteq Step /\ TypeOK /\ BodyOwnsRow
      /\ \A s, t \in steps : s.index = t.index => s = t
      /\ count \in [{"runs", "takeovers", "crashes"} -> Nat]
      /\ Alone /\ SucceededLast /\ \A r \in Runners : Newest(r)
  BY DEF StepsInv, TypeOK, IndicesDense, Orderly
<1>2. ASSUME NEW r \in Runners, ~At(r, "idle"),
             \A q \in Runners \ {r} : runner'[q] = runner[q],
             steps' = steps, Newest(r)'
      PROVE  Orderly'
  BY <1>1, <1>2, AloneMoves DEF Orderly, SucceededLast
<1>3. ASSUME NEW r \in Runners, runner'[r].pc \in {"idle", "find", "done", "fail"}
      PROVE  Newest(r)'
  BY <1>3 DEF Newest, At
<1>4. ASSUME NEW r \in Runners, Open(r)
      PROVE  Orderly'
  <2>1. Active = {} /\ steps' = steps
    BY <1>1, <1>4 DEF Open
  <2>2. /\ \A q \in Runners \ {r} : runner'[q] = runner[q] /\ At(q, "idle") /\ At(q, "idle")'
        /\ runner'[r].pc \in {"find", "done"}
    BY <1>1, <1>4, <2>1 DEF Open, Active, At, IdleFrame
  <2>3. Alone' /\ \A q \in Runners : Newest(q)'
    BY <1>3, <2>2 DEF Alone, Active, At
  <2> QED  BY <1>1, <2>1, <2>3 DEF Orderly, SucceededLast
<1>5. ASSUME NEW r \in Runners, Find(r)
      PROVE  Orderly'
  <2>1. /\ At(r, "find") /\ steps' = steps
        /\ \A q \in Runners \ {r} : runner'[q] = runner[q]
    BY <1>1, <1>5 DEF Find, Advance, Goto
  <2>2. CASE Advance(r)
    <3>1. runner'[r].pc \in {"find", "done"}
      BY <1>1, <2>2 DEF Advance, Following, Frame
    <3> QED  BY <1>2, <1>3, <2>1, <3>1 DEF At
  <2>3. CASE Goto(r, "lock") /\ ~Skips(runner[r].name)
    <3>1. runner'[r].name = runner[r].name /\ runner'[r].pc = "lock"
      BY <1>1, <2>3 DEF Goto, Frame
    <3>2. \A s \in Named(runner[r].name) : s.status # "succeeded"
      BY <1>1, <2>3 DEF Skips, Latest, Named, SucceededLast
    <3>3. Newest(r)'
      BY <2>1, <3>1, <3>2 DEF Newest, At, Named
    <3> QED  BY <1>2, <2>1, <3>3 DEF At
  <2> QED  BY <1>5, <2>2, <2>3 DEF Find
<1>6. ASSUME NEW r \in Runners, StartRead(r)
      PROVE  Orderly'
  <2>1. /\ At(r, "lock") /\ steps' = steps
        /\ runner'[r].name = runner[r].name /\ runner'[r].pc = "insert"
        /\ \A q \in Runners \ {r} : runner'[q] = runner[q]
    BY <1>1, <1>6 DEF StartRead, Frame
  <2>2. Newest(r)'
    BY <1>1, <2>1 DEF Newest, At, Named
  <2> QED  BY <1>2, <2>1, <2>2 DEF At
<1>7. ASSUME NEW r \in Runners, StartWrite(r)
      PROVE  Orderly'
  <2>1. At(r, "insert") /\ \A q \in Runners \ {r} : runner'[q] = runner[q]
    BY <1>1, <1>7 DEF StartWrite, Goto
  <2>2. CASE Goto(r, "fail") /\ steps' = steps
    <3>1. runner'[r].pc = "fail"
      BY <1>1, <2>2 DEF Goto, Frame
    <3> QED  BY <1>2, <1>3, <2>1, <2>2, <3>1 DEF At
  <2>3. CASE ~Collides(r) /\ Goto(r, "body")
    <3> DEFINE new == [index |-> runner[r].index, name |-> runner[r].name, status |-> "running"]
    <3>1. /\ steps' = steps \cup {new} /\ new.index = runner[r].index /\ new.name = runner[r].name
          /\ new.status = "running"
      BY <1>7, <2>3 DEF StartWrite
    <3>2. runner'[r].index = runner[r].index /\ runner'[r].pc = "body"
      BY <1>1, <2>3 DEF Goto, Frame
    <3>3. \A s \in steps : s.index < runner[r].index
      BY <2>1, <2>3, InsertLast
    <3>4. runner[r].index \in Nat /\ \A s \in steps : s.index \in Nat
      BY <1>1 DEF Frame, Step
    <3> HIDE DEF new
    <3>5. Newest(r)'
      BY <3>1, <3>2, <3>3, <3>4 DEF Newest, At
    <3>6. \A s \in steps : s.name = runner[r].name => s.status # "succeeded"
      BY <1>1, <2>1 DEF Newest, Named
    <3>7. SucceededLast'
      BY <1>1, <3>1, <3>3, <3>4, <3>6 DEF SucceededLast
    <3> QED  BY <1>1, <2>1, <3>5, <3>7, AloneMoves DEF Orderly, At
  <2> QED  BY <1>7, <2>2, <2>3 DEF StartWrite
<1>8. ASSUME NEW r \in Runners, Finish(r)
      PROVE  Orderly'
  <2>1. /\ At(r, "body") /\ \A q \in Runners \ {r} : runner'[q] = runner[q]
        /\ \E o \in Outcomes : FinishStep(r, o)
    BY <1>1, <1>8 DEF Finish, Advance, Goto, Outcomes
  <2>2. runner'[r].pc \in {"find", "done", "fail"}
    <3>1. Following(runner[r]).pc \in {"find", "done"}
      BY <1>1 DEF Following, Frame
    <3>2. Advance(r) \/ Goto(r, "fail")
      BY <1>8 DEF Finish
    <3> QED  BY <1>1, <3>1, <3>2 DEF Advance, Goto, Frame
  <2>3. PICK o \in Outcomes : FinishStep(r, o)
    BY <2>1
  <2> DEFINE old == Own(r)
             new == [Own(r) EXCEPT !.status = o]
  <2>4. /\ old = [index |-> runner[r].index, name |-> runner[r].name, status |-> "running"]
        /\ old \in steps
    BY <1>1, <2>1 DEF Own, BodyOwnsRow
  <2>5. new.index = old.index /\ new.name = old.name /\ old.index = runner[r].index
    <3>1. new = [index |-> runner[r].index, name |-> runner[r].name, status |-> o]
      BY <2>4
    <3> QED  BY <2>4, <3>1
  <2>6. steps' = (steps \ {old}) \cup {new}
    BY <2>3 DEF FinishStep
  <2>7. \A s \in steps : s.index <= old.index
    BY <1>1, <2>1, <2>5 DEF Newest
  <2>8. old.index \in Nat
    BY <1>1, <2>4 DEF Step
  <2> HIDE DEF old, new
  <2>9. SucceededLast'
    BY <1>1, <2>4, <2>5, <2>6, <2>7, <2>8 DEF SucceededLast
  <2>10. Alone' /\ \A q \in Runners : Newest(q)'
    BY <1>1, <1>3, <2>1, <2>2, AloneMoves DEF At
  <2> QED  BY <2>9, <2>10 DEF Orderly
<1>9. ASSUME NEW r \in Runners, Done(r) \/ Fail(r)
      PROVE  Orderly'
  <2>1. /\ ~At(r, "idle") /\ steps' = steps
        /\ \A q \in Runners \ {r} : runner'[q] = runner[q]
    BY <1>1, <1>9 DEF Done, Fail, Goto, ToIdle, At
  <2>2. runner'[r].pc \in {"idle", "fail"}
    BY <1>1, <1>9 DEF Done, Fail, Goto, ToIdle, IdleFrame, Frame
  <2> QED  BY <1>2, <1>3, <2>1, <2>2
<1>10. ASSUME NEW p \in Procs, Crash(p)
       PROVE  Orderly'
  <2>1. /\ steps' = steps
        /\ \A q \in Runners : runner'[q] = runner[q] \/ runner'[q].pc = "idle"
    BY <1>1, <1>10 DEF Crash, IdleFrame
  <2>2. \A q \in Runners : Newest(q)'
    BY <1>1, <1>3, <2>1 DEF Newest, At, Named
  <2> QED  BY <1>1, <2>1, <2>2 DEF Orderly, Alone, Active, At, SucceededLast
<1>11. CASE Requeue \/ UNCHANGED vars
  BY <1>1, <1>11 DEF Requeue, vars, Orderly, Alone, Active, At, SucceededLast, Newest, Named
<1> QED  BY <1>4, <1>5, <1>6, <1>7, <1>8, <1>9, <1>10, <1>11 DEF Next

\* Takeovers are never forgotten.
LEMMA TakeoversCount ==
  ASSUME StepsInv, [Next]_vars, count'["takeovers"] = 0
  PROVE  count["takeovers"] = 0
<1>1. count \in [{"runs", "takeovers", "crashes"} -> Nat]
  BY DEF StepsInv, TypeOK
<1>2. \A r \in Runners : Open(r) => count["takeovers"] = 0
  BY <1>1 DEF Open, Spend
<1>3. \A p \in Procs : Crash(p) => count["takeovers"] = 0
  BY <1>1 DEF Crash, Spend
<1>4. \A r \in Runners : Find(r) \/ StartRead(r) \/ StartWrite(r) \/ Finish(r) \/ Done(r) \/ Fail(r)
        => count' = count
  BY DEF Find, StartRead, StartWrite, Finish, Done, Fail
<1>5. Requeue \/ UNCHANGED vars => count' = count
  BY DEF Requeue, vars
<1> QED  BY <1>2, <1>3, <1>4, <1>5 DEF Next

LEMMA OnceStep ==
  ASSUME OnceInv, [Next]_vars
  PROVE  OnceInv'
BY InvStep, LockStep, OrderlyStep, TakeoversCount DEF OnceInv

LEMMA OnceInit == Init => OnceInv
<1> SUFFICES ASSUME Init PROVE OnceInv
  OBVIOUS
<1>1. steps = {} /\ \A r \in Runners : runner[r].pc = "idle"
  BY DEF Init, IdleFrame
<1>2. LockHeld /\ Orderly
  BY <1>1 DEF LockHeld, Orderly, Alone, Active, Newest, SucceededLast, At
<1> QED  BY <1>2, StepsInit DEF OnceInv

\* StartsOnce: two threads of one process never insert at the index that both read, and as
\* long as no two runners overlapped a step that succeeded is not started again, whatever was
\* crashed, reclaimed and retried.
THEOREM StartedOnce == Spec => StartsOnce
<1>1. ASSUME OnceInv, NEW q \in Runners, NEW r \in Runners, q # r, ProcOf[q] = ProcOf[r],
             At(r, "insert"), StartWrite(q)
      PROVE  FALSE
  <2>1. At(q, "insert")
    BY <1>1 DEF StartWrite
  <2> QED  BY <1>1, <2>1 DEF OnceInv, LockHeld
<1>2. ASSUME OnceInv, NEW r \in Runners, StartWrite(r), count["takeovers"] = 0
      PROVE  \A s \in Named(runner[r].name) : s.status # "succeeded"
  <2>1. At(r, "insert")
    BY <1>2 DEF StartWrite
  <2> QED  BY <1>2, <2>1 DEF OnceInv, Orderly, Newest
<1>3. OnceInv /\ [Next]_vars =>
        [\A q, r \in Runners :
           /\ q # r /\ ProcOf[q] = ProcOf[r]
           /\ At(r, "insert") /\ StartWrite(q) /\ steps' # steps
           => runner[q].index # runner[r].index]_vars
  BY <1>1
<1>4. OnceInv /\ [Next]_vars =>
        [\A r \in Runners : StartWrite(r) /\ steps' # steps /\ count["takeovers"] = 0
           => \A s \in Named(runner[r].name) : s.status # "succeeded"]_vars
  BY <1>2
<1>5. OnceInv /\ [Next]_vars => OnceInv'
  BY OnceStep
<1>6. Spec => NoRaceInProcess
  BY <1>3, <1>5, OnceInit, PTL DEF Spec, NoRaceInProcess
<1>7. Spec => NoRework
  BY <1>4, <1>5, OnceInit, PTL DEF Spec, NoRework
<1> QED  BY <1>6, <1>7 DEF StartsOnce

-----------------------------------------------------------------------------
(* Least numbers. *)
Less == {ss \in Nat \X Nat : ss[1] < ss[2]}

\* Every set of numbers that is not empty has a least one.
LEMMA LeastNumber ==
  ASSUME NEW T \in SUBSET Nat, T # {}
  PROVE  \E m \in T : \A k \in T : m <= k
<1>1. IsWellFoundedOn(Less, Nat)
  BY NatLessThanWellFounded, Zenon DEF OpToRel, Less
<1>2. PICK m \in T : \A k \in T : ~(<<k, m>> \in Less)
  BY <1>1, WFMin, Zenon
<1>3. \A k \in T : k \in Nat /\ m \in Nat
  OBVIOUS
<1>4. \A k \in T : ~(k < m)
  BY <1>2, <1>3 DEF Less
<1> QED  BY <1>3, <1>4

LEMMA MinIsIn ==
  ASSUME NEW T \in SUBSET Nat, T # {}
  PROVE  Images!Min(T) \in T
<1>1. \E m \in T : \A k \in T : m <= k
  BY LeastNumber
<1> QED  BY <1>1 DEF Images!Min

-----------------------------------------------------------------------------
(* A pipeline that resumes from its snapshots (Pipeline). *)

Inputs == [of : Nat, flags : Flags \cup {"mixed"}]

PipeRun ==
  [pc : {"idle", "read", "write", "record"}, flags : Flags \cup {None}, begin : Nat, at : Nat,
   end : Nat, input : Inputs \cup {None}]

\* Whatever was written, was written before now.
PipeType ==
  /\ tick \in Nat
  /\ source \in [version : Nat, mtime : Nat] /\ source.mtime < tick
  /\ snapshot \in [Pipe!Index -> Pipe!Snapshots \cup {None}]
  /\ \A i \in Pipe!Index : snapshot[i] # None => snapshot[i].mtime < tick
  /\ record \in Flags \cup {None}
  /\ run \in PipeRun

\* A run is at a stage of its slice, and works on what the stage before it holds.
RunOK ==
  run.pc # "idle" =>
    /\ run.flags \in Flags /\ run.begin \in Pipe!Index /\ run.end \in Pipe!Index
    /\ run.at >= run.begin /\ run.at <= run.end
    /\ run.at > 1 => snapshot[run.at - 1] # None
    /\ run.pc = "write" =>
         /\ run.input \in Inputs
         /\ run.at = 1 => run.input.flags = run.flags
         /\ run.at > 1 => /\ run.input.of = snapshot[run.at - 1].of
                          /\ run.input.flags = snapshot[run.at - 1].flags
    /\ run.pc = "record" => run.at = run.end

\* The stages up to i are all young enough.
Young(i) == \A j \in 1 .. i : Pipe!YoungEnough(j)

\* An unbroken line of young snapshots leads from the source as it is ...
Current == ~torn => \A i \in Pipe!Index : Young(i) => snapshot[i].of = source.version

\* ... under the recorded flags.
AsRecorded ==
  ~mixed /\ record # None => \A i \in Pipe!Index : Young(i) => snapshot[i].flags = record

\* What is before the slice of the run is of its flags.
EarlierAgree ==
  \A i \in Pipe!Index : i < run.begin /\ snapshot[i] # None => snapshot[i].flags = run.flags

\* Then so is what the run has written.
WritesAgree ==
  run.pc # "idle" /\ EarlierAgree =>
    \A i \in Pipe!Index : i >= run.begin /\ (i < run.at \/ (run.pc = "record" /\ i = run.at)) =>
      snapshot[i] # None /\ snapshot[i].flags = run.flags

PipeOK == PipeType /\ RunOK /\ Current /\ AsRecorded /\ WritesAgree

\* Two writes never share a modification time.
PipeInv == Granularity = 1 => PipeOK

LEMMA PipeConstants ==
  /\ Stages \in Nat /\ Granularity \in Nat \ {0} /\ Pipe!Index = 1 .. Stages
  /\ "mixed" \notin Flags /\ None \notin Flags /\ None \notin Pipe!Snapshots
BY PipelineAssumption DEF Pipe!PipelineAssumption, Pipe!Index

\* There is a first stage that is not fresh, and those before it are.
LEMMA StaleExists ==
  ASSUME NEW flags \in Flags
  PROVE  /\ Pipe!FirstStale(flags) \in 1 .. Stages + 1
         /\ \A i \in 1 .. Pipe!FirstStale(flags) - 1 : Pipe!Fresh(i, flags)
<1> DEFINE T == {b \in 1 .. Stages + 1 : b \in Pipe!Index => ~Pipe!Fresh(b, flags)}
<1>1. T \in SUBSET Nat /\ Stages + 1 \in T
  BY PipeConstants
<1>2. PICK m \in T : \A k \in T : m <= k
  BY <1>1, LeastNumber
<1>3. m \in 1 .. Stages + 1 /\ (m \in Pipe!Index => ~Pipe!Fresh(m, flags))
  OBVIOUS
<1>4. ASSUME NEW i \in 1 .. m - 1
      PROVE  Pipe!Fresh(i, flags)
  <2>1. i \in 1 .. Stages + 1 /\ i \in Pipe!Index /\ ~(m <= i)
    BY <1>3, PipeConstants
  <2>2. i \notin T
    BY <1>2, <2>1
  <2> QED  BY <2>1, <2>2
<1> HIDE DEF T
<1>5. \E b \in 1 .. Stages + 1 :
        /\ b \in Pipe!Index => ~Pipe!Fresh(b, flags)
        /\ \A i \in 1 .. b - 1 : Pipe!Fresh(i, flags)
  BY <1>3, <1>4
<1> DEFINE Stale(b) == /\ b \in Pipe!Index => ~Pipe!Fresh(b, flags)
                       /\ \A i \in 1 .. b - 1 : Pipe!Fresh(i, flags)
<1>6. Pipe!FirstStale(flags) = CHOOSE b \in 1 .. Stages + 1 : Stale(b)
  BY DEF Pipe!FirstStale
<1>7. \E b \in 1 .. Stages + 1 : Stale(b)
  BY <1>5
<1> HIDE DEF Stale
<1>8. Pipe!FirstStale(flags) \in 1 .. Stages + 1 /\ Stale(Pipe!FirstStale(flags))
  BY <1>6, <1>7, Zenon
<1> QED  BY <1>8 DEF Stale

LEMMA PipeSound == PipeInv /\ Granularity = 1 => Pipe!SkipsAreSound
<1> SUFFICES ASSUME PipeOK
             PROVE  Pipe!SkipsAreSound
  BY DEF PipeInv
<1>1. ASSUME NEW flags \in Flags, NEW i \in 1 .. Pipe!FirstStale(flags) - 1
      PROVE  i \in Pipe!Index /\ Young(i) /\ record = flags /\ record # None
  <2>1. i \in Pipe!Index
    BY StaleExists, PipeConstants
  <2>2. \A j \in 1 .. i : Pipe!Fresh(j, flags)
    <3>1. Pipe!FirstStale(flags) \in 1 .. Stages + 1
      BY StaleExists
    <3>2. \A j \in 1 .. i : j \in 1 .. Pipe!FirstStale(flags) - 1
      BY <3>1, PipeConstants
    <3> QED  BY <3>2, StaleExists
  <2>3. i \in 1 .. i
    BY <2>1, PipeConstants
  <2> QED  BY <2>1, <2>2, <2>3 DEF Pipe!Fresh, Pipe!FlagsMatch, Young
<1>2. Pipe!SkippedIsCurrent
  BY <1>1 DEF Pipe!SkippedIsCurrent, PipeOK, Current
<1>3. Pipe!SkippedMatchesFlags
  BY <1>1 DEF Pipe!SkippedMatchesFlags, PipeOK, AsRecorded
<1> QED  BY <1>2, <1>3 DEF Pipe!SkipsAreSound

LEMMA PipeInit == Pipe!Init => PipeInv
<1> SUFFICES ASSUME Pipe!Init
             PROVE  PipeOK
  BY DEF PipeInv
<1>1. PipeType
  <2>1. run \in PipeRun
    BY DEF Pipe!Init, Pipe!NoRun, PipeRun
  <2>2. source \in [version : Nat, mtime : Nat] /\ source.mtime < tick /\ tick \in Nat
    BY DEF Pipe!Init
  <2>3. /\ snapshot \in [Pipe!Index -> Pipe!Snapshots \cup {None}]
        /\ \A i \in Pipe!Index : snapshot[i] = None
    BY DEF Pipe!Init
  <2> QED  BY <2>1, <2>2, <2>3 DEF PipeType, Pipe!Init
<1>2. \A i \in Pipe!Index : ~Young(i)
  <2>1. \A i \in Pipe!Index : i \in 1 .. i
    BY PipeConstants
  <2> QED  BY <2>1 DEF Young, Pipe!YoungEnough, Pipe!Init
<1>3. run.pc = "idle"
  BY DEF Pipe!Init, Pipe!NoRun
<1> QED  BY <1>1, <1>2, <1>3 DEF PipeOK, RunOK, Current, AsRecorded, WritesAgree

\* What is young after deletions was young before them.
LEMMA Deleted ==
  ASSUME NEW i \in Pipe!Index, source' = source,
         \A j \in Pipe!Index : snapshot'[j] # None => snapshot'[j] = snapshot[j],
         Young(i)'
  PROVE  Young(i) /\ snapshot'[i] = snapshot[i]
<1>1. ASSUME NEW j \in 1 .. i
      PROVE  Pipe!YoungEnough(j)
  <2>1. j \in Pipe!Index /\ (j # 1 => j - 1 \in Pipe!Index)
    BY PipeConstants
  <2>2. Pipe!YoungEnough(j)'
    BY DEF Young
  <2>3. snapshot'[j] # None /\ \A u \in Pipe!Upstream(j)' : u # None /\ snapshot'[j].mtime >= u.mtime
    BY <2>2 DEF Pipe!YoungEnough
  <2>4. snapshot'[j] = snapshot[j]
    BY <2>1, <2>3
  <2>5. Pipe!Upstream(j)' = IF j = 1 THEN {source'} ELSE {source', snapshot'[j - 1]}
    BY DEF Pipe!Upstream
  <2>6. Pipe!Upstream(j)' = Pipe!Upstream(j)
    <3>1. j # 1 => snapshot'[j - 1] # None
      BY <2>3, <2>5
    <3>2. j # 1 => snapshot'[j - 1] = snapshot[j - 1]
      BY <2>1, <3>1
    <3> QED  BY <2>5, <3>2 DEF Pipe!Upstream
  <2> QED  BY <2>3, <2>4, <2>6 DEF Pipe!YoungEnough
<1>2. snapshot'[i] # None
  <2>1. i \in 1 .. i
    BY PipeConstants
  <2>2. Pipe!YoungEnough(i)'
    BY <2>1 DEF Young
  <2> QED  BY <2>2 DEF Pipe!YoungEnough
<1> QED  BY <1>1, <1>2 DEF Young

\* A run begins.
LEMMA BeginsOK ==
  ASSUME PipeOK, NEW flags \in Flags, NEW begin \in 1 .. Stages + 1, NEW end \in Pipe!Index,
         begin <= Stages => begin <= end, begin > 1 => snapshot[begin - 1] # None,
         Pipe!Begin(flags, begin, end),
         UNCHANGED <<tick, source, record, torn, mixed>>,
         snapshot' \in [Pipe!Index -> Pipe!Snapshots \cup {None}],
         \A j \in Pipe!Index : snapshot'[j] # None => snapshot'[j] = snapshot[j],
         \A j \in Pipe!Index : j < begin => snapshot'[j] = snapshot[j]
  PROVE  PipeOK'
<1>1. \/ run' = Pipe!NoRun
      \/ /\ begin <= Stages
         /\ run' = [Pipe!NoRun EXCEPT !.pc = "read", !.flags = flags, !.begin = begin,
                                      !.at = begin, !.end = end]
  BY PipeConstants DEF Pipe!Begin
<1>2. /\ run' \in PipeRun
      /\ \/ run'.pc = "idle"
         \/ /\ run'.pc = "read" /\ run'.flags = flags /\ run'.begin = begin /\ run'.at = begin
            /\ run'.end = end /\ begin <= Stages
  <2>1. Pipe!NoRun \in PipeRun /\ Pipe!NoRun.pc = "idle"
    BY DEF Pipe!NoRun, PipeRun
  <2>2. ASSUME begin <= Stages,
               run' = [Pipe!NoRun EXCEPT !.pc = "read", !.flags = flags, !.begin = begin,
                                         !.at = begin, !.end = end]
        PROVE  /\ run' \in PipeRun /\ run'.pc = "read" /\ run'.flags = flags
               /\ run'.begin = begin /\ run'.at = begin /\ run'.end = end
    <3>1. begin \in Nat /\ end \in Nat
      BY PipeConstants
    <3>2. run' \in PipeRun
      BY <2>1, <2>2, <3>1, Zenon DEF PipeRun
    <3> QED  BY <2>2, <3>2 DEF Pipe!NoRun
  <2> QED  BY <1>1, <2>1, <2>2
<1>3. PipeType'
  BY <1>2 DEF PipeOK, PipeType
<1>4. RunOK'
  <2>1. begin <= Stages => begin \in Pipe!Index /\ begin <= end
    BY PipeConstants
  <2>2. begin > 1 /\ begin <= Stages => snapshot'[begin - 1] # None
    BY <2>1, PipeConstants
  <2> QED  BY <1>2, <2>1, <2>2 DEF RunOK
<1>5. Current'
  BY Deleted DEF PipeOK, Current
<1>6. AsRecorded'
  BY Deleted DEF PipeOK, AsRecorded
<1>7. WritesAgree'
  <2>1. run'.pc # "idle" => /\ run'.pc = "read" /\ run'.at = run'.begin /\ run'.begin \in Nat
    BY <1>2
  <2> QED  BY <2>1, PipeConstants DEF WritesAgree
<1> QED  BY <1>3, <1>4, <1>5, <1>6, <1>7 DEF PipeOK

LEMMA ResumeOK ==
  ASSUME PipeOK, NEW flags \in Flags, NEW stop \in Pipe!Index, Pipe!Resume(flags, stop)
  PROVE  PipeOK'
<1> DEFINE begin == Pipe!FirstStale(flags)
<1>1. begin \in 1 .. Stages + 1 /\ begin <= Stages => begin <= stop
  BY StaleExists, PipeConstants DEF Pipe!Resume
<1>2. begin \in 1 .. Stages + 1
  BY StaleExists
<1>3. begin > 1 => snapshot[begin - 1] # None
  <2>1. begin > 1 => begin - 1 \in 1 .. begin - 1
    BY <1>2, PipeConstants
  <2>2. begin > 1 => Pipe!Fresh(begin - 1, flags)
    BY <2>1, StaleExists
  <2> QED  BY <2>2 DEF Pipe!Fresh, Pipe!YoungEnough
<1>4. Pipe!Begin(flags, begin, stop) /\ UNCHANGED <<tick, source, snapshot, record, torn, mixed>>
  BY DEF Pipe!Resume
<1>5. snapshot' \in [Pipe!Index -> Pipe!Snapshots \cup {None}]
  BY <1>4 DEF PipeOK, PipeType
<1> HIDE DEF begin
<1> QED  BY <1>1, <1>2, <1>3, <1>4, <1>5, BeginsOK

LEMMA StartOK ==
  ASSUME PipeOK, NEW flags \in Flags, NEW start \in Pipe!Index, NEW stop \in Pipe!Index,
         Pipe!Start(flags, start, stop)
  PROVE  PipeOK'
<1>1. start \in 1 .. Stages + 1 /\ start <= stop
  BY PipeConstants DEF Pipe!Start
<1>2. /\ Pipe!Begin(flags, start, stop) /\ UNCHANGED <<tick, source, snapshot, record, torn, mixed>>
      /\ start > 1 => snapshot[start - 1] # None
  BY DEF Pipe!Start
<1>3. snapshot' \in [Pipe!Index -> Pipe!Snapshots \cup {None}]
  BY <1>2 DEF PipeOK, PipeType
<1> QED  BY <1>1, <1>2, <1>3, BeginsOK

LEMMA RerunOK ==
  ASSUME PipeOK, NEW flags \in Flags, NEW stage \in Pipe!Index, NEW stop \in Pipe!Index,
         Pipe!RerunFrom(flags, stage, stop)
  PROVE  PipeOK'
<1>1. PICK kept \in SUBSET Pipe!Cascade(stage) :
        snapshot' = [i \in Pipe!Index |-> IF i \in Pipe!Cascade(stage) \ kept THEN None
                                          ELSE snapshot[i]]
  BY DEF Pipe!RerunFrom
<1>2. /\ Pipe!Begin(flags, stage, stop) /\ UNCHANGED <<tick, source, record, torn, mixed>>
      /\ stage > 1 => snapshot[stage - 1] # None
      /\ stage <= stop /\ stage \in 1 .. Stages + 1
  BY PipeConstants DEF Pipe!RerunFrom
<1>3. snapshot' \in [Pipe!Index -> Pipe!Snapshots \cup {None}]
  BY <1>1 DEF PipeOK, PipeType
<1>4. \A j \in Pipe!Index : snapshot'[j] # None => snapshot'[j] = snapshot[j]
  BY <1>1
<1>5. \A j \in Pipe!Index : j < stage => snapshot'[j] = snapshot[j]
  BY <1>1, PipeConstants DEF Pipe!Cascade
<1> QED  BY <1>2, <1>3, <1>4, <1>5, BeginsOK

LEMMA ReadOK ==
  ASSUME PipeOK, Pipe!StageRead
  PROVE  PipeOK'
<1>1. /\ run.pc = "read" /\ run' = [run EXCEPT !.pc = "write", !.input = Pipe!Input(run.at)]
      /\ UNCHANGED <<tick, source, snapshot, record, torn, mixed>>
  BY DEF Pipe!StageRead
<1>2. PipeType /\ run \in PipeRun
  BY DEF PipeOK, PipeType
<1>3. /\ run.flags \in Flags /\ run.begin \in Pipe!Index /\ run.end \in Pipe!Index
      /\ run.at >= run.begin /\ run.at <= run.end /\ run.at \in Nat
      /\ run.at > 1 => snapshot[run.at - 1] # None
  BY <1>1, <1>2 DEF PipeOK, RunOK, PipeRun
<1> DEFINE input == Pipe!Input(run.at)
<1>4. /\ input \in Inputs
      /\ run.at = 1 => input.flags = run.flags
      /\ run.at > 1 => /\ input.of = snapshot[run.at - 1].of
                       /\ input.flags = snapshot[run.at - 1].flags
  <2>1. CASE run.at = 1
    <3>1. source.version \in Nat
      BY <1>2 DEF PipeType
    <3> QED  BY <1>3, <2>1, <3>1 DEF Pipe!Input, Inputs
  <2>2. CASE run.at # 1
    <3>1. run.at > 1 /\ run.at - 1 \in Pipe!Index
      BY <1>3, <2>2, PipeConstants
    <3>2. snapshot[run.at - 1] \in Pipe!Snapshots
      BY <1>2, <1>3, <3>1 DEF PipeType
    <3> QED  BY <2>2, <3>1, <3>2 DEF Pipe!Input, Inputs, Pipe!Snapshots
  <2> QED  BY <2>1, <2>2
<1> HIDE DEF input
<1>5. /\ run' \in PipeRun /\ run'.pc = "write" /\ run'.flags = run.flags /\ run'.at = run.at
      /\ run'.begin = run.begin /\ run'.end = run.end /\ run'.input = input
  BY <1>1, <1>2, <1>4 DEF PipeRun, input
<1>6. PipeType'
  BY <1>1, <1>2, <1>5 DEF PipeType
<1>7. RunOK'
  BY <1>1, <1>3, <1>4, <1>5 DEF RunOK
<1>8. \A i \in Pipe!Index : Young(i)' <=> Young(i)
  BY <1>1 DEF Young, Pipe!YoungEnough, Pipe!Upstream
<1>9. Current' /\ AsRecorded'
  BY <1>1, <1>8 DEF PipeOK, Current, AsRecorded
<1>10. WritesAgree'
  BY <1>1, <1>5 DEF PipeOK, WritesAgree, EarlierAgree
<1> QED  BY <1>6, <1>7, <1>9, <1>10 DEF PipeOK

LEMMA FailOK ==
  ASSUME PipeOK, run' = Pipe!NoRun, UNCHANGED <<tick, source, snapshot, record, torn, mixed>>
  PROVE  PipeOK'
<1>1. run' \in PipeRun /\ run'.pc = "idle"
  BY DEF Pipe!NoRun, PipeRun
<1>2. \A i \in Pipe!Index : Young(i)' <=> Young(i)
  BY DEF Young, Pipe!YoungEnough, Pipe!Upstream
<1>3. PipeType'
  BY <1>1 DEF PipeOK, PipeType
<1>4. Current' /\ AsRecorded'
  BY <1>2 DEF PipeOK, Current, AsRecorded
<1> QED  BY <1>1, <1>3, <1>4 DEF PipeOK, RunOK, WritesAgree

LEMMA EditOK ==
  ASSUME PipeOK, Granularity = 1, Pipe!Edit
  PROVE  PipeOK'
<1>1. /\ tick' = tick + 1 /\ source' = [version |-> source.version + 1, mtime |-> tick]
      /\ UNCHANGED <<snapshot, record, run, torn, mixed>> /\ PipeType /\ tick \in Nat
  BY DEF Pipe!Edit, Pipe!Clock, Pipe!Mtime, PipeOK, PipeType
<1>2. /\ source' \in [version : Nat, mtime : Nat] /\ source'.mtime = tick /\ tick < tick'
      /\ tick' \in Nat
  BY <1>1 DEF PipeType
<1>3. \A i \in Pipe!Index : snapshot[i] # None =>
        snapshot[i].mtime < tick /\ snapshot[i].mtime \in Nat
  BY <1>1, PipeConstants DEF PipeType, Pipe!Snapshots
<1>4. PipeType'
  <2>1. \A i \in Pipe!Index : snapshot'[i] # None => snapshot'[i].mtime < tick'
    BY <1>1, <1>2, <1>3
  <2> QED  BY <1>1, <1>2, <2>1 DEF PipeType
<1>5. ASSUME NEW i \in Pipe!Index
      PROVE  ~Young(i)'
  <2>1. 1 \in 1 .. i /\ 1 \in Pipe!Index
    BY PipeConstants
  <2>2. ~Pipe!YoungEnough(1)'
    BY <1>1, <1>2, <1>3, <2>1 DEF Pipe!YoungEnough, Pipe!Upstream
  <2> QED  BY <2>1, <2>2 DEF Young
<1>6. Current' /\ AsRecorded'
  BY <1>5 DEF Current, AsRecorded
<1>7. RunOK' /\ WritesAgree'
  BY <1>1 DEF PipeOK, RunOK, WritesAgree, EarlierAgree
<1> QED  BY <1>4, <1>6, <1>7 DEF PipeOK

LEMMA RecordOK ==
  ASSUME PipeOK, Pipe!WriteRecord
  PROVE  PipeOK'
<1>1. /\ run.pc = "record" /\ run' = Pipe!NoRun
      /\ UNCHANGED <<tick, source, snapshot, torn>>
      /\ record' = IF run.end = Stages THEN run.flags ELSE record
      /\ mixed' = (Pipe!Misrecorded \/ (mixed /\ ~(run.begin = 1 /\ run.end = Stages)))
  BY DEF Pipe!WriteRecord, Pipe!Recorded
<1>2. run' \in PipeRun /\ run'.pc = "idle"
  BY <1>1 DEF Pipe!NoRun, PipeRun
<1>3. /\ run.flags \in Flags /\ run.begin \in Pipe!Index /\ run.end \in Pipe!Index
      /\ run.at = run.end
  BY <1>1 DEF PipeOK, RunOK
<1>4. PipeType'
  BY <1>1, <1>2, <1>3 DEF PipeOK, PipeType
<1>5. \A i \in Pipe!Index : Young(i)' <=> Young(i)
  BY <1>1 DEF Young, Pipe!YoungEnough, Pipe!Upstream
<1>6. Current'
  BY <1>1, <1>5 DEF PipeOK, Current
<1>7. ASSUME ~mixed', record' # None, NEW i \in Pipe!Index, Young(i)
      PROVE  snapshot[i].flags = record'
  <2>1. snapshot[i] # None
    <3>1. i \in 1 .. i
      BY PipeConstants
    <3> QED  BY <1>7, <3>1 DEF Young, Pipe!YoungEnough
  <2>2. ~Pipe!Misrecorded /\ (mixed => run.begin = 1 /\ run.end = Stages)
    BY <1>1, <1>7
  <2>3. CASE run.end = Stages
    <3>1. EarlierAgree
      <4>1. \A j \in 1 .. run.begin - 1 : snapshot[j] # None => snapshot[j].flags = run.flags
        BY <2>2, <2>3 DEF Pipe!Misrecorded, Pipe!Recorded
      <4>2. \A j \in Pipe!Index : j < run.begin => j \in 1 .. run.begin - 1
        BY <1>3, PipeConstants
      <4> QED  BY <4>1, <4>2 DEF EarlierAgree
    <3>2. i < run.begin \/ (i >= run.begin /\ (i < run.at \/ i = run.at))
      BY <1>3, <2>3, PipeConstants
    <3>3. snapshot[i].flags = run.flags
      BY <1>1, <2>1, <3>1, <3>2 DEF PipeOK, EarlierAgree, WritesAgree
    <3> QED  BY <1>1, <2>3, <3>3
  <2>4. CASE run.end # Stages
    BY <1>1, <1>7, <2>2, <2>4 DEF PipeOK, AsRecorded
  <2> QED  BY <2>3, <2>4
<1>8. AsRecorded'
  BY <1>1, <1>5, <1>7 DEF AsRecorded
<1> QED  BY <1>2, <1>4, <1>6, <1>8 DEF PipeOK, RunOK, WritesAgree

LEMMA WriteOK ==
  ASSUME PipeOK, Granularity = 1, Pipe!StageWrite
  PROVE  PipeOK'
<1> DEFINE at   == run.at
           new  == [of |-> run.input.of, flags |-> Pipe!Result(run.flags, run.input),
                    mtime |-> tick]
<1>1. PipeType /\ run \in PipeRun /\ tick \in Nat
  BY DEF PipeOK, PipeType
<1>2. /\ run.pc = "write" /\ tick' = tick + 1
      /\ snapshot' = [snapshot EXCEPT ![at] = new]
      /\ run' = IF at < run.end THEN [run EXCEPT !.pc = "read", !.at = @ + 1, !.input = None]
                ELSE [run EXCEPT !.pc = "record"]
      /\ torn' = IF at = 1 THEN run.input.of # source.version ELSE torn
      /\ mixed' = (mixed \/ record \notin {None, run.flags})
      /\ UNCHANGED <<source, record>>
  <2>1. tick \div Granularity = tick
    BY <1>1
  <2> QED  BY <2>1 DEF Pipe!StageWrite, Pipe!Clock, Pipe!Mtime
<1>3. /\ run.flags \in Flags /\ run.begin \in Pipe!Index /\ run.end \in Pipe!Index
      /\ at >= run.begin /\ at <= run.end /\ at \in Nat
      /\ at > 1 => snapshot[at - 1] # None
      /\ run.input \in Inputs
      /\ at = 1 => run.input.flags = run.flags
      /\ at > 1 => /\ run.input.of = snapshot[at - 1].of
                   /\ run.input.flags = snapshot[at - 1].flags
  BY <1>1, <1>2 DEF PipeOK, RunOK, PipeRun
<1>4. at \in Pipe!Index /\ run.begin \in Nat /\ run.end \in Nat
  BY <1>3, PipeConstants
<1>5. /\ new \in Pipe!Snapshots /\ new # None /\ new.mtime = tick /\ new.of = run.input.of
      /\ run.input.flags = run.flags => new.flags = run.flags
  <2>1. new \in Pipe!Snapshots
    BY <1>1, <1>3 DEF Inputs, Pipe!Result, Pipe!Snapshots
  <2> QED  BY <2>1, PipeConstants DEF Pipe!Result
<1> HIDE DEF new
<1>6. /\ snapshot'[at] = new
      /\ \A i \in Pipe!Index : i # at => snapshot'[i] = snapshot[i]
      /\ snapshot' \in [Pipe!Index -> Pipe!Snapshots \cup {None}]
  BY <1>1, <1>2, <1>4, <1>5 DEF PipeType
<1>7. /\ run' \in PipeRun /\ run'.flags = run.flags /\ run'.begin = run.begin
      /\ run'.end = run.end
      /\ \/ run'.pc = "read" /\ run'.at = at + 1 /\ at + 1 <= run.end
         \/ run'.pc = "record" /\ run'.at = at /\ at = run.end
  <2>1. CASE at < run.end
    <3>1. at + 1 \in Nat
      BY <1>3
    <3>2. run' = [run EXCEPT !.pc = "read", !.at = at + 1, !.input = None]
      BY <1>2, <2>1
    <3>3. run' \in PipeRun
      BY <1>1, <3>1, <3>2, Zenon DEF PipeRun
    <3> QED  BY <1>1, <1>3, <1>4, <2>1, <3>2, <3>3 DEF PipeRun
  <2>2. CASE ~(at < run.end)
    <3>1. run' = [run EXCEPT !.pc = "record"]
      BY <1>2, <2>2
    <3>2. run' \in PipeRun
      BY <1>1, <3>1, Zenon DEF PipeRun
    <3>3. at = run.end
      BY <1>3, <1>4, <2>2
    <3> QED  BY <1>1, <3>1, <3>2, <3>3 DEF PipeRun
  <2> QED  BY <2>1, <2>2
<1>8. \A i \in Pipe!Index : snapshot[i] # None =>
        snapshot[i].mtime < tick /\ snapshot[i].mtime \in Nat
  BY <1>1, PipeConstants DEF PipeType, Pipe!Snapshots
<1>9. PipeType'
  <2>1. \A i \in Pipe!Index : snapshot'[i] # None => snapshot'[i].mtime < tick'
    BY <1>1, <1>2, <1>5, <1>6, <1>8
  <2>2. source'.mtime < tick'
    BY <1>1, <1>2 DEF PipeType
  <2>3. tick' \in Nat
    BY <1>1, <1>2
  <2> QED  BY <1>1, <1>2, <1>6, <1>7, <2>1, <2>2, <2>3 DEF PipeType
<1>10. RunOK'
  <2>1. CASE run'.pc = "read" /\ run'.at = at + 1 /\ at + 1 <= run.end
    <3>1. run'.at >= run'.begin /\ run'.at <= run'.end /\ run'.at - 1 = at
      BY <1>3, <1>4, <1>7, <2>1
    <3> QED  BY <1>3, <1>5, <1>6, <1>7, <2>1, <3>1 DEF RunOK
  <2>2. CASE run'.pc = "record" /\ run'.at = at /\ at = run.end
    <3>1. at > 1 => at - 1 \in Pipe!Index /\ at - 1 # at
      BY <1>3, <1>4, PipeConstants
    <3> QED  BY <1>3, <1>6, <1>7, <2>2, <3>1 DEF RunOK
  <2> QED  BY <1>7, <2>1, <2>2
<1>11. ASSUME NEW i \in Pipe!Index, Young(i)'
       PROVE  /\ i <= at
              /\ i < at => Young(i) /\ snapshot'[i] = snapshot[i]
              /\ i = at /\ at > 1 => /\ Young(at - 1) /\ at - 1 \in Pipe!Index
                                     /\ snapshot'[at - 1] = snapshot[at - 1]
  <2>1. ASSUME NEW j \in 1 .. i
        PROVE  /\ j \in Pipe!Index /\ snapshot'[j] # None
               /\ snapshot'[j].mtime >= source.mtime /\ source # None
               /\ j > 1 => snapshot'[j - 1] # None /\ snapshot'[j].mtime >= snapshot'[j - 1].mtime
    <3>1. j \in Pipe!Index
      BY PipeConstants
    <3>2. Pipe!YoungEnough(j)'
      BY <1>11 DEF Young
    <3>3. /\ snapshot'[j] # None
          /\ \A u \in Pipe!Upstream(j)' : u # None /\ snapshot'[j].mtime >= u.mtime
      BY <3>2 DEF Pipe!YoungEnough
    <3>4. Pipe!Upstream(j)' = IF j = 1 THEN {source'} ELSE {source', snapshot'[j - 1]}
      BY DEF Pipe!Upstream
    <3>5. source' \in Pipe!Upstream(j)' /\ (j > 1 => snapshot'[j - 1] \in Pipe!Upstream(j)')
      BY <3>4
    <3> QED  BY <1>2, <3>1, <3>3, <3>5
  <2>2. i <= at
    <3> SUFFICES ASSUME i > at
                 PROVE  FALSE
      BY <1>3, PipeConstants
    <3>1. at + 1 \in 1 .. i /\ (at + 1) - 1 = at /\ at + 1 > 1 /\ at + 1 # at
      BY <1>3, <1>4, PipeConstants
    <3>2. at + 1 \in Pipe!Index /\ snapshot'[at + 1].mtime >= tick /\ snapshot'[at + 1] # None
      BY <1>5, <1>6, <2>1, <3>1
    <3>3. snapshot[at + 1].mtime < tick /\ snapshot[at + 1].mtime \in Nat
          /\ snapshot[at + 1].mtime >= tick
      BY <1>6, <1>8, <3>1, <3>2
    <3> QED  BY <1>1, <3>3
  <2>3. ASSUME NEW k \in 1 .. i, k < at
        PROVE  Young(k)
    <3>1. ASSUME NEW j \in 1 .. k
          PROVE  Pipe!YoungEnough(j)
      <4>1. /\ j \in 1 .. i /\ j \in Pipe!Index /\ j # at
            /\ j > 1 => j - 1 \in Pipe!Index /\ j - 1 # at
        BY <1>3, <1>4, <2>3, PipeConstants
      <4>2. snapshot'[j] = snapshot[j] /\ (j > 1 => snapshot'[j - 1] = snapshot[j - 1])
        BY <1>6, <4>1
      <4> QED  BY <2>1, <4>1, <4>2 DEF Pipe!YoungEnough, Pipe!Upstream
    <3> QED  BY <3>1 DEF Young
  <2>4. i \in 1 .. i /\ (i = at /\ at > 1 => at - 1 \in 1 .. i /\ at - 1 < at)
    BY <1>3, PipeConstants
  <2>5. i = at /\ at > 1 => at - 1 \in Pipe!Index /\ at - 1 # at
    BY <1>3, <1>4, PipeConstants
  <2> QED  BY <1>3, <1>6, <2>2, <2>3, <2>4, <2>5
<1>12. \A i \in Pipe!Index : i <= at => i < at \/ i = at
  BY <1>3, PipeConstants
<1>13. Current'
  <2> SUFFICES ASSUME ~torn', NEW i \in Pipe!Index, Young(i)'
               PROVE  snapshot'[i].of = source'.version
    BY DEF Current
  <2>1. CASE i < at
    <3>1. at # 1
      BY <1>3, <2>1, PipeConstants
    <3>2. ~torn
      BY <1>2, <3>1
    <3> QED  BY <1>2, <1>11, <2>1, <3>2 DEF PipeOK, Current
  <2>2. CASE i = at /\ at = 1
    BY <1>2, <1>5, <1>6, <2>2
  <2>3. CASE i = at /\ at > 1
    <3>1. ~torn /\ at # 1
      BY <1>2, <2>3
    <3>2. snapshot[at - 1].of = source.version
      BY <1>11, <2>3, <3>1 DEF PipeOK, Current
    <3> QED  BY <1>2, <1>3, <1>5, <1>6, <2>3, <3>2
  <2> QED  BY <1>3, <1>11, <1>12, <2>1, <2>2, <2>3, PipeConstants
<1>14. AsRecorded'
  <2> SUFFICES ASSUME ~mixed', record' # None, NEW i \in Pipe!Index, Young(i)'
               PROVE  snapshot'[i].flags = record'
    BY DEF AsRecorded
  <2>1. ~mixed /\ record = run.flags /\ record' = record
    BY <1>2
  <2>2. CASE i < at
    BY <1>11, <2>1, <2>2 DEF PipeOK, AsRecorded
  <2>3. CASE i = at /\ at = 1
    BY <1>3, <1>5, <1>6, <2>1, <2>3
  <2>4. CASE i = at /\ at > 1
    <3>1. snapshot[at - 1].flags = record
      BY <1>11, <2>1, <2>4 DEF PipeOK, AsRecorded
    <3> QED  BY <1>3, <1>5, <1>6, <2>1, <2>4, <3>1
  <2> QED  BY <1>3, <1>11, <1>12, <2>2, <2>3, <2>4, PipeConstants
<1>15. WritesAgree'
  <2> SUFFICES ASSUME EarlierAgree', NEW i \in Pipe!Index, i >= run'.begin,
                      i < run'.at \/ (run'.pc = "record" /\ i = run'.at)
               PROVE  snapshot'[i] # None /\ snapshot'[i].flags = run'.flags
    BY DEF WritesAgree
  <2>1. EarlierAgree
    <3>1. \A j \in Pipe!Index : j < run.begin => snapshot'[j] = snapshot[j]
      BY <1>3, <1>4, <1>6, PipeConstants
    <3> QED  BY <1>7, <3>1 DEF EarlierAgree
  <2>2. \A j \in Pipe!Index : j >= run.begin /\ j < at =>
          snapshot[j] # None /\ snapshot[j].flags = run.flags
    BY <1>2, <2>1 DEF PipeOK, WritesAgree
  <2>3. i >= run.begin /\ (i < at \/ i = at)
    BY <1>3, <1>7, PipeConstants
  <2>4. CASE i < at
    <3>1. i # at
      BY <1>3, <2>4, PipeConstants
    <3> QED  BY <1>6, <1>7, <2>2, <2>3, <2>4, <3>1
  <2>5. CASE i = at
    <3>1. run.input.flags = run.flags
      <4>1. CASE at = 1
        BY <1>3, <4>1
      <4>2. CASE at > 1
        <5>1. at - 1 \in Pipe!Index /\ at - 1 < at
          BY <1>3, <1>4, <4>2, PipeConstants
        <5>2. at - 1 < run.begin \/ at - 1 >= run.begin
          BY <1>3, <1>4
        <5> QED  BY <1>3, <2>1, <2>2, <4>2, <5>1, <5>2 DEF EarlierAgree
      <4> QED  BY <1>3, <1>4, <4>1, <4>2, PipeConstants
    <3> QED  BY <1>5, <1>6, <1>7, <2>5, <3>1
  <2> QED  BY <2>3, <2>4, <2>5
<1> QED  BY <1>9, <1>10, <1>13, <1>14, <1>15 DEF PipeOK

LEMMA PipeStep == PipeInv /\ [Pipe!Next]_Pipe!vars => PipeInv'
<1> SUFFICES ASSUME PipeOK, Granularity = 1, [Pipe!Next]_Pipe!vars
             PROVE  PipeOK'
  BY DEF PipeInv
<1>1. CASE Pipe!Next
  <2>1. CASE Pipe!Fail
    <3>1. run' = Pipe!NoRun /\ UNCHANGED <<tick, source, snapshot, record, torn, mixed>>
      BY <2>1 DEF Pipe!Fail
    <3> QED  BY <3>1, FailOK
  <2> QED
    BY <1>1, <2>1, ResumeOK, StartOK, RerunOK, ReadOK, WriteOK, RecordOK, EditOK DEF Pipe!Next
<1>2. CASE UNCHANGED Pipe!vars
  <2>1. UNCHANGED <<tick, source, snapshot, record, run, torn, mixed>>
    BY <1>2 DEF Pipe!vars
  <2>2. \A i \in Pipe!Index : Young(i)' <=> Young(i)
    BY <2>1 DEF Young, Pipe!YoungEnough, Pipe!Upstream
  <2> QED
    BY <2>1, <2>2 DEF PipeOK, PipeType, RunOK, Current, AsRecorded, WritesAgree, EarlierAgree
<1> QED  BY <1>1, <1>2

-----------------------------------------------------------------------------
(* Fetches through a shared throttle (Fetching). *)

Kinds == {"body", "redirect", "nowhere", "refused", "permanent", "transient", "busy"}

FetchWorker ==
  [pc : {"idle", "acquire", "open", "body", "inflate"}, probe : BOOLEAN,
   attempt : 0 .. Retries, hops : 0 .. MaxRedirects, until : Nat, tries : Nat,
   last : Kinds \cup {"none", "unmodified", "other"},
   outcome : Kinds \cup {"none", "clienterror", "valueerror", "unmodified", "changed"},
   rest : Seq(Nat), size : Nat, held : Nat]

\* A Retry-After that the server sends is not negative.
WaitsAreNatural == RetryAfters \subseteq Nat \cup {None}

\* Requests that the attempts and hops so far account for.
Accounted(me) == me.hops * (Retries + 1) + me.attempt

\* What the caller of a plain fetch is told.
ToldWell(me) ==
  /\ \/ me.outcome \in {"none", "clienterror", me.last}
     \/ me.outcome = "valueerror" /\ ~WaitsAreNatural
  /\ me.outcome = "clienterror" => me.last = "body"
  /\ me.outcome = "body" => me.held = me.size /\ me.size <= MaxBytes
  /\ me.last = "permanent" => me.outcome = "permanent"

WorkerOK(me) ==
  /\ me.pc = "idle" /\ ~me.probe => ToldWell(me)
  /\ me.pc # "idle" => me.outcome = "none" /\ me.last # "permanent"
  /\ me.pc \in {"acquire", "open"} => me.tries <= Accounted(me) /\ me.held = 0 /\ me.size = 0
  /\ me.pc \in {"body", "inflate"} => me.last = "body" /\ me.held = me.size /\ me.size <= MaxBytes
  /\ me.tries <= (Retries + 1) * (MaxRedirects + 1)
  /\ me.held <= MaxBytes + 1

FetchType ==
  /\ now \in Nat /\ next_allowed \in Nat /\ requests \in Nat
  /\ worker \in [Fetchers -> FetchWorker]

FetchOK == FetchType /\ \A w \in Fetchers : WorkerOK(worker[w])

LEMMA FetchConstants ==
  /\ Retries \in Nat /\ MaxRedirects \in Nat /\ Interval \in Nat /\ Cap \in Nat
  /\ MaxBytes \in Nat /\ RetryAfters \subseteq Int \cup {None} /\ Payloads \subseteq Seq(Nat)
BY FetchAssumption DEF Fetch!FetchAssumption

\* One request more than the attempts before it account for.
LEMMA OneMore ==
  ASSUME NEW hops_ \in 0 .. MaxRedirects, NEW attempt_ \in 0 .. Retries, NEW tries_ \in Nat,
         tries_ <= hops_ * (Retries + 1) + attempt_
  PROVE  /\ tries_ + 1 <= (Retries + 1) * (MaxRedirects + 1)
         /\ tries_ + 1 <= (hops_ + 1) * (Retries + 1)
<1>1. Retries + 1 \in Nat /\ hops_ \in Nat /\ attempt_ \in Nat /\ MaxRedirects \in Nat
  BY FetchConstants
<1>2. (hops_ + 1) * (Retries + 1) = hops_ * (Retries + 1) + (Retries + 1)
  BY <1>1
<1>3. hops_ * (Retries + 1) \in Nat /\ attempt_ <= Retries
  BY <1>1
<1>4. tries_ + 1 <= (hops_ + 1) * (Retries + 1)
  <2> DEFINE before == hops_ * (Retries + 1)
  <2>1. before \in Nat /\ tries_ <= before + attempt_
    BY <1>3
  <2> HIDE DEF before
  <2>2. tries_ + 1 <= before + (Retries + 1)
    BY <2>1, FetchConstants
  <2> QED  BY <1>2, <2>2 DEF before
<1>5. PICK d \in Nat : MaxRedirects = hops_ + d
  <2>1. MaxRedirects - hops_ \in Nat /\ MaxRedirects = hops_ + (MaxRedirects - hops_)
    BY <1>1
  <2> QED  BY <2>1
<1>6. (Retries + 1) * (MaxRedirects + 1) = (hops_ + 1) * (Retries + 1) + d * (Retries + 1)
  BY <1>1, <1>5
<1>7. d * (Retries + 1) \in Nat /\ (hops_ + 1) * (Retries + 1) \in Nat
  BY <1>1, <1>5
<1> QED  BY <1>4, <1>6, <1>7

LEMMA FetchInit == Fetch!Init => FetchOK
<1> SUFFICES ASSUME Fetch!Init
             PROVE  FetchOK
  OBVIOUS
<1> DEFINE me == Fetch!Idle
<1>1. /\ me.pc = "idle" /\ me.outcome = "none" /\ me.last = "none" /\ me.tries = 0
      /\ me.held = 0
  BY DEF Fetch!Idle
<1>2. me \in FetchWorker
  <2>1. 0 \in 0 .. Retries /\ 0 \in 0 .. MaxRedirects /\ 0 \in Nat /\ <<>> \in Seq(Nat)
    BY FetchConstants
  <2> QED  BY <2>1, Zenon DEF Fetch!Idle, FetchWorker
<1> HIDE DEF me
<1>3. (Retries + 1) * (MaxRedirects + 1) \in Nat
  BY FetchConstants
<1>4. WorkerOK(me)
  BY <1>1, <1>3, FetchConstants DEF WorkerOK, ToldWell
<1> QED  BY <1>2, <1>4 DEF Fetch!Init, FetchOK, FetchType, me

\* How a fetch goes on from an answer: with another attempt, at the next hop, with the body, or
\* not at all.
LEMMA AnsweredOK ==
  ASSUME NEW me \in FetchWorker, me.outcome = "none", me.held = 0, me.size = 0,
         NEW t \in Nat, t <= Accounted(me), me.tries = t + 1, now \in Nat,
         NEW reply \in Fetch!Replies, me.last = reply.kind,
         NEW you, you = Fetch!Answered(me, reply)
  PROVE  you \in FetchWorker /\ WorkerOK(you) /\ you.pc # "open"
<1>1. /\ me.hops \in 0 .. MaxRedirects /\ me.attempt \in 0 .. Retries
  BY DEF FetchWorker
<1>2. /\ me.tries <= (Retries + 1) * (MaxRedirects + 1)
      /\ me.tries <= (me.hops + 1) * (Retries + 1)
  BY <1>1, OneMore DEF Accounted
<1>3. reply.kind \in Kinds /\ (reply.kind = "busy" => reply.wait \in RetryAfters)
  BY DEF Fetch!Replies, Kinds
<1>4. 0 <= MaxBytes + 1 /\ 0 <= MaxBytes
  BY FetchConstants
<1>5. ASSUME you = Fetch!Ended(me, reply.kind), reply.kind # "body"
      PROVE  you \in FetchWorker /\ WorkerOK(you) /\ you.pc # "open"
  <2>1. you \in FetchWorker
    BY <1>3, <1>5, Zenon DEF Fetch!Ended, FetchWorker
  <2>2. /\ you.pc = "idle" /\ you.outcome = reply.kind /\ you.last = reply.kind
        /\ you.held = 0 /\ you.tries = me.tries
    BY <1>5 DEF Fetch!Ended, FetchWorker
  <2>3. ToldWell(you)
    BY <1>3, <1>5, <2>2 DEF ToldWell, Kinds
  <2> QED  BY <1>2, <1>4, <2>1, <2>2, <2>3 DEF WorkerOK
<1>6. CASE reply.kind = "body"
  <2>1. you = [me EXCEPT !.pc = "body"]
    BY <1>6 DEF Fetch!Answered, Fetch!Retryable
  <2>2. you \in FetchWorker
    BY <2>1, Zenon DEF FetchWorker
  <2>3. /\ you.pc = "body" /\ you.outcome = "none" /\ you.last = "body" /\ you.held = 0
        /\ you.size = 0 /\ you.tries = me.tries
    BY <1>6, <2>1 DEF FetchWorker
  <2> QED  BY <1>2, <1>4, <2>2, <2>3 DEF WorkerOK
<1>7. CASE reply.kind = "redirect" /\ me.hops < MaxRedirects
  <2>1. you = [me EXCEPT !.pc = "acquire", !.attempt = 0, !.hops = me.hops + 1]
    BY <1>7 DEF Fetch!Answered, Fetch!Retryable, Fetch!Hop
  <2>2. 0 \in 0 .. Retries /\ me.hops + 1 \in 0 .. MaxRedirects
    BY <1>1, <1>7, FetchConstants
  <2>3. you \in FetchWorker
    BY <2>1, <2>2, Zenon DEF FetchWorker
  <2>4. /\ you.pc = "acquire" /\ you.outcome = "none" /\ you.last = "redirect" /\ you.held = 0
        /\ you.size = 0 /\ you.tries = me.tries /\ you.hops = me.hops + 1 /\ you.attempt = 0
    BY <1>7, <2>1 DEF FetchWorker
  <2>5. you.tries <= Accounted(you)
    <3>1. (me.hops + 1) * (Retries + 1) \in Nat
      BY <1>1, FetchConstants
    <3> QED  BY <1>2, <2>4, <3>1 DEF Accounted
  <2> QED  BY <1>2, <1>4, <2>3, <2>4, <2>5 DEF WorkerOK
<1>8. CASE reply.kind = "refused" /\ me.hops < MaxRedirects
  <2>1. you = Fetch!Ended(me, reply.kind)
    BY <1>8 DEF Fetch!Answered, Fetch!Retryable
  <2> QED  BY <1>5, <1>8, <2>1
<1>9. CASE Fetch!Retryable(reply) /\ me.attempt < Retries
  <2>1. reply.kind \in {"busy", "transient"}
    BY <1>9 DEF Fetch!Retryable
  <2>2. you = Fetch!Retried(me, reply)
    BY <1>9, <2>1 DEF Fetch!Answered
  <2> DEFINE wait == Fetch!Wait(reply, me.attempt)
  <2>3. wait \in Int /\ (WaitsAreNatural => wait >= 0)
    <3>1. me.attempt + 1 \in Int /\ me.attempt + 1 >= 0 /\ Cap >= 0 /\ Cap \in Int
      BY <1>1, FetchConstants
    <3>2. reply.kind = "busy" /\ reply.wait # None =>
            reply.wait \in Int /\ (WaitsAreNatural => reply.wait \in Nat)
      BY <1>3, FetchConstants DEF WaitsAreNatural
    <3> QED  BY <3>1, <3>2 DEF Fetch!Wait, Fetch!Backoff, Fetch!RetryAfter
  <2>4. CASE wait < 0
    <3>1. you = Fetch!Ended(me, "valueerror") /\ ~WaitsAreNatural
      BY <2>2, <2>3, <2>4 DEF Fetch!Retried
    <3>2. you \in FetchWorker
      BY <3>1, Zenon DEF Fetch!Ended, FetchWorker
    <3>3. /\ you.pc = "idle" /\ you.outcome = "valueerror" /\ you.last = reply.kind
          /\ you.held = 0 /\ you.tries = me.tries
      BY <3>1 DEF Fetch!Ended, FetchWorker
    <3>4. ToldWell(you)
      BY <2>1, <3>1, <3>3 DEF ToldWell
    <3> QED  BY <1>2, <1>4, <3>2, <3>3, <3>4 DEF WorkerOK
  <2>5. CASE ~(wait < 0)
    <3>1. you = [me EXCEPT !.pc = "acquire", !.attempt = me.attempt + 1, !.until = now + wait]
      BY <2>2, <2>5 DEF Fetch!Retried
    <3>2. now + wait \in Nat
      BY <2>3, <2>5
    <3> HIDE DEF wait
    <3>3. me.attempt + 1 \in 0 .. Retries
      BY <1>1, <1>9, FetchConstants
    <3>4. you \in FetchWorker
      BY <3>1, <3>2, <3>3, Zenon DEF FetchWorker
    <3>5. /\ you.pc = "acquire" /\ you.outcome = "none" /\ you.last = reply.kind /\ you.held = 0
          /\ you.size = 0 /\ you.tries = me.tries /\ you.hops = me.hops
          /\ you.attempt = me.attempt + 1
      BY <3>1 DEF FetchWorker
    <3>6. you.tries <= Accounted(you)
      <4>1. me.hops * (Retries + 1) \in Nat /\ me.attempt \in Nat
        BY <1>1, FetchConstants
      <4> QED  BY <3>5, <4>1 DEF Accounted
    <3> QED  BY <1>2, <1>4, <2>1, <3>4, <3>5, <3>6 DEF WorkerOK
  <2> QED  BY <2>4, <2>5
<1>10. CASE /\ reply.kind # "body" /\ ~(reply.kind = "redirect" /\ me.hops < MaxRedirects)
            /\ ~(reply.kind = "refused" /\ me.hops < MaxRedirects)
            /\ ~(Fetch!Retryable(reply) /\ me.attempt < Retries)
  <2>1. you = Fetch!Ended(me, reply.kind)
    BY <1>10 DEF Fetch!Answered
  <2> QED  BY <1>5, <1>10, <2>1
<1> QED  BY <1>6, <1>7, <1>8, <1>9, <1>10

\* One worker moves, and is left as it should be.
Moves(w) ==
  /\ worker[w] \in FetchWorker /\ WorkerOK(worker[w]) /\ worker'[w] \in FetchWorker
  /\ WorkerOK(worker'[w]) /\ \A v \in Fetchers \ {w} : worker'[v] = worker[v]
  /\ worker' \in [Fetchers -> FetchWorker]

\* The steps of a worker, as the throttle sees them.
Reserves(w) ==
  /\ worker[w].pc # "open" /\ worker'[w].pc = "open"
  /\ requests' = requests /\ now' = now
  /\ Interval > 0 => worker'[w].until = Fetch!Slot /\ next_allowed' = Fetch!Slot + Interval
  /\ Interval = 0 => next_allowed' = next_allowed

Requests(w) ==
  /\ worker[w].pc = "open" /\ now >= worker[w].until /\ worker'[w].pc # "open"
  /\ requests' = requests + 1 /\ now' = now /\ next_allowed' = next_allowed

GoesOn(w) ==
  /\ worker[w].pc # "open" /\ worker'[w].pc # "open"
  /\ requests' = requests /\ now' = now /\ next_allowed' = next_allowed

LEMMA SetMoves ==
  ASSUME FetchOK, NEW w \in Fetchers, NEW me \in FetchWorker, WorkerOK(me), Fetch!Set(w, me)
  PROVE  Moves(w) /\ worker'[w] = me
BY DEF FetchOK, FetchType, Fetch!Set, Moves

LEMMA BeginStep ==
  ASSUME FetchOK, NEW w \in Fetchers, Fetch!Begin(w)
  PROVE  Moves(w) /\ GoesOn(w)
<1>1. /\ worker[w].pc = "idle" /\ requests' = requests /\ now' = now
      /\ next_allowed' = next_allowed
  BY DEF Fetch!Begin, Fetch!Me
<1>2. PICK probe \in BOOLEAN :
        LET me == [Fetch!Idle EXCEPT !.probe = probe]
        IN  \/ Fetch!Set(w, [me EXCEPT !.pc = "acquire"])
            \/ Fetch!Set(w, Fetch!Ended([me EXCEPT !.last = "refused"],
                                        IF probe THEN "changed" ELSE "refused"))
  BY DEF Fetch!Begin
<1> DEFINE me    == [Fetch!Idle EXCEPT !.probe = probe]
           said  == IF probe THEN "changed" ELSE "refused"
           start == [me EXCEPT !.pc = "acquire"]
           end   == Fetch!Ended([me EXCEPT !.last = "refused"], said)
<1>3. (Retries + 1) * (MaxRedirects + 1) \in Nat /\ 0 * (Retries + 1) = 0
  BY FetchConstants
<1>4. me \in FetchWorker
  <2>1. 0 \in 0 .. Retries /\ 0 \in 0 .. MaxRedirects /\ 0 \in Nat /\ <<>> \in Seq(Nat)
    BY FetchConstants
  <2> QED  BY <2>1, Zenon DEF Fetch!Idle, FetchWorker
<1>5. /\ me.outcome = "none" /\ me.last = "none" /\ me.tries = 0 /\ me.held = 0 /\ me.size = 0
      /\ me.hops = 0 /\ me.attempt = 0
  BY DEF Fetch!Idle
<1>6. (me.probe <=> probe) /\ said \in {"changed", "refused"} /\ (~probe => said = "refused")
  BY DEF Fetch!Idle
<1> HIDE DEF me, said
<1>7. start \in FetchWorker /\ WorkerOK(start) /\ start.pc = "acquire"
  <2>1. start \in FetchWorker
    BY <1>4, Zenon DEF FetchWorker
  <2>2. /\ start.pc = "acquire" /\ start.outcome = "none" /\ start.last = "none"
        /\ start.tries = 0 /\ start.held = 0 /\ start.size = 0 /\ start.hops = 0
        /\ start.attempt = 0
    BY <1>4, <1>5 DEF FetchWorker
  <2> HIDE DEF start
  <2> QED  BY <1>3, <2>1, <2>2, FetchConstants DEF WorkerOK, Accounted
<1>8. end \in FetchWorker /\ WorkerOK(end) /\ end.pc = "idle"
  <2>1. end \in FetchWorker
    BY <1>4, <1>6, Zenon DEF FetchWorker, Fetch!Ended, Kinds
  <2>2. /\ end.pc = "idle" /\ end.outcome = said /\ end.last = "refused"
        /\ end.tries = 0 /\ end.held = 0
    BY <1>4, <1>5 DEF FetchWorker, Fetch!Ended
  <2>3. end.probe = me.probe
    BY <1>4 DEF FetchWorker, Fetch!Ended
  <2> HIDE DEF end
  <2>4. ~end.probe => end.outcome = end.last
    BY <1>6, <2>2, <2>3
  <2>5. ~end.probe => ToldWell(end)
    BY <2>2, <2>4 DEF ToldWell
  <2> QED  BY <1>3, <2>1, <2>2, <2>5, FetchConstants DEF WorkerOK
<1>9. Fetch!Set(w, start) \/ Fetch!Set(w, end)
  BY <1>2 DEF me, said
<1> HIDE DEF start, end
<1> QED  BY <1>1, <1>7, <1>8, <1>9, SetMoves DEF GoesOn

LEMMA AcquireStep ==
  ASSUME FetchOK, NEW w \in Fetchers, Fetch!Acquire(w)
  PROVE  Moves(w) /\ Reserves(w)
<1> DEFINE me    == worker[w]
           until == IF Interval = 0 THEN now ELSE Fetch!Slot
           you   == [me EXCEPT !.pc = "open", !.until = until]
<1>1. /\ me.pc = "acquire" /\ Fetch!Set(w, you) /\ requests' = requests /\ now' = now
      /\ next_allowed' = IF Interval = 0 THEN next_allowed ELSE Fetch!Slot + Interval
  BY DEF Fetch!Acquire, Fetch!Me, Fetch!AfterSlot
<1>2. me \in FetchWorker /\ WorkerOK(me) /\ until \in Nat
  BY DEF FetchOK, FetchType, Fetch!Slot
<1>3. Interval > 0 => until = Fetch!Slot
  OBVIOUS
<1> HIDE DEF me, until
<1>4. you \in FetchWorker
  BY <1>2, Zenon DEF FetchWorker
<1>5. /\ you.pc = "open" /\ you.until = until /\ you.outcome = me.outcome /\ you.last = me.last
      /\ you.tries = me.tries /\ you.held = me.held /\ you.size = me.size /\ you.hops = me.hops
      /\ you.attempt = me.attempt
  BY <1>2 DEF FetchWorker
<1> HIDE DEF you
<1>6. WorkerOK(you)
  BY <1>1, <1>2, <1>5 DEF WorkerOK, Accounted
<1>7. Moves(w) /\ worker'[w] = you
  BY <1>1, <1>4, <1>6, SetMoves
<1> QED  BY <1>1, <1>3, <1>5, <1>7, FetchConstants DEF Reserves, me

LEMMA OpenStep ==
  ASSUME FetchOK, NEW w \in Fetchers, Fetch!Open(w)
  PROVE  Moves(w) /\ Requests(w)
<1> DEFINE was == worker[w]
<1>1. /\ was.pc = "open" /\ now >= was.until /\ requests' = requests + 1 /\ now' = now
      /\ next_allowed' = next_allowed
  BY DEF Fetch!Open, Fetch!Me
<1>2. was \in FetchWorker /\ WorkerOK(was) /\ now \in Nat
  BY DEF FetchOK, FetchType
<1>3. PICK reply \in IF was.probe THEN Fetch!ProbeReplies ELSE Fetch!Replies :
        LET me == [was EXCEPT !.tries = @ + 1, !.last = reply.kind]
        IN  Fetch!Set(w, IF me.probe THEN Fetch!Probed(me, reply) ELSE Fetch!Answered(me, reply))
  BY DEF Fetch!Open, Fetch!Me
<1>4. was.tries \in Nat /\ was.hops \in 0 .. MaxRedirects /\ was.attempt \in 0 .. Retries
      /\ was.tries + 1 \in Nat
  BY <1>2 DEF FetchWorker
<1>5. /\ was.outcome = "none" /\ was.held = 0 /\ was.size = 0 /\ was.tries <= Accounted(was)
  BY <1>1, <1>2 DEF WorkerOK
<1>6. was.tries + 1 <= (Retries + 1) * (MaxRedirects + 1)
  BY <1>4, <1>5, OneMore DEF Accounted
<1> DEFINE me == [was EXCEPT !.tries = was.tries + 1, !.last = reply.kind]
<1>7. Fetch!Set(w, IF me.probe THEN Fetch!Probed(me, reply) ELSE Fetch!Answered(me, reply))
  BY <1>3
<1>8. reply.kind \in Kinds \cup {"none", "unmodified", "other"}
  <2>1. CASE was.probe
    BY <1>3, <2>1 DEF Fetch!ProbeReplies
  <2>2. CASE ~was.probe
    BY <1>3, <2>2 DEF Fetch!Replies, Kinds
  <2> QED  BY <2>1, <2>2
<1> HIDE DEF was
<1>9. me \in FetchWorker
  BY <1>2, <1>4, <1>8, Zenon DEF FetchWorker
<1>10. /\ me.outcome = "none" /\ me.held = 0 /\ me.size = 0 /\ me.tries = was.tries + 1
       /\ me.last = reply.kind /\ me.hops = was.hops /\ me.attempt = was.attempt
  BY <1>2, <1>5 DEF FetchWorker
<1>11. me.probe = was.probe
  BY <1>2 DEF FetchWorker
<1> HIDE DEF me
<1>12. ASSUME NEW you \in FetchWorker, WorkerOK(you), you.pc # "open", Fetch!Set(w, you)
       PROVE  Moves(w) /\ Requests(w)
  BY <1>1, <1>12, SetMoves DEF Requests, was
<1>13. CASE was.probe
  <2> DEFINE you == Fetch!Probed(me, reply)
  <2>1. Fetch!Set(w, you)
    BY <1>7, <1>11, <1>13
  <2>2. you \in FetchWorker
    BY <1>9, Zenon DEF Fetch!Probed, Fetch!Ended, FetchWorker
  <2>3. /\ you.pc = "idle" /\ you.tries = was.tries + 1 /\ you.held = 0
    BY <1>9, <1>10 DEF Fetch!Probed, Fetch!Ended, FetchWorker
  <2>4. you.probe = me.probe
    BY <1>9 DEF Fetch!Probed, Fetch!Ended, FetchWorker
  <2> HIDE DEF you
  <2>5. you.probe
    BY <1>11, <1>13, <2>4
  <2>6. WorkerOK(you)
    BY <1>6, <2>3, <2>5, FetchConstants DEF WorkerOK
  <2> QED  BY <1>12, <2>1, <2>2, <2>3, <2>6
<1>14. CASE ~was.probe
  <2> DEFINE you == Fetch!Answered(me, reply)
  <2>1. Fetch!Set(w, you) /\ reply \in Fetch!Replies
    BY <1>3, <1>7, <1>11, <1>14 DEF was
  <2>2. was.tries <= Accounted(me)
    BY <1>5, <1>10 DEF Accounted
  <2>3. you \in FetchWorker /\ WorkerOK(you) /\ you.pc # "open"
    BY <1>2, <1>4, <1>9, <1>10, <2>1, <2>2, AnsweredOK
  <2> HIDE DEF you
  <2> QED  BY <1>12, <2>1, <2>3
<1> QED  BY <1>13, <1>14

LEMMA ReadBodyStep ==
  ASSUME FetchOK, NEW w \in Fetchers, Fetch!ReadBody(w)
  PROVE  Moves(w) /\ GoesOn(w)
<1> DEFINE me == worker[w]
<1>1. /\ me.pc = "body" /\ requests' = requests /\ now' = now /\ next_allowed' = next_allowed
      /\ \/ \E body \in Payloads : Fetch!Set(w, [me EXCEPT !.pc = "inflate", !.rest = body])
         \/ Fetch!Set(w, Fetch!Ended(me, "clienterror"))
  BY DEF Fetch!ReadBody, Fetch!Me
<1>2. me \in FetchWorker /\ WorkerOK(me)
  BY DEF FetchOK, FetchType
<1>3. ASSUME NEW you \in FetchWorker, WorkerOK(you), you.pc # "open", Fetch!Set(w, you)
      PROVE  Moves(w) /\ GoesOn(w)
  BY <1>1, <1>3, SetMoves DEF GoesOn
<1> HIDE DEF me
<1>4. CASE Fetch!Set(w, Fetch!Ended(me, "clienterror"))
  <2> DEFINE you == Fetch!Ended(me, "clienterror")
  <2>1. you \in FetchWorker
    BY <1>2, Zenon DEF Fetch!Ended, FetchWorker
  <2>2. /\ you.pc = "idle" /\ you.outcome = "clienterror" /\ you.last = me.last
        /\ you.tries = me.tries /\ you.held = me.held
    BY <1>2 DEF Fetch!Ended, FetchWorker
  <2> HIDE DEF you
  <2>3. WorkerOK(you)
    BY <1>1, <1>2, <2>2 DEF WorkerOK, ToldWell
  <2> QED  BY <1>3, <1>4, <2>1, <2>2, <2>3 DEF you
<1>5. ASSUME NEW body \in Payloads, Fetch!Set(w, [me EXCEPT !.pc = "inflate", !.rest = body])
      PROVE  Moves(w) /\ GoesOn(w)
  <2> DEFINE you == [me EXCEPT !.pc = "inflate", !.rest = body]
  <2>1. body \in Seq(Nat)
    BY FetchConstants
  <2>2. you \in FetchWorker
    BY <1>2, <2>1, Zenon DEF FetchWorker
  <2>3. /\ you.pc = "inflate" /\ you.outcome = me.outcome /\ you.last = me.last
        /\ you.tries = me.tries /\ you.held = me.held /\ you.size = me.size
    BY <1>2 DEF FetchWorker
  <2> HIDE DEF you
  <2>4. WorkerOK(you)
    BY <1>1, <1>2, <2>3 DEF WorkerOK
  <2> QED  BY <1>3, <1>5, <2>2, <2>3, <2>4 DEF you
<1> QED  BY <1>1, <1>4, <1>5

LEMMA InflateStep ==
  ASSUME FetchOK, NEW w \in Fetchers, Fetch!Inflate(w)
  PROVE  Moves(w) /\ GoesOn(w)
<1> DEFINE me == worker[w]
<1>1. /\ me.pc = "inflate" /\ requests' = requests /\ now' = now /\ next_allowed' = next_allowed
  BY DEF Fetch!Inflate, Fetch!Me
<1>2. me \in FetchWorker /\ WorkerOK(me)
  BY DEF FetchOK, FetchType
<1>3. ASSUME NEW you \in FetchWorker, WorkerOK(you), you.pc # "open", Fetch!Set(w, you)
      PROVE  Moves(w) /\ GoesOn(w)
  BY <1>1, <1>3, SetMoves DEF GoesOn
<1>4. \/ me.rest = <<>> /\ Fetch!Set(w, Fetch!Ended(me, "body"))
      \/ /\ me.rest # <<>>
         /\ Fetch!Set(w, IF Fetch!Member(me).held > MaxBytes
                         THEN Fetch!Ended(Fetch!Member(me), "clienterror")
                         ELSE Fetch!Member(me))
      \/ Fetch!Set(w, Fetch!Ended(me, "clienterror"))
  BY DEF Fetch!Inflate, Fetch!Me
<1> HIDE DEF me
<1>5. /\ me.last = "body" /\ me.held = me.size /\ me.size <= MaxBytes /\ me.outcome = "none"
      /\ me.tries <= (Retries + 1) * (MaxRedirects + 1)
  BY <1>1, <1>2 DEF WorkerOK
<1>6. ASSUME NEW he \in FetchWorker, he.last = "body", he.held <= MaxBytes + 1,
             he.tries <= (Retries + 1) * (MaxRedirects + 1),
             NEW outcome \in {"body", "clienterror"},
             outcome = "body" => he.held = he.size /\ he.size <= MaxBytes
      PROVE  LET you == Fetch!Ended(he, outcome)
             IN  you \in FetchWorker /\ WorkerOK(you) /\ you.pc # "open"
  <2> DEFINE you == Fetch!Ended(he, outcome)
  <2>1. outcome \in Kinds \cup {"none", "clienterror", "valueerror", "unmodified", "changed"}
    BY DEF Kinds
  <2>2. you \in FetchWorker
    BY <2>1, Zenon DEF Fetch!Ended, FetchWorker
  <2>3. /\ you.pc = "idle" /\ you.outcome = outcome /\ you.last = "body"
        /\ you.tries = he.tries /\ you.held = he.held /\ you.size = he.size
    BY <1>6 DEF Fetch!Ended, FetchWorker
  <2> HIDE DEF you
  <2>4. WorkerOK(you)
    BY <1>6, <2>3 DEF WorkerOK, ToldWell
  <2> QED  BY <2>2, <2>3, <2>4 DEF you
<1>7. me.held <= MaxBytes + 1
  BY <1>2 DEF WorkerOK
<1>8. CASE me.rest = <<>> /\ Fetch!Set(w, Fetch!Ended(me, "body"))
  BY <1>2, <1>3, <1>5, <1>6, <1>7, <1>8
<1>9. CASE Fetch!Set(w, Fetch!Ended(me, "clienterror"))
  BY <1>2, <1>3, <1>5, <1>6, <1>7, <1>9
<1>10. CASE /\ me.rest # <<>>
            /\ Fetch!Set(w, IF Fetch!Member(me).held > MaxBytes
                            THEN Fetch!Ended(Fetch!Member(me), "clienterror")
                            ELSE Fetch!Member(me))
  <2> DEFINE you   == Fetch!Member(me)
             size  == Head(me.rest)
             left  == Tail(me.rest)
             after == Fetch!Inflated(me.held, size)
  <2>1. me.rest \in Seq(Nat) /\ me.held \in Nat /\ me.size \in Nat
    BY <1>2 DEF FetchWorker
  <2>2. size \in Nat /\ left \in Seq(Nat)
    BY <1>10, <2>1
  <2> HIDE DEF size, left
  <2>3. /\ after \in Nat /\ after <= MaxBytes + 1
        /\ after <= MaxBytes => after = me.size + size
    BY <1>5, <2>1, <2>2, FetchConstants DEF Fetch!Inflated, Fetch!Budget
  <2>4. me.size + size \in Nat
    BY <2>1, <2>2
  <2>5. you = [me EXCEPT !.rest = left, !.size = me.size + size, !.held = after]
    BY DEF Fetch!Member, size, left
  <2> HIDE DEF after, you
  <2>6. you \in FetchWorker
    BY <1>2, <2>2, <2>3, <2>4, <2>5, Zenon DEF FetchWorker
  <2>7. /\ you.pc = "inflate" /\ you.outcome = "none" /\ you.last = "body"
        /\ you.tries = me.tries /\ you.held = after /\ you.size = me.size + size
    BY <1>1, <1>2, <1>5, <2>5 DEF FetchWorker
  <2>8. CASE you.held > MaxBytes
    BY <1>3, <1>5, <1>6, <1>10, <2>3, <2>6, <2>7, <2>8 DEF you
  <2>9. CASE ~(you.held > MaxBytes)
    <3>1. you.held <= MaxBytes /\ you.held = you.size
      BY <2>3, <2>7, <2>9, FetchConstants
    <3>2. WorkerOK(you)
      BY <1>5, <2>3, <2>7, <3>1 DEF WorkerOK
    <3>3. Fetch!Set(w, you)
      BY <1>10, <2>9 DEF you
    <3> QED  BY <1>3, <2>6, <2>7, <3>2, <3>3
  <2> QED  BY <2>8, <2>9
<1> QED  BY <1>4, <1>8, <1>9, <1>10

\* Those who have a slot and have not yet used it, and those of them who may by a time.
Openings  == {w \in Fetchers : worker[w].pc = "open"}
Opened(t) == {w \in Openings : worker[w].until <= t}

\* Requests and the slots given out cost an interval each, of the time the throttle has given
\* away; and what can have been requested by a time, of that time.
RateInv ==
  Interval > 0 =>
    /\ IsFiniteSet(Openings)
    /\ Interval * (requests + Cardinality(Openings)) <= next_allowed
    /\ \A t \in Nat : t >= now =>
         Interval * (requests + Cardinality(Opened(t))) <= t + Interval

FetchInv == FetchOK /\ RateInv

LEMMA Intervals ==
  ASSUME NEW a \in Nat, NEW b \in Nat, a <= b
  PROVE  /\ Interval * a \in Nat /\ Interval * b \in Nat /\ Interval * a <= Interval * b
         /\ Interval * (a + 1) = Interval * a + Interval
<1>1. PICK d \in Nat : b = a + d
  <2>1. b - a \in Nat /\ b = a + (b - a)
    OBVIOUS
  <2> QED  BY <2>1
<1>2. Interval * b = Interval * a + Interval * d
  BY <1>1, FetchConstants
<1>3. Interval * a \in Nat /\ Interval * d \in Nat /\ Interval * (a + 1) = Interval * a + Interval
  BY <1>1, FetchConstants
<1> QED  BY <1>2, <1>3, FetchConstants

LEMMA RateReserves ==
  ASSUME FetchInv, NEW w \in Fetchers, Moves(w), Reserves(w)
  PROVE  RateInv'
<1> SUFFICES ASSUME Interval > 0
             PROVE  /\ IsFiniteSet(Openings')
                    /\ Interval * (requests' + Cardinality(Openings')) <= next_allowed'
                    /\ \A t \in Nat : t >= now' =>
                         Interval * (requests' + Cardinality(Opened(t)')) <= t + Interval
  BY DEF RateInv
<1>1. /\ now \in Nat /\ next_allowed \in Nat /\ requests \in Nat /\ Interval \in Nat
      /\ worker \in [Fetchers -> FetchWorker]
  BY FetchConstants DEF FetchInv, FetchOK, FetchType
<1>2. /\ IsFiniteSet(Openings) /\ w \notin Openings /\ Openings' = Openings \cup {w}
  BY DEF FetchInv, RateInv, Openings, Moves, Reserves
<1>3. IsFiniteSet(Openings') /\ Cardinality(Openings') = Cardinality(Openings) + 1
  BY <1>2, FS_AddElement
<1> DEFINE c == Cardinality(Openings)
           n == requests + c
<1>4. c \in Nat /\ n \in Nat
  BY <1>1, <1>2, FS_CardinalityType
<1>5. Interval * n <= next_allowed
  BY DEF FetchInv, RateInv
<1>6. requests' = requests /\ requests' + Cardinality(Openings') = n + 1
  BY <1>1, <1>3, <1>4 DEF Reserves
<1>7. /\ worker'[w].until = Fetch!Slot /\ next_allowed' = Fetch!Slot + Interval /\ now' = now
      /\ Fetch!Slot \in Nat /\ Fetch!Slot >= next_allowed
  BY <1>1 DEF Reserves, Fetch!Slot
<1> DEFINE cost == Interval * n
<1>8. cost \in Nat /\ Interval * (n + 1) = cost + Interval
  BY <1>4, Intervals
<1>9. cost <= next_allowed
  BY <1>5
<1> HIDE DEF cost, n, c
<1>10. Interval * (requests' + Cardinality(Openings')) <= next_allowed'
  BY <1>1, <1>6, <1>7, <1>8, <1>9
<1>11. ASSUME NEW t \in Nat, t >= now'
       PROVE  Interval * (requests' + Cardinality(Opened(t)')) <= t + Interval
  <2>1. Opened(t)' \subseteq Openings'
    BY DEF Opened
  <2>2. IsFiniteSet(Opened(t)') /\ Cardinality(Opened(t)') <= Cardinality(Openings')
    BY <1>3, <2>1, FS_Subset
  <2>3. Cardinality(Opened(t)') \in Nat /\ Cardinality(Openings') \in Nat
    BY <1>3, <2>2, FS_CardinalityType
  <2>4. CASE Fetch!Slot <= t
    <3>1. requests' + Cardinality(Opened(t)') <= n + 1 /\ requests' + Cardinality(Opened(t)') \in Nat
      BY <1>1, <1>6, <2>2, <2>3
    <3>2. Interval * (requests' + Cardinality(Opened(t)')) <= Interval * (n + 1)
      BY <1>4, <3>1, Intervals DEF n
    <3>3. Interval * (requests' + Cardinality(Opened(t)')) \in Nat
      BY <1>4, <3>1, Intervals DEF n
    <3> QED  BY <1>1, <1>7, <1>8, <1>9, <2>4, <3>2, <3>3
  <2>5. CASE ~(Fetch!Slot <= t)
    <3>1. ~(worker'[w].until <= t)
      BY <1>7, <2>5
    <3>2. Opened(t)' = {v \in Openings' : worker'[v].until <= t}
      BY DEF Opened
    <3>3. \A v \in Openings : v \in Fetchers /\ v # w
      BY <1>2 DEF Openings
    <3>4. \A v \in Openings : worker'[v] = worker[v]
      BY <3>3 DEF Moves
    <3>5. Opened(t)' = Opened(t)
      BY <1>2, <3>1, <3>2, <3>4 DEF Opened
    <3> QED  BY <1>6, <1>7, <1>11, <3>5 DEF FetchInv, RateInv
  <2> QED  BY <2>4, <2>5
<1> QED  BY <1>3, <1>10, <1>11

LEMMA RateRequests ==
  ASSUME FetchInv, NEW w \in Fetchers, Moves(w), Requests(w)
  PROVE  RateInv'
<1> SUFFICES ASSUME Interval > 0
             PROVE  /\ IsFiniteSet(Openings')
                    /\ Interval * (requests' + Cardinality(Openings')) <= next_allowed'
                    /\ \A t \in Nat : t >= now' =>
                         Interval * (requests' + Cardinality(Opened(t)')) <= t + Interval
  BY DEF RateInv
<1>1. /\ now \in Nat /\ requests \in Nat /\ worker \in [Fetchers -> FetchWorker]
      /\ worker[w].until \in Nat
  BY DEF FetchInv, FetchOK, FetchType, Moves, FetchWorker
<1>2. /\ IsFiniteSet(Openings) /\ w \in Openings /\ Openings' = Openings \ {w}
  BY DEF FetchInv, RateInv, Openings, Moves, Requests
<1>3. requests' = requests + 1 /\ now' = now /\ next_allowed' = next_allowed
      /\ now >= worker[w].until
  BY DEF Requests
<1>4. ASSUME NEW S \in SUBSET Fetchers, IsFiniteSet(S), w \in S
      PROVE  /\ IsFiniteSet(S \ {w})
             /\ requests' + Cardinality(S \ {w}) = requests + Cardinality(S)
  <2>1. IsFiniteSet(S \ {w}) /\ Cardinality(S \ {w}) = Cardinality(S) - 1
    BY <1>4, FS_RemoveElement
  <2>2. Cardinality(S) \in Nat
    BY <1>4, FS_CardinalityType
  <2> QED  BY <1>1, <1>3, <2>1, <2>2
<1>5. Openings \subseteq Fetchers
  BY DEF Openings
<1>6. /\ IsFiniteSet(Openings')
      /\ requests' + Cardinality(Openings') = requests + Cardinality(Openings)
  BY <1>2, <1>4, <1>5
<1>7. Interval * (requests' + Cardinality(Openings')) <= next_allowed'
  BY <1>3, <1>6 DEF FetchInv, RateInv
<1>8. ASSUME NEW t \in Nat, t >= now'
      PROVE  Interval * (requests' + Cardinality(Opened(t)')) <= t + Interval
  <2>1. \A v \in Openings' : worker'[v] = worker[v]
    <3>1. \A v \in Openings' : v \in Fetchers \ {w}
      BY <1>2, <1>5
    <3> QED  BY <3>1 DEF Moves
  <2>2. Opened(t)' = {v \in Openings' : worker'[v].until <= t}
    BY DEF Opened
  <2>3. Opened(t)' = Opened(t) \ {w}
    BY <1>2, <2>1, <2>2 DEF Opened
  <2>4. w \in Opened(t)
    BY <1>1, <1>2, <1>3, <1>8 DEF Opened
  <2>5. Opened(t) \subseteq Fetchers /\ IsFiniteSet(Opened(t))
    <3>1. Opened(t) \subseteq Openings
      BY DEF Opened
    <3> QED  BY <1>2, <1>5, <3>1, FS_Subset
  <2>6. requests' + Cardinality(Opened(t)') = requests + Cardinality(Opened(t))
    BY <1>4, <2>3, <2>4, <2>5
  <2>7. t >= now
    BY <1>3, <1>8
  <2> QED  BY <2>6, <2>7 DEF FetchInv, RateInv
<1> QED  BY <1>6, <1>7, <1>8

LEMMA RateGoesOn ==
  ASSUME FetchInv, NEW w \in Fetchers, Moves(w), GoesOn(w)
  PROVE  RateInv'
<1>1. worker \in [Fetchers -> FetchWorker]
  BY DEF FetchInv, FetchOK, FetchType
<1>2. Openings' = Openings
  BY <1>1 DEF Openings, Moves, GoesOn
<1>3. \A v \in Openings : worker'[v] = worker[v]
  <2>1. \A v \in Openings : v \in Fetchers \ {w}
    BY DEF Openings, GoesOn
  <2> QED  BY <2>1 DEF Moves
<1>4. ASSUME NEW t \in Nat
      PROVE  Opened(t)' = Opened(t)
  <2>1. Opened(t)' = {v \in Openings' : worker'[v].until <= t}
    BY DEF Opened
  <2> QED  BY <1>2, <1>3, <2>1 DEF Opened
<1>5. now' = now /\ requests' = requests /\ next_allowed' = next_allowed
  BY DEF GoesOn
<1> QED  BY <1>2, <1>4, <1>5 DEF FetchInv, RateInv

LEMMA FetchStep == FetchInv /\ [Fetch!Next]_Fetch!fetchVars => FetchInv'
<1> SUFFICES ASSUME FetchInv, [Fetch!Next]_Fetch!fetchVars
             PROVE  FetchInv'
  OBVIOUS
<1>1. FetchOK
  BY DEF FetchInv
<1>2. ASSUME NEW w \in Fetchers, Moves(w), requests' \in Nat, now' = now, next_allowed' \in Nat
      PROVE  FetchOK'
  <2>1. FetchType'
    BY <1>1, <1>2 DEF FetchOK, FetchType, Moves
  <2>2. \A v \in Fetchers : WorkerOK(worker'[v])
    BY <1>1, <1>2 DEF FetchOK, Moves
  <2>3. (\A v \in Fetchers : WorkerOK(worker[v]))' <=> \A v \in Fetchers : WorkerOK(worker'[v])
    BY DEF WorkerOK, ToldWell, Accounted, WaitsAreNatural
  <2> QED  BY <2>1, <2>2, <2>3 DEF FetchOK
<1>3. ASSUME NEW w \in Fetchers, Moves(w), GoesOn(w)
      PROVE  FetchInv'
  <2>1. FetchOK'
    BY <1>1, <1>2, <1>3 DEF FetchOK, FetchType, GoesOn
  <2> QED  BY <1>3, <2>1, RateGoesOn DEF FetchInv
<1>4. ASSUME NEW w \in Fetchers, Fetch!Acquire(w)
      PROVE  FetchInv'
  <2>1. Moves(w) /\ Reserves(w)
    BY <1>1, <1>4, AcquireStep
  <2>2. requests' \in Nat /\ now' = now /\ next_allowed' \in Nat
    BY <1>1, <2>1, FetchConstants DEF FetchOK, FetchType, Reserves, Fetch!Slot
  <2>3. FetchOK'
    BY <1>2, <2>1, <2>2
  <2> QED  BY <2>1, <2>3, RateReserves DEF FetchInv
<1>5. ASSUME NEW w \in Fetchers, Fetch!Open(w)
      PROVE  FetchInv'
  <2>1. Moves(w) /\ Requests(w)
    BY <1>1, <1>5, OpenStep
  <2>2. requests' \in Nat /\ now' = now /\ next_allowed' \in Nat
    BY <1>1, <2>1 DEF FetchOK, FetchType, Requests
  <2>3. FetchOK'
    BY <1>2, <2>1, <2>2
  <2> QED  BY <2>1, <2>3, RateRequests DEF FetchInv
<1>6. CASE Fetch!Tick
  <2>1. now \in Nat /\ now' = now + 1 /\ UNCHANGED <<next_allowed, worker, requests>>
    BY <1>1, <1>6 DEF FetchOK, FetchType, Fetch!Tick
  <2>2. now' \in Nat
    BY <2>1
  <2>3. FetchOK'
    BY <1>1, <2>1, <2>2 DEF FetchOK, FetchType
  <2>4. Openings' = Openings /\ \A t \in Nat : Opened(t)' = Opened(t)
    BY <2>1 DEF Openings, Opened
  <2>5. \A t \in Nat : t >= now' => t >= now
    BY <2>1
  <2>6. RateInv'
    BY <2>1, <2>4, <2>5 DEF FetchInv, RateInv
  <2> QED  BY <2>3, <2>6 DEF FetchInv
<1>7. CASE UNCHANGED Fetch!fetchVars
  <2>1. UNCHANGED <<now, next_allowed, worker, requests>>
    BY <1>7 DEF Fetch!fetchVars
  <2>2. Openings' = Openings /\ \A t \in Nat : Opened(t)' = Opened(t)
    BY <2>1 DEF Openings, Opened
  <2> QED  BY <1>1, <2>1, <2>2 DEF FetchInv, FetchOK, FetchType, RateInv
<1> QED  BY <1>1, <1>3, <1>4, <1>5, <1>6, <1>7, BeginStep, ReadBodyStep, InflateStep DEF Fetch!Next

LEMMA RateStart == Fetch!Init => RateInv
<1> SUFFICES ASSUME Fetch!Init
             PROVE  RateInv
  OBVIOUS
<1>1. Openings = {} /\ \A t \in Nat : Opened(t) = {}
  BY DEF Fetch!Init, Fetch!Idle, Openings, Opened
<1>2. requests = 0 /\ now = 0 /\ next_allowed = 0 /\ Interval * (0 + 0) = 0 /\ Interval \in Nat
  BY FetchConstants DEF Fetch!Init
<1>3. IsFiniteSet({}) /\ Cardinality({}) = 0
  BY FS_EmptySet
<1> QED  BY <1>1, <1>2, <1>3 DEF RateInv

\* What a rate of an interval each means in whole requests.
LEMMA FetchRate == FetchInv => Fetch!RateBound
<1> SUFFICES ASSUME FetchInv, Interval > 0
             PROVE  requests <= now \div Interval + 1
  BY DEF Fetch!RateBound
<1>1. now \in Nat /\ requests \in Nat /\ Interval \in Nat
  BY FetchConstants DEF FetchInv, FetchOK, FetchType
<1> DEFINE mine == Interval * requests
           all == Interval * (requests + Cardinality(Opened(now)))
<1>2. all <= now + Interval
  BY <1>1 DEF FetchInv, RateInv
<1>3. IsFiniteSet(Opened(now))
  <2>1. Opened(now) \subseteq Openings
    BY DEF Opened
  <2> QED  BY <2>1, FS_Subset DEF FetchInv, RateInv
<1>4. Cardinality(Opened(now)) \in Nat
  BY <1>3, FS_CardinalityType
<1>5. /\ requests <= requests + Cardinality(Opened(now))
      /\ requests + Cardinality(Opened(now)) \in Nat
  BY <1>1, <1>4
<1>6. mine <= all /\ mine \in Nat /\ all \in Nat
  BY <1>1, <1>5, Intervals
<1>7. mine <= now + Interval
  <2> HIDE DEF mine, all
  <2> QED  BY <1>1, <1>2, <1>6
<1>8. now \in Nat /\ requests \in Nat /\ Interval \in Nat \ {0}
  BY <1>1
<1> QED  BY <1>7, <1>8

LEMMA FetchEnds == FetchInv /\ WaitsAreNatural => Fetch!EndsAsAnswered
<1> SUFFICES ASSUME FetchInv, WaitsAreNatural, NEW w \in Fetchers
             PROVE  ~worker[w].probe =>
                      /\ worker[w].outcome \in {"none", "clienterror", worker[w].last}
                      /\ worker[w].outcome = "clienterror" => worker[w].last = "body"
                      /\ worker[w].outcome = "body" =>
                           worker[w].held = worker[w].size /\ worker[w].size <= MaxBytes
                      /\ worker[w].tries <= (Retries + 1) * (MaxRedirects + 1)
                      /\ worker[w].last = "permanent" => worker[w].outcome = "permanent"
                      /\ worker[w].held <= MaxBytes + 1
  BY DEF Fetch!EndsAsAnswered, Fetch!Me
<1>1. WorkerOK(worker[w])
  BY DEF FetchInv, FetchOK
<1> QED  BY <1>1 DEF WorkerOK, ToldWell

-----------------------------------------------------------------------------
(* Images (Localize). *)

Copies == Cardinality(Urls) * MaxPasses

\* What the names on the disk and those claimed may come to, a name for each URL a pass has met.
Room(names, left, n) ==
  /\ IsFiniteSet(names) /\ IsFiniteSet(left)
  /\ Cardinality(names) + Cardinality(left) <= Cardinality(Urls) * n

Documents == [Urls -> Images!Files \cup {None}]

ImagesType ==
  /\ doc \in Documents /\ files \in [Images!Files -> Urls \cup {None}]
  /\ passes \in 0 .. MaxPasses
  /\ pass.pc \in {"idle", "fetch", "checkpoint"}
  /\ pass.pc # "idle" =>
       /\ pass \in [pc : {"fetch", "checkpoint"}, text : Documents, left : SUBSET Urls,
                    used : SUBSET Images!Files, reuse : BOOLEAN, since : Nat]
       /\ pass.reuse => reused

\* Each file has the image of a URL of its name.
NamedAfter == \A f \in Images!Files : files[f] # None => FileOf[files[f]] = f[1]

Refers(text) ==
  \A u \in Urls : text[u] # None /\ ~(reused /\ Images!Shared(u)) => files[text[u]] = u

Changed(text) == {u \in Urls : text[u] # doc[u]}

PassOK ==
  pass.pc # "idle" =>
    /\ Refers(pass.text)
    /\ \A u \in Urls : doc[u] # None => pass.text[u] = doc[u]
    /\ \A u \in pass.left : pass.text[u] = None
    /\ IsFiniteSet(Changed(pass.text)) /\ Cardinality(Changed(pass.text)) <= pass.since
    /\ pass.since <= CheckpointEvery
    /\ pass.pc = "fetch" => pass.since < CheckpointEvery
    /\ ~pass.reuse => Images!OnDisk \subseteq pass.used /\ Room(pass.used, pass.left, passes)

ImagesInv ==
  /\ ImagesType /\ NamedAfter /\ Refers(doc) /\ PassOK
  /\ Room(Images!OnDisk, IF pass.pc = "idle" THEN {} ELSE pass.left, passes)

LEMMA UrlsCount == IsFiniteSet(Urls) /\ Cardinality(Urls) \in Nat /\ MaxPasses \in Nat
                      /\ Cardinality(Urls) * MaxPasses \in Nat
<1>1. Images!IsFiniteSet(Urls) /\ MaxPasses \in Nat
  BY LocalizeAssumption DEF Images!LocalizeAssumption
<1>2. IsFiniteSet(Urls)
  BY <1>1 DEF Images!IsFiniteSet, IsFiniteSet
<1>3. Cardinality(Urls) \in Nat
  BY <1>2, FS_CardinalityType
<1> QED  BY <1>1, <1>2, <1>3

\* Localize counts with Cardinality of its own.
LEMMA SameCardinality ==
  ASSUME NEW S
  PROVE  Images!Cardinality(S) = Cardinality(S)
BY DEF Images!Cardinality, Cardinality

LEMMA FilesAre == Images!Files = FileNames \X (1 .. Copies)
BY SameCardinality DEF Images!Files, Copies

\* One URL is met, and at most one more name is taken.
LEMMA RoomTakes ==
  ASSUME NEW names, NEW left, NEW n \in Nat, Room(names, left, n),
         NEW u \in left, NEW f, NEW more, more \subseteq names \cup {f}
  PROVE  Room(more, left \ {u}, n)
<1>1. IsFiniteSet(names) /\ IsFiniteSet(left) /\ Cardinality(names) \in Nat /\ Cardinality(left) \in Nat
      /\ Cardinality(names) + Cardinality(left) <= Cardinality(Urls) * n
  BY FS_CardinalityType DEF Room
<1>2. IsFiniteSet(left \ {u}) /\ Cardinality(left \ {u}) = Cardinality(left) - 1
  BY <1>1, FS_RemoveElement
<1>3. /\ IsFiniteSet(names \cup {f}) /\ Cardinality(names \cup {f}) \in Nat
      /\ Cardinality(names \cup {f}) <= Cardinality(names) + 1
  <2>1. IsFiniteSet(names \cup {f})
        /\ Cardinality(names \cup {f}) = IF f \in names THEN Cardinality(names) ELSE Cardinality(names) + 1
    BY <1>1, FS_AddElement
  <2> QED  BY <1>1, <2>1
<1>4. IsFiniteSet(more) /\ Cardinality(more) <= Cardinality(names \cup {f})
      /\ Cardinality(more) \in Nat
  BY <1>3, FS_Subset, FS_CardinalityType
<1>5. Cardinality(Urls) * n \in Nat
  BY UrlsCount
<1> QED  BY <1>1, <1>2, <1>3, <1>4, <1>5 DEF Room

\* While a URL is left to be met, its name has a copy that is free.
LEMMA NameIsFree ==
  ASSUME NEW names, NEW left, Room(names, left, passes), passes \in 0 .. MaxPasses,
         NEW u \in left, NEW name
  PROVE  \E i \in 1 .. Copies : <<name, i>> \notin names
<1> SUFFICES ASSUME \A i \in 1 .. Copies : <<name, i>> \in names
             PROVE  FALSE
  OBVIOUS
<1>1. IsFiniteSet(names) /\ IsFiniteSet(left) /\ Cardinality(names) \in Nat /\ Cardinality(left) \in Nat
      /\ Cardinality(names) + Cardinality(left) <= Cardinality(Urls) * passes
  BY FS_CardinalityType DEF Room
<1>2. Cardinality(left) >= 1
  BY <1>1, FS_EmptySet
<1>3. Copies \in Nat /\ Cardinality(Urls) * passes <= Copies
  BY UrlsCount DEF Copies
<1> DEFINE copy == [i \in 1 .. Copies |-> <<name, i>>]
<1>4. copy \in Injection(1 .. Copies, names)
  BY DEF Injection, IsInjective
<1>5. Copies <= Cardinality(names)
  BY <1>1, <1>3, <1>4, FS_Injection, FS_Interval
<1> QED  BY <1>1, <1>2, <1>3, <1>5, UrlsCount

\* One URL is met: its reference may turn to f, which holds its image or that of one of its name.
LEMMA LocalizedStep ==
  ASSUME ImagesInv, pass.pc = "fetch", NEW u \in pass.left, NEW f \in Images!Files,
         Images!Localized(u, f), doc' = doc, passes' = passes, reused' = reused,
         files' \in [Images!Files -> Urls \cup {None}], NamedAfter',
         \A g \in Images!Files : files[g] # None \/ g # f => files'[g] = files[g],
         files'[f] = u \/ (reused /\ Images!Shared(u))
  PROVE  ImagesInv'
<1> DEFINE text  == Images!Retarget(pass.text, u, f)
           since == pass.since + 1
           point == IF since >= CheckpointEvery THEN "checkpoint" ELSE "fetch"
           left  == pass.left \ {u}
           used  == pass.used \cup {f}
<1>1. /\ pass \in [pc : {"fetch", "checkpoint"}, text : Documents, left : SUBSET Urls,
                   used : SUBSET Images!Files, reuse : BOOLEAN, since : Nat]
      /\ pass.reuse => reused
      /\ passes \in 0 .. MaxPasses /\ doc \in Documents
  BY DEF ImagesInv, ImagesType
<1>2. pass.text \in Documents /\ pass.left \in SUBSET Urls /\ pass.used \in SUBSET Images!Files
      /\ pass.since \in Nat /\ u \in Urls
  BY <1>1
<1>3. pass' = [pass EXCEPT !.text = text, !.left = left, !.used = used, !.since = since, !.pc = point]
  BY DEF Images!Localized
<1>4. text \in Documents /\ left \in SUBSET Urls /\ used \in SUBSET Images!Files /\ since \in Nat
      /\ point \in {"fetch", "checkpoint"}
  BY <1>2 DEF Images!Retarget, Documents
<1>5. \A v \in Urls : text[v] = pass.text[v] \/ (v = u /\ text[v] = f)
  BY <1>2 DEF Images!Retarget, Documents
<1>6. since >= CheckpointEvery => point = "checkpoint"
  OBVIOUS
<1>7. point = "fetch" => ~(since >= CheckpointEvery)
  OBVIOUS
<1> HIDE DEF text, since, point, left, used
<1>8. /\ pass'.text = text /\ pass'.left = left /\ pass'.used = used /\ pass'.since = since
      /\ pass'.pc = point
  BY <1>1, <1>3
<1>9. /\ pass' \in [pc : {"fetch", "checkpoint"}, text : Documents, left : SUBSET Urls,
                   used : SUBSET Images!Files, reuse : BOOLEAN, since : Nat]
  BY <1>1, <1>3, <1>4, Zenon
<1>10. pass'.reuse = pass.reuse
  BY <1>1, <1>3
<1>11. ImagesType'
  <2>1. Documents' = Documents /\ (Images!Files)' = Images!Files
    BY DEF Documents, Images!Files
  <2>2. pass'.pc \in {"idle", "fetch", "checkpoint"}
    BY <1>4, <1>8
  <2>3. pass'.reuse => reused'
    BY <1>1, <1>10
  <2> QED  BY <1>1, <1>9, <2>1, <2>2, <2>3 DEF ImagesType
<1>12. Refers(doc) /\ Refers(pass.text)
      /\ (\A v \in Urls : doc[v] # None => pass.text[v] = doc[v])
      /\ (\A v \in pass.left : pass.text[v] = None)
  BY DEF ImagesInv, PassOK
<1>13. None \notin Urls
  BY LocalizeAssumption DEF Images!LocalizeAssumption
<1>14. Refers(doc)'
  <2> SUFFICES ASSUME NEW v \in Urls, doc[v] # None, ~(reused /\ Images!Shared(v))
               PROVE  files'[doc[v]] = v
    BY DEF Refers, Images!Shared
  <2>1. doc[v] \in Images!Files /\ files[doc[v]] = v
    BY <1>1, <1>12 DEF Refers, Documents
  <2> QED  BY <1>13, <2>1
<1>15. Refers(pass.text)'
  <2> SUFFICES ASSUME NEW v \in Urls, text[v] # None, ~(reused /\ Images!Shared(v))
               PROVE  files'[text[v]] = v
    BY <1>8 DEF Refers, Images!Shared
  <2>1. CASE v = u /\ text[v] = f
    BY <2>1
  <2>2. CASE text[v] = pass.text[v]
    <3>1. pass.text[v] \in Images!Files /\ files[pass.text[v]] = v
      BY <1>2, <1>12, <2>2 DEF Refers, Documents
    <3> QED  BY <1>13, <2>2, <3>1
  <2> QED  BY <1>5, <2>1, <2>2
<1>16. \A v \in Urls : doc'[v] # None => text[v] = doc'[v]
  BY <1>5, <1>12
<1>17. \A v \in left : text[v] = None
  BY <1>2, <1>5, <1>12 DEF left
<1>18. /\ IsFiniteSet(Changed(text)) /\ Cardinality(Changed(text)) <= since
  <2>1. pass.pc # "idle"
    OBVIOUS
  <2>2. IsFiniteSet(Changed(pass.text)) /\ Cardinality(Changed(pass.text)) <= pass.since
    BY <2>1 DEF ImagesInv, PassOK
  <2>3. /\ IsFiniteSet(Changed(pass.text) \cup {u}) /\ Cardinality(Changed(pass.text)) \in Nat
        /\ Cardinality(Changed(pass.text) \cup {u})
             = IF u \in Changed(pass.text) THEN Cardinality(Changed(pass.text))
               ELSE Cardinality(Changed(pass.text)) + 1
    BY <2>2, FS_AddElement, FS_CardinalityType
  <2>4. Changed(text) \in SUBSET (Changed(pass.text) \cup {u})
    BY <1>5 DEF Changed
  <2>5. /\ IsFiniteSet(Changed(text)) /\ Cardinality(Changed(text)) \in Nat
        /\ Cardinality(Changed(text)) <= Cardinality(Changed(pass.text) \cup {u})
    BY <2>3, <2>4, FS_Subset, FS_CardinalityType
  <2> HIDE DEF Changed
  <2> QED  BY <1>2, <2>2, <2>3, <2>5 DEF since
<1>19. CheckpointEvery \in Nat \ {0}
  BY LocalizeAssumption DEF Images!LocalizeAssumption
<1>20. since <= CheckpointEvery /\ (point = "fetch" => since < CheckpointEvery)
  <2>1. pass.since < CheckpointEvery
    BY DEF ImagesInv, PassOK
  <2> QED  BY <1>2, <1>7, <1>19, <2>1 DEF since
<1>21. Images!OnDisk' \subseteq Images!OnDisk \cup {f}
  BY DEF Images!OnDisk, Images!Files
<1>22. Room(Images!OnDisk', left, passes)
  <2>1. Room(Images!OnDisk, pass.left, passes) /\ passes \in Nat
    BY <1>1, UrlsCount DEF ImagesInv
  <2> QED  BY <1>21, <2>1, RoomTakes DEF left
<1>23. ~pass.reuse => Images!OnDisk' \subseteq used /\ Room(used, left, passes)
  <2>1. ASSUME ~pass.reuse
        PROVE  Images!OnDisk \subseteq pass.used /\ Room(pass.used, pass.left, passes)
    BY <2>1 DEF ImagesInv, PassOK
  <2>2. passes \in Nat
    BY <1>1, UrlsCount
  <2>3. ASSUME ~pass.reuse
        PROVE  Images!OnDisk' \subseteq used
    BY <1>21, <2>1, <2>3 DEF used
  <2>4. ASSUME ~pass.reuse
        PROVE  Room(used, left, passes)
    <3>1. used \subseteq pass.used \cup {f}
      BY DEF used
    <3>2. Room(pass.used, pass.left, passes)
      BY <2>1, <2>4
    <3> QED  BY <2>2, <3>1, <3>2, RoomTakes DEF left
  <2> QED  BY <2>3, <2>4
<1>24. PassOK'
  <2>1. Changed(pass.text)' = Changed(text)
    BY <1>8 DEF Changed
  <2>2. CheckpointEvery' = CheckpointEvery /\ Room(used, left, passes) = Room(pass.used, pass.left, passes)'
    BY <1>8 DEF Room
  <2>3. (~pass.reuse)' => Images!OnDisk' \subseteq pass'.used /\ Room(pass.used, pass.left, passes)'
    BY <1>8, <1>10, <1>23, <2>2
  <2>4. (\A v \in Urls : doc[v] # None => pass.text[v] = doc[v])' /\ (\A v \in pass.left : pass.text[v] = None)'
    BY <1>8, <1>16, <1>17
  <2>5. (/\ IsFiniteSet(Changed(pass.text)) /\ Cardinality(Changed(pass.text)) <= pass.since
         /\ pass.since <= CheckpointEvery /\ (pass.pc = "fetch" => pass.since < CheckpointEvery))'
    BY <1>8, <1>18, <1>20, <2>1
  <2> QED  BY <1>15, <2>3, <2>4, <2>5 DEF PassOK
<1>25. Room(Images!OnDisk, IF pass.pc = "idle" THEN {} ELSE pass.left, passes)'
  BY <1>4, <1>8, <1>22 DEF Room
<1> QED  BY <1>11, <1>14, <1>24, <1>25 DEF ImagesInv
LEMMA ImagesInit == Images!Init => ImagesInv
<1> SUFFICES ASSUME Images!Init
             PROVE  ImagesInv
  OBVIOUS
<1>1. pass.pc = "idle" /\ passes \in 0 .. MaxPasses /\ passes = 0
  BY UrlsCount DEF Images!Init, Images!NoPass
<1>2. doc \in Documents /\ files \in [Images!Files -> Urls \cup {None}]
  BY DEF Images!Init, Documents
<1>3. NamedAfter /\ Refers(doc) /\ Images!OnDisk = {}
  BY DEF Images!Init, NamedAfter, Refers, Images!OnDisk
<1>4. Room({}, {}, 0)
  BY FS_EmptySet, UrlsCount DEF Room
<1> QED  BY <1>1, <1>2, <1>3, <1>4 DEF ImagesInv, ImagesType, PassOK

LEMMA SetupStep ==
  ASSUME ImagesInv, Images!Setup
  PROVE  ImagesInv'
<1>1. PICK reuse \in BOOLEAN :
        /\ pass' = [Images!NoPass EXCEPT !.pc = "fetch", !.text = doc, !.left = Images!Targets(doc),
                                         !.used = Images!Used(reuse), !.reuse = reuse]
        /\ reused' = (reused \/ reuse)
  BY DEF Images!Setup
<1>2. passes < MaxPasses /\ passes' = passes + 1 /\ doc' = doc /\ files' = files /\ pass.pc = "idle"
  BY DEF Images!Setup
<1>3. /\ doc \in Documents /\ files \in [Images!Files -> Urls \cup {None}] /\ passes \in Nat
      /\ passes' \in 0 .. MaxPasses
  BY <1>2, UrlsCount DEF ImagesInv, ImagesType
<1>4. Images!Targets(doc) \in SUBSET Urls /\ Images!Used(reuse) \in SUBSET Images!Files
  BY DEF Images!Targets, Images!Used, Images!OnDisk
<1> DEFINE left == Images!Targets(doc)
           used == Images!Used(reuse)
<1> HIDE DEF left, used
<1>5. pass' = [pc |-> "fetch", text |-> doc, left |-> left, used |-> used, reuse |-> reuse, since |-> 0]
  BY <1>1 DEF Images!NoPass, left, used
<1>6. /\ pass'.pc = "fetch" /\ pass'.text = doc /\ pass'.left = left /\ pass'.used = used
      /\ pass'.since = 0
  BY <1>5
<1>7. pass'.reuse <=> reuse
  BY <1>5
<1>8. pass' \in [pc : {"fetch", "checkpoint"}, text : Documents, left : SUBSET Urls,
                 used : SUBSET Images!Files, reuse : BOOLEAN, since : Nat]
  <2>1. 0 \in Nat /\ "fetch" \in {"fetch", "checkpoint"}
    OBVIOUS
  <2> QED  BY <1>3, <1>4, <1>5, <2>1, Zenon DEF left, used
<1>9. ImagesType'
  <2>1. Documents' = Documents /\ (Images!Files)' = Images!Files
    BY DEF Documents, Images!Files
  <2>2. pass'.reuse => reused'
    BY <1>1, <1>7
  <2> QED  BY <1>2, <1>3, <1>6, <1>8, <2>1, <2>2 DEF ImagesType
<1>10. NamedAfter' /\ Refers(doc)'
  BY <1>1, <1>2 DEF ImagesInv, NamedAfter, Refers, Images!Shared
<1>11. Room(Images!OnDisk, left, passes + 1)
  <2>1. /\ IsFiniteSet(Images!OnDisk) /\ Cardinality(Images!OnDisk) \in Nat
        /\ Cardinality(Images!OnDisk) + Cardinality({}) <= Cardinality(Urls) * passes
    BY <1>2, FS_CardinalityType DEF ImagesInv, Room
  <2>2. /\ IsFiniteSet(left) /\ Cardinality(left) \in Nat
        /\ Cardinality(left) <= Cardinality(Urls)
    BY <1>4, UrlsCount, FS_Subset, FS_CardinalityType DEF left
  <2>3. Cardinality(Urls) * (passes + 1) = Cardinality(Urls) * passes + Cardinality(Urls)
    BY <1>3, UrlsCount
  <2>4. Cardinality(Urls) * passes \in Nat
    BY <1>3, UrlsCount
  <2> QED  BY <2>1, <2>2, <2>3, <2>4, FS_EmptySet, UrlsCount DEF Room
<1>12. Images!OnDisk' = Images!OnDisk
  BY <1>2 DEF Images!OnDisk, Images!Files
<1>13. Room(Images!OnDisk, IF pass.pc = "idle" THEN {} ELSE pass.left, passes)'
  BY <1>2, <1>6, <1>11, <1>12 DEF Room
<1>14. PassOK'
  <2>1. Changed(pass.text)' = {}
    BY <1>2, <1>6 DEF Changed
  <2>2. CheckpointEvery \in Nat \ {0}
    BY LocalizeAssumption DEF Images!LocalizeAssumption
  <2>3. (\A v \in Urls : doc[v] # None => pass.text[v] = doc[v])' /\ (\A v \in pass.left : pass.text[v] = None)'
    BY <1>2, <1>6 DEF left, Images!Targets
  <2>4. Refers(pass.text)'
    BY <1>2, <1>6, <1>10 DEF Refers
  <2>5. ASSUME ~reuse
        PROVE  used = Images!OnDisk
    BY <2>5 DEF used, Images!Used
  <2>6. (~pass.reuse => Images!OnDisk \subseteq pass.used /\ Room(pass.used, pass.left, passes))'
    BY <1>2, <1>6, <1>7, <1>11, <1>12, <2>5 DEF Room
  <2> QED  BY <1>6, <2>1, <2>2, <2>3, <2>4, <2>6, FS_EmptySet DEF PassOK
<1> QED  BY <1>9, <1>10, <1>13, <1>14 DEF ImagesInv

LEMMA NoPassIsOK ==
  ASSUME ImagesInv, pass' = Images!NoPass, passes' = passes, reused' = reused, files' = files,
         doc' \in Documents, Refers(doc')
  PROVE  ImagesInv'
<1>1. pass'.pc = "idle"
  BY DEF Images!NoPass
<1>2. ImagesType'
  BY <1>1 DEF ImagesInv, ImagesType, Documents, Images!Files
<1>3. NamedAfter' /\ Refers(doc)'
  BY DEF ImagesInv, NamedAfter, Refers, Images!Shared, Images!Files
<1>4. Images!OnDisk' = Images!OnDisk
  BY DEF Images!OnDisk, Images!Files
<1>5. IsFiniteSet(Images!OnDisk) /\ Cardinality(Images!OnDisk) \in Nat
      /\ Cardinality(Images!OnDisk) <= Cardinality(Urls) * passes
  <2> DEFINE left == IF pass.pc = "idle" THEN {} ELSE pass.left
  <2>1. Room(Images!OnDisk, left, passes)
    BY DEF ImagesInv
  <2> HIDE DEF left
  <2>2. IsFiniteSet(left) /\ Cardinality(left) \in Nat /\ IsFiniteSet(Images!OnDisk)
        /\ Cardinality(Images!OnDisk) \in Nat
    BY <2>1, FS_CardinalityType DEF Room
  <2>3. Cardinality(Urls) * passes \in Nat
    BY UrlsCount DEF ImagesInv, ImagesType
  <2> QED  BY <2>1, <2>2, <2>3 DEF Room
<1>6. Room(Images!OnDisk, {}, passes)
  BY <1>5, FS_EmptySet DEF Room
<1> QED  BY <1>1, <1>2, <1>3, <1>4, <1>6 DEF ImagesInv, PassOK, Room

LEMMA CheckpointStep ==
  ASSUME ImagesInv, Images!Checkpoint
  PROVE  ImagesInv'
<1>1. /\ pass.pc = "checkpoint" /\ doc' = pass.text /\ passes' = passes /\ reused' = reused
      /\ files' = files /\ pass' = [pass EXCEPT !.pc = "fetch", !.since = 0]
  BY DEF Images!Checkpoint
<1>2. /\ pass \in [pc : {"fetch", "checkpoint"}, text : Documents, left : SUBSET Urls,
                   used : SUBSET Images!Files, reuse : BOOLEAN, since : Nat]
      /\ pass.reuse => reused
  BY <1>1 DEF ImagesInv, ImagesType
<1>3. /\ pass'.pc = "fetch" /\ pass'.text = pass.text /\ pass'.left = pass.left
      /\ pass'.used = pass.used /\ pass'.since = 0
  BY <1>1, <1>2
<1>4. pass'.reuse = pass.reuse
  BY <1>1, <1>2
<1>5. pass' \in [pc : {"fetch", "checkpoint"}, text : Documents, left : SUBSET Urls,
                 used : SUBSET Images!Files, reuse : BOOLEAN, since : Nat]
  <2>1. 0 \in Nat /\ "fetch" \in {"fetch", "checkpoint"}
    OBVIOUS
  <2> QED  BY <1>1, <1>2, <2>1, Zenon
<1>6. ImagesType'
  <2>1. Documents' = Documents /\ (Images!Files)' = Images!Files
    BY DEF Documents, Images!Files
  <2>2. pass'.reuse => reused'
    BY <1>1, <1>2, <1>4
  <2>3. doc' \in Documents
    BY <1>1, <1>2
  <2> QED  BY <1>1, <1>3, <1>5, <2>1, <2>2, <2>3 DEF ImagesInv, ImagesType
<1>7. NamedAfter' /\ Refers(doc)' /\ Refers(pass.text)'
  BY <1>1, <1>3 DEF ImagesInv, PassOK, NamedAfter, Refers, Images!Shared, Images!Files
<1>8. Images!OnDisk' = Images!OnDisk
  BY <1>1 DEF Images!OnDisk, Images!Files
<1>9. Room(Images!OnDisk, IF pass.pc = "idle" THEN {} ELSE pass.left, passes)'
  BY <1>1, <1>3, <1>8 DEF ImagesInv, Room
<1>10. PassOK'
  <2>1. Changed(pass.text)' = {}
    BY <1>1, <1>3 DEF Changed
  <2>2. CheckpointEvery \in Nat \ {0}
    BY LocalizeAssumption DEF Images!LocalizeAssumption
  <2>3. \A v \in pass.left : pass.text[v] = None
    BY <1>1 DEF ImagesInv, PassOK
  <2>4. (\A v \in Urls : doc[v] # None => pass.text[v] = doc[v])' /\ (\A v \in pass.left : pass.text[v] = None)'
    BY <1>1, <1>3, <2>3
  <2>5. (~pass.reuse => Images!OnDisk \subseteq pass.used /\ Room(pass.used, pass.left, passes))'
    BY <1>1, <1>3, <1>4, <1>8 DEF ImagesInv, PassOK, Room
  <2> QED  BY <1>3, <1>7, <2>1, <2>2, <2>4, <2>5, FS_EmptySet DEF PassOK
<1> QED  BY <1>6, <1>7, <1>9, <1>10 DEF ImagesInv

\* An image that cannot be had: the reference stays remote, its name may have been claimed.
LEMMA MissedStep ==
  ASSUME ImagesInv, pass.pc = "fetch", NEW u \in pass.left, NEW f \in Images!Files,
         NEW claimed \in {{}, {f}},
         pass' = [pass EXCEPT !.left = @ \ {u}, !.used = @ \cup claimed],
         files' = files, doc' = doc, passes' = passes, reused' = reused
  PROVE  ImagesInv'
<1> DEFINE left == pass.left \ {u}
           used == pass.used \cup claimed
<1>1. /\ pass \in [pc : {"fetch", "checkpoint"}, text : Documents, left : SUBSET Urls,
                   used : SUBSET Images!Files, reuse : BOOLEAN, since : Nat]
      /\ pass.reuse => reused
      /\ passes \in 0 .. MaxPasses
  BY DEF ImagesInv, ImagesType
<1>2. left \in SUBSET Urls /\ used \in SUBSET Images!Files
  BY <1>1
<1>3. pass' = [pass EXCEPT !.left = left, !.used = used]
  OBVIOUS
<1> HIDE DEF left, used
<1>4. /\ pass'.pc = "fetch" /\ pass'.text = pass.text /\ pass'.left = left
      /\ pass'.used = used /\ pass'.since = pass.since
  BY <1>1, <1>3
<1>5. pass'.reuse = pass.reuse
  BY <1>1, <1>3
<1>6. pass' \in [pc : {"fetch", "checkpoint"}, text : Documents, left : SUBSET Urls,
                 used : SUBSET Images!Files, reuse : BOOLEAN, since : Nat]
  BY <1>1, <1>2, <1>3, Zenon
<1>7. ImagesType'
  <2>1. Documents' = Documents /\ (Images!Files)' = Images!Files
    BY DEF Documents, Images!Files
  <2>2. pass'.reuse => reused'
    BY <1>1, <1>5
  <2> QED  BY <1>4, <1>6, <2>1, <2>2 DEF ImagesInv, ImagesType
<1>8. NamedAfter' /\ Refers(doc)' /\ Refers(pass.text)'
  BY <1>4 DEF ImagesInv, PassOK, NamedAfter, Refers, Images!Shared, Images!Files
<1>9. Images!OnDisk' = Images!OnDisk /\ passes \in Nat
  BY <1>1, UrlsCount DEF Images!OnDisk, Images!Files
<1>10. Room(Images!OnDisk, left, passes)
  <2>1. Room(Images!OnDisk, pass.left, passes)
    BY DEF ImagesInv
  <2> QED  BY <1>9, <2>1, RoomTakes DEF left
<1>11. Room(Images!OnDisk, IF pass.pc = "idle" THEN {} ELSE pass.left, passes)'
  BY <1>4, <1>9, <1>10 DEF Room
<1>12. PassOK'
  <2>1. Changed(pass.text)' = Changed(pass.text)
    BY <1>4 DEF Changed
  <2>2. (\A v \in Urls : doc[v] # None => pass.text[v] = doc[v])' /\ (\A v \in pass.left : pass.text[v] = None)'
    BY <1>4 DEF ImagesInv, PassOK, left
  <2>3. ASSUME ~pass.reuse
        PROVE  Images!OnDisk \subseteq used /\ Room(used, left, passes)
    <3>1. Images!OnDisk \subseteq pass.used /\ Room(pass.used, pass.left, passes)
      BY <2>3 DEF ImagesInv, PassOK
    <3>2. used \subseteq pass.used \cup {f}
      BY DEF used
    <3>3. Room(used, left, passes)
      BY <1>9, <3>1, <3>2, RoomTakes DEF left
    <3> QED  BY <3>1, <3>3 DEF used
  <2>4. (~pass.reuse => Images!OnDisk \subseteq pass.used /\ Room(pass.used, pass.left, passes))'
    BY <1>4, <1>5, <1>9, <2>3 DEF Room
  <2>5. (/\ IsFiniteSet(Changed(pass.text)) /\ Cardinality(Changed(pass.text)) <= pass.since
         /\ pass.since <= CheckpointEvery /\ (pass.pc = "fetch" => pass.since < CheckpointEvery))'
    BY <1>4, <2>1 DEF ImagesInv, PassOK
  <2> QED  BY <1>8, <2>2, <2>4, <2>5 DEF PassOK
<1> QED  BY <1>7, <1>8, <1>11, <1>12 DEF ImagesInv

LEMMA LocalizeOneStep ==
  ASSUME ImagesInv, Images!LocalizeOne
  PROVE  ImagesInv'
<1>1. pass.pc = "fetch" /\ doc' = doc /\ passes' = passes /\ reused' = reused
  BY DEF Images!LocalizeOne
<1>2. PICK u \in pass.left :
        IF pass.reuse /\ files[<<FileOf[u], 1>>] # None THEN Images!Reuse(u) ELSE Images!Download(u)
  BY DEF Images!LocalizeOne
<1>3. /\ pass \in [pc : {"fetch", "checkpoint"}, text : Documents, left : SUBSET Urls,
                   used : SUBSET Images!Files, reuse : BOOLEAN, since : Nat]
      /\ pass.reuse => reused
      /\ doc \in Documents /\ passes \in 0 .. MaxPasses
      /\ files \in [Images!Files -> Urls \cup {None}]
  BY <1>1 DEF ImagesInv, ImagesType
<1>4. u \in Urls /\ FileOf[u] \in FileNames
  BY <1>3, LocalizeAssumption DEF Images!LocalizeAssumption
<1>5. Copies \in Nat /\ 1 \in 1 .. Copies
  <2>1. Room(Images!OnDisk, pass.left, passes)
    BY <1>1 DEF ImagesInv
  <2>2. \E i \in 1 .. Copies : <<FileOf[u], i>> \notin Images!OnDisk
    BY <1>3, <2>1, NameIsFree
  <2> QED  BY <2>2, UrlsCount DEF Copies
<1>6. \A i \in 1 .. Copies : <<FileOf[u], i>> \in Images!Files
  BY <1>4, FilesAre
<1>7. CASE pass.reuse /\ files[<<FileOf[u], 1>>] # None
  <2> DEFINE f == <<FileOf[u], 1>>
  <2>1. f \in Images!Files /\ files' = files /\ Images!Localized(u, f)
    BY <1>2, <1>5, <1>6, <1>7 DEF Images!Reuse
  <2>2. files[f] \in Urls /\ FileOf[files[f]] = FileOf[u]
    BY <1>3, <1>7, <2>1 DEF ImagesInv, NamedAfter
  <2>3. files'[f] = u \/ (reused /\ Images!Shared(u))
    BY <1>3, <1>7, <2>1, <2>2 DEF Images!Shared
  <2>4. NamedAfter'
    BY <2>1 DEF ImagesInv, NamedAfter, Images!Files
  <2> HIDE DEF f
  <2> QED  BY <1>1, <1>3, <2>1, <2>3, <2>4, LocalizedStep
<1>8. CASE ~(pass.reuse /\ files[<<FileOf[u], 1>>] # None)
  <2> DEFINE f == Images!ClaimName(u)
  <2>1. Images!Download(u)
    BY <1>2, <1>8
  <2>2. f \in Images!Files /\ files[f] = None /\ f[1] = FileOf[u]
    <3>1. CASE pass.reuse
      <4>1. f = <<FileOf[u], 1>>
        BY <3>1 DEF Images!ClaimName
      <4> QED  BY <1>5, <1>6, <1>8, <3>1, <4>1
    <3>2. CASE ~pass.reuse
      <4> DEFINE free == {i \in 1 .. Copies : <<FileOf[u], i>> \notin pass.used}
      <4>1. Images!OnDisk \subseteq pass.used /\ Room(pass.used, pass.left, passes)
        BY <1>1, <3>2 DEF ImagesInv, PassOK
      <4>2. free # {}
        BY <1>3, <4>1, NameIsFree
      <4>3. free \in SUBSET Nat
        BY <1>5
      <4>4. f = <<FileOf[u], Images!Min(free)>>
        BY <3>2, SameCardinality DEF Images!ClaimName, Copies
      <4>5. Images!Min(free) \in free
        BY <4>2, <4>3, MinIsIn
      <4>6. f \in Images!Files /\ f \notin pass.used /\ f[1] = FileOf[u]
        BY <1>6, <4>4, <4>5
      <4> HIDE DEF f
      <4> QED  BY <4>1, <4>6 DEF Images!OnDisk
    <3> QED  BY <3>1, <3>2
  <2> HIDE DEF f
  <2>3. CASE files' = [files EXCEPT ![f] = u] /\ Images!Localized(u, f)
    <3>1. files' \in [Images!Files -> Urls \cup {None}] /\ files'[f] = u
      BY <1>3, <1>4, <2>2, <2>3
    <3>2. \A g \in Images!Files : files[g] # None \/ g # f => files'[g] = files[g]
      BY <1>3, <2>2, <2>3
    <3>3. NamedAfter'
      BY <2>2, <3>1, <3>2 DEF ImagesInv, NamedAfter, Images!Files
    <3> QED  BY <1>1, <2>2, <2>3, <3>1, <3>2, <3>3, LocalizedStep
  <2>4. CASE /\ \E claimed \in {{}, {f}} :
                   pass' = [pass EXCEPT !.left = @ \ {u}, !.used = @ \cup claimed]
             /\ files' = files
    BY <1>1, <2>2, <2>4, MissedStep
  <2> QED  BY <2>1, <2>3, <2>4 DEF Images!Download, f
<1> QED  BY <1>7, <1>8

LEMMA ImagesStep ==
  ASSUME ImagesInv, [Images!Next]_Images!localizeVars
  PROVE  ImagesInv'
<1>1. CASE UNCHANGED Images!localizeVars
  <2> USE <1>1 DEF Images!localizeVars
  <2>1. ImagesType' /\ NamedAfter' /\ Refers(doc)'
    BY DEF ImagesInv, ImagesType, Documents, NamedAfter, Refers, Images!Files, Images!Shared
  <2>2. PassOK'
    BY DEF ImagesInv, PassOK, Refers, Changed, Room, Images!OnDisk, Images!Files, Images!Shared
  <2>3. Room(Images!OnDisk, IF pass.pc = "idle" THEN {} ELSE pass.left, passes)'
    BY DEF ImagesInv, Room, Images!OnDisk, Images!Files
  <2> QED  BY <2>1, <2>2, <2>3 DEF ImagesInv
<1>2. CASE Images!Finish
  <2>1. /\ pass' = Images!NoPass /\ passes' = passes /\ reused' = reused /\ files' = files
        /\ doc' = pass.text /\ pass.pc = "fetch"
    BY <1>2 DEF Images!Finish
  <2>2. doc' \in Documents /\ Refers(doc')
    BY <2>1 DEF ImagesInv, ImagesType, PassOK
  <2> QED  BY <2>1, <2>2, NoPassIsOK
<1>3. CASE Images!Crash
  <2>1. /\ pass' = Images!NoPass /\ passes' = passes /\ reused' = reused /\ files' = files
        /\ doc' = doc
    BY <1>3 DEF Images!Crash
  <2>2. doc' \in Documents /\ Refers(doc')
    BY <2>1 DEF ImagesInv, ImagesType
  <2> QED  BY <2>1, <2>2, NoPassIsOK
<1> QED
  BY <1>1, <1>2, <1>3, SetupStep, LocalizeOneStep, CheckpointStep DEF Images!Next

LEMMA ImagesEnough == ImagesInv => Images!KeepsItsProgress
<1> SUFFICES ASSUME ImagesInv
             PROVE  Images!KeepsItsProgress
  OBVIOUS
<1>1. \A u \in Urls : doc[u] # None /\ ~(reused /\ Images!Shared(u)) => files[doc[u]] = u
  BY DEF ImagesInv, Refers
<1>2. ASSUME pass.pc # "idle"
      PROVE  /\ \A u \in Urls : doc[u] # None => pass.text[u] = doc[u]
             /\ Images!Cardinality({u \in Urls : pass.text[u] # doc[u]}) <= CheckpointEvery
  <2>1. /\ \A u \in Urls : doc[u] # None => pass.text[u] = doc[u]
        /\ IsFiniteSet(Changed(pass.text)) /\ Cardinality(Changed(pass.text)) <= pass.since
        /\ pass.since <= CheckpointEvery
    BY <1>2 DEF ImagesInv, PassOK
  <2>2. pass.since \in Nat /\ CheckpointEvery \in Nat
    BY <1>2, LocalizeAssumption DEF ImagesInv, ImagesType, Images!LocalizeAssumption
  <2>3. Cardinality(Changed(pass.text)) \in Nat
    BY <2>1, FS_CardinalityType
  <2>4. Cardinality(Changed(pass.text)) <= CheckpointEvery
    BY <2>1, <2>2, <2>3
  <2> QED  BY <2>1, <2>4, SameCardinality DEF Changed
<1> QED  BY <1>1, <1>2 DEF Images!KeepsItsProgress

-----------------------------------------------------------------------------
(* Links (Liveness). *)

LinksInv == hour \in Nat /\ Links!BlipsPass

LEMMA LinksInit == Links!Init => LinksInv
BY DEF Links!Init, LinksInv, Links!BlipsPass

LEMMA LinksStep ==
  ASSUME LinksInv, [Links!Next]_Links!linkVars
  PROVE  LinksInv'
<1>1. CASE UNCHANGED Links!linkVars
  BY <1>1 DEF LinksInv, Links!BlipsPass, Links!Transient, Links!linkVars
<1>2. CASE Links!Tick
  BY <1>2 DEF Links!Tick, LinksInv, Links!BlipsPass, Links!Transient
<1>3. ASSUME NEW c \in Checkers,
             Links!CheckBegin(c) \/ Links!Head(c) \/ Links!Get(c) \/ Links!BrowserGet(c)
      PROVE  LinksInv'
  <2>1. hour' = hour /\ verdict' = verdict
    BY <1>3 DEF Links!CheckBegin, Links!Head, Links!Get, Links!BrowserGet
  <2> QED  BY <2>1 DEF LinksInv, Links!BlipsPass, Links!Transient
<1>4. ASSUME NEW c \in Checkers, Links!WriteCache(c)
      PROVE  LinksInv'
  <2>1. hour' = hour
    BY <1>4 DEF Links!WriteCache
  <2>2. CASE verdict' = verdict
    BY <2>1, <2>2 DEF LinksInv, Links!BlipsPass, Links!Transient
  <2>3. CASE verdict' = [is |-> checker[c].is, until |-> hour + Links!Life(checker[c]), at |-> hour]
    <3>1. verdict'.is = checker[c].is /\ verdict'.at = hour
          /\ verdict'.until = hour + Links!Life(checker[c])
      BY <2>3
    <3>2. NegativeTtl \in Nat
      BY LivenessAssumption DEF Links!LivenessAssumption
    <3>3. Links!Transient(verdict'.is) => verdict'.until <= verdict'.at + NegativeTtl
      BY <3>1, <3>2 DEF Links!Life, LinksInv
    <3> QED  BY <2>1, <3>3 DEF LinksInv, Links!BlipsPass, Links!Transient
  <2> QED  BY <1>4, <2>2, <2>3 DEF Links!WriteCache
<1> QED  BY <1>1, <1>2, <1>3, <1>4 DEF Links!Next

-----------------------------------------------------------------------------
(* Articles. *)

RequestLimit(me) == Attempts * (1 + me.lookups)

ReaderOK(me) ==
  /\ me.pc = "idle" =>
       /\ me.status # None =>
            \/ me.status = me.live
            \/ me.status = "ok" /\ me.from = "snapshot"
       /\ Texts!Permanent(me.live) => me.lookups = 0
       /\ me.requests <= RequestLimit(me)
  /\ me.pc = "live" =>
       me.requests = me.attempt - 1 /\ me.lookups = 0 /\ me.status = None
  /\ me.pc = "lookup" =>
       /\ ~Texts!Permanent(me.live) /\ me.requests <= Attempts
       /\ me.lookups = 0 /\ me.status = None
  /\ me.pc = "snapshot" =>
       /\ ~Texts!Permanent(me.live) /\ me.requests <= Attempts + me.attempt - 1
       /\ me.lookups = 1 /\ me.status = None

Verdicts == Texts!Outcomes \cup {"ok", "no_content"}

ReaderFields ==
  [pc : {"idle", "live", "lookup", "snapshot"}, archive : BOOLEAN, attempt : 1 .. Attempts,
   live : Verdicts \cup {None}, lookups : {0, 1}, requests : Nat,
   status : Verdicts \cup {None}, from : {"page", "snapshot", None}]

ArticlesInv ==
  reader \in [Readers -> ReaderFields] /\ \A r \in Readers : ReaderOK(reader[r])

LEMMA ArticlesInit == Texts!Init => ArticlesInv
<1>1. Attempts \in Nat \ {0} /\ 1 \in 1 .. Attempts
  BY ArticlesAssumption DEF Texts!ArticlesAssumption
<1>2. ~Texts!Permanent(None)
  BY ArticlesAssumption DEF Texts!ArticlesAssumption, Texts!Permanent
<1> DEFINE me == Texts!IdleReader
<1>3. /\ me.pc = "idle" /\ me.status = None /\ me.live = None /\ me.requests = 0
      /\ me.lookups = 0 /\ RequestLimit(me) = Attempts
  BY <1>1 DEF Texts!IdleReader, RequestLimit
<1>4. me \in ReaderFields
  BY <1>1 DEF Texts!IdleReader, ReaderFields
<1> HIDE DEF me
<1>5. ReaderOK(me)
  BY <1>1, <1>2, <1>3 DEF ReaderOK
<1> QED  BY <1>4, <1>5 DEF Texts!Init, ArticlesInv, me

\* A reader that fails with a verdict of the live page.
LEMMA FailsOK ==
  ASSUME NEW me \in ReaderFields, NEW said \in Verdicts,
         me.lookups = 0, me.status = None, me.requests <= Attempts,
         NEW you, you = Texts!Fails(me, said)
  PROVE  you \in ReaderFields /\ ReaderOK(you)
<1>1. Attempts \in Nat \ {0}
  BY ArticlesAssumption DEF Texts!ArticlesAssumption
<1>2. CASE Texts!LooksUp(me, said)
  <2>1. you = [me EXCEPT !.pc = "lookup", !.live = said]
    BY <1>2 DEF Texts!Fails
  <2>2. you \in ReaderFields
    BY <2>1, Zenon DEF ReaderFields
  <2>3. /\ you.pc = "lookup" /\ you.live = said
        /\ you.lookups = 0 /\ you.status = None /\ you.requests = me.requests
    BY <2>1 DEF ReaderFields
  <2>4. ~Texts!Permanent(said)
    BY <1>2 DEF Texts!LooksUp
  <2> QED  BY <2>2, <2>3, <2>4 DEF ReaderOK
<1>3. CASE ~Texts!LooksUp(me, said)
  <2> DEFINE from == IF said = "no_content" THEN "page" ELSE None
  <2>1. from \in {"page", "snapshot", None}
    OBVIOUS
  <2>2. you = [me EXCEPT !.live = said, !.pc = "idle", !.status = said, !.from = from]
    BY <1>3 DEF Texts!Fails, Texts!Returns, ReaderFields
  <2> HIDE DEF from
  <2>3. you \in ReaderFields
    BY <2>1, <2>2, Zenon DEF ReaderFields
  <2>4. /\ you.pc = "idle" /\ you.live = said
        /\ you.lookups = 0 /\ you.status = said /\ you.requests = me.requests
    BY <2>2 DEF ReaderFields
  <2>5. you.requests <= RequestLimit(you)
    BY <1>1, <2>4 DEF RequestLimit
  <2> QED  BY <2>3, <2>4, <2>5 DEF ReaderOK
<1> QED  BY <1>2, <1>3

LEMMA AttemptOK ==
  ASSUME NEW me \in ReaderFields, ReaderOK(me), me.pc = "live",
         NEW outcome \in Texts!Outcomes, NEW you \in Texts!Attempt(me, outcome)
  PROVE  you \in ReaderFields /\ ReaderOK(you)
<1>1. Attempts \in Nat \ {0} /\ ~Texts!Permanent("ok")
  BY ArticlesAssumption DEF Texts!ArticlesAssumption, Texts!Permanent
<1>2. me.requests = me.attempt - 1 /\ me.lookups = 0 /\ me.status = None
  BY DEF ReaderOK
<1>3. me.attempt \in 1 .. Attempts /\ me.requests \in Nat /\ me.requests + 1 \in Nat
  BY DEF ReaderFields
<1>4. CASE Texts!Retried(outcome) /\ me.attempt < Attempts
  <2>1. you = [me EXCEPT !.attempt = me.attempt + 1, !.requests = me.requests + 1]
    BY <1>4 DEF Texts!Attempt
  <2>2. me.attempt + 1 \in 1 .. Attempts
    BY <1>1, <1>3, <1>4
  <2>3. you \in ReaderFields
    BY <1>3, <2>1, <2>2, Zenon DEF ReaderFields
  <2>4. /\ you.pc = "live" /\ you.attempt = me.attempt + 1
        /\ you.requests = me.requests + 1 /\ you.lookups = 0 /\ you.status = None
    BY <1>2, <2>1 DEF ReaderFields
  <2>5. you.requests = you.attempt - 1
    BY <1>2, <1>3, <2>4
  <2> QED  BY <2>3, <2>4, <2>5 DEF ReaderOK
<1>5. CASE ~(Texts!Retried(outcome) /\ me.attempt < Attempts)
  <2> DEFINE next == [me EXCEPT !.requests = me.requests + 1]
  <2>1. next \in ReaderFields
    BY <1>3, Zenon DEF ReaderFields
  <2>2. next.lookups = 0 /\ next.status = None /\ next.requests = me.requests + 1
    BY <1>2 DEF ReaderFields
  <2>3. next.requests <= Attempts
    BY <1>1, <1>2, <1>3, <2>2
  <2>4. \/ you = [next EXCEPT !.live = "ok", !.pc = "idle", !.status = "ok", !.from = "page"]
        \/ \E said \in Verdicts : you = Texts!Fails(next, said)
    <3>1. /\ outcome # "html" => you = Texts!Fails(next, outcome)
          /\ outcome = "html" =>
               \/ you = Texts!Returns([next EXCEPT !.live = "ok"], "ok", "page")
               \/ you = Texts!Fails(next, "no_content") \/ you = Texts!Fails(next, "paywalled")
      BY <1>5 DEF Texts!Attempt
    <3>2. outcome \in Verdicts /\ "no_content" \in Verdicts /\ "paywalled" \in Verdicts
      BY DEF Verdicts, Texts!Outcomes
    <3> HIDE DEF next
    <3>3. Texts!Returns([next EXCEPT !.live = "ok"], "ok", "page")
            = [next EXCEPT !.live = "ok", !.pc = "idle", !.status = "ok", !.from = "page"]
      BY <2>1 DEF Texts!Returns, ReaderFields
    <3> QED  BY <3>1, <3>2, <3>3
  <2> HIDE DEF next
  <2>5. CASE you = [next EXCEPT !.live = "ok", !.pc = "idle", !.status = "ok", !.from = "page"]
    <3>1. you \in ReaderFields
      BY <2>1, <2>5, Zenon DEF ReaderFields, Verdicts
    <3>2. /\ you.pc = "idle" /\ you.live = "ok" /\ you.status = "ok"
          /\ you.lookups = 0 /\ you.requests = next.requests
      BY <2>1, <2>2, <2>5 DEF ReaderFields
    <3>3. you.requests <= RequestLimit(you)
      BY <1>1, <2>3, <3>2 DEF RequestLimit
    <3> QED  BY <3>1, <3>2, <3>3 DEF ReaderOK
  <2> QED  BY <2>1, <2>2, <2>3, <2>4, <2>5, FailsOK
<1> QED  BY <1>4, <1>5

LEMMA SnapshotOK ==
  ASSUME NEW me \in ReaderFields, ReaderOK(me), me.pc = "snapshot",
         NEW outcome \in Texts!Outcomes, NEW you \in Texts!Snapshot(me, outcome)
  PROVE  you \in ReaderFields /\ ReaderOK(you)
<1>1. Attempts \in Nat \ {0}
  BY ArticlesAssumption DEF Texts!ArticlesAssumption
<1>2. /\ ~Texts!Permanent(me.live) /\ me.requests <= Attempts + me.attempt - 1
      /\ me.lookups = 1 /\ me.status = None
  BY DEF ReaderOK
<1>3. me.attempt \in 1 .. Attempts /\ me.requests \in Nat /\ me.requests + 1 \in Nat
      /\ me.live \in Verdicts \cup {None}
  BY DEF ReaderFields
<1>4. CASE Texts!Retried(outcome) /\ me.attempt < Attempts
  <2>1. you = [me EXCEPT !.attempt = me.attempt + 1, !.requests = me.requests + 1]
    BY <1>4 DEF Texts!Snapshot
  <2>2. me.attempt + 1 \in 1 .. Attempts
    BY <1>1, <1>3, <1>4
  <2>3. you \in ReaderFields
    BY <1>3, <2>1, <2>2, Zenon DEF ReaderFields
  <2>4. /\ you.pc = "snapshot" /\ you.attempt = me.attempt + 1 /\ you.live = me.live
        /\ you.requests = me.requests + 1 /\ you.lookups = 1 /\ you.status = None
    BY <1>2, <2>1 DEF ReaderFields
  <2>5. you.requests <= Attempts + you.attempt - 1
    BY <1>1, <1>2, <1>3, <2>4
  <2> QED  BY <1>2, <2>3, <2>4, <2>5 DEF ReaderOK
<1>5. CASE ~(Texts!Retried(outcome) /\ me.attempt < Attempts)
  <2> DEFINE next == [me EXCEPT !.requests = me.requests + 1]
             page == IF next.live = "no_content" THEN "page" ELSE None
  <2>1. next \in ReaderFields
    BY <1>3, Zenon DEF ReaderFields
  <2>2. next.live = me.live /\ next.lookups = 1 /\ next.requests = me.requests + 1
    BY <1>2 DEF ReaderFields
  <2>3. next.requests <= 2 * Attempts
    BY <1>1, <1>2, <1>3, <2>2
  <2>4. \/ you = Texts!Returns(next, "ok", "snapshot")
        \/ you = Texts!Returns(next, next.live, page)
    BY <1>5 DEF Texts!Snapshot
  <2>5. page \in {"page", "snapshot", None}
    OBVIOUS
  <2> HIDE DEF next, page
  <2>6. ASSUME NEW said \in Verdicts \cup {None}, NEW from \in {"page", "snapshot", None},
               said = me.live \/ (said = "ok" /\ from = "snapshot"),
               you = Texts!Returns(next, said, from)
        PROVE  you \in ReaderFields /\ ReaderOK(you)
    <3>1. you \in ReaderFields
      BY <2>1, <2>6, Zenon DEF ReaderFields, Texts!Returns
    <3>2. /\ you.pc = "idle" /\ you.live = me.live /\ you.status = said /\ you.from = from
          /\ you.lookups = next.lookups /\ you.requests = next.requests
      BY <2>1, <2>2, <2>6 DEF ReaderFields, Texts!Returns
    <3>3. you.requests <= RequestLimit(you)
      BY <1>1, <2>2, <2>3, <3>2 DEF RequestLimit
    <3> QED  BY <1>2, <2>6, <3>1, <3>2, <3>3 DEF ReaderOK
  <2>7. "ok" \in Verdicts
    BY DEF Verdicts
  <2>8. CASE you = Texts!Returns(next, "ok", "snapshot")
    BY <2>6, <2>7, <2>8
  <2>9. CASE you = Texts!Returns(next, next.live, page)
    BY <1>3, <2>2, <2>5, <2>6, <2>9
  <2> QED  BY <2>4, <2>8, <2>9
<1> QED  BY <1>4, <1>5

LEMMA ArticlesStep ==
  ASSUME ArticlesInv, [Texts!Next]_Texts!articleVars
  PROVE  ArticlesInv'
<1>1. CASE UNCHANGED Texts!articleVars
  BY <1>1 DEF ArticlesInv, Texts!articleVars
<1>2. ASSUME NEW r \in Readers, NEW me \in ReaderFields, ReaderOK(me), Texts!Put(r, me)
      PROVE  ArticlesInv'
  BY <1>2 DEF ArticlesInv, Texts!Put
<1>3. Attempts \in Nat \ {0} /\ ~Texts!Permanent(None) /\ 1 \in 1 .. Attempts
  BY ArticlesAssumption DEF Texts!ArticlesAssumption, Texts!Permanent
<1>4. ASSUME NEW r \in Readers, Texts!ReadBegin(r)
      PROVE  ArticlesInv'
  <2>1. PICK archive \in BOOLEAN :
          Texts!Put(r, [Texts!IdleReader EXCEPT !.pc = "live", !.archive = archive])
    BY <1>4 DEF Texts!ReadBegin
  <2> DEFINE me == [Texts!IdleReader EXCEPT !.pc = "live", !.archive = archive]
  <2>2. Texts!IdleReader \in ReaderFields
    BY <1>3 DEF Texts!IdleReader, ReaderFields
  <2>3. me \in ReaderFields
    BY <2>2, Zenon DEF ReaderFields
  <2>4. /\ me.pc = "live" /\ me.attempt = 1 /\ me.requests = 0 /\ me.lookups = 0
        /\ me.status = None
    BY DEF Texts!IdleReader
  <2> HIDE DEF me
  <2>5. ReaderOK(me)
    BY <2>4 DEF ReaderOK
  <2> QED  BY <1>2, <2>1, <2>3, <2>5 DEF me
<1>5. ASSUME NEW r \in Readers, Texts!ReadLive(r)
      PROVE  ArticlesInv'
  <2>1. reader[r] \in ReaderFields /\ ReaderOK(reader[r]) /\ reader[r].pc = "live"
    BY <1>5 DEF ArticlesInv, Texts!ReadLive
  <2>2. PICK outcome \in Texts!Outcomes : \E me \in Texts!Attempt(reader[r], outcome) : Texts!Put(r, me)
    BY <1>5 DEF Texts!ReadLive
  <2> QED  BY <1>2, <2>1, <2>2, AttemptOK
<1>6. ASSUME NEW r \in Readers, Texts!LookUp(r)
      PROVE  ArticlesInv'
  <2> DEFINE me    == reader[r]
             page  == IF me.live = "no_content" THEN "page" ELSE None
             asked == [me EXCEPT !.lookups = me.lookups + 1]
             there == [me EXCEPT !.pc = "snapshot", !.attempt = 1, !.lookups = me.lookups + 1]
             gone  == Texts!Returns(asked, me.live, page)
  <2>1. me \in ReaderFields /\ ReaderOK(me) /\ me.pc = "lookup"
    BY <1>6 DEF ArticlesInv, Texts!LookUp
  <2>2. Texts!Put(r, there) \/ Texts!Put(r, gone)
    BY <1>6 DEF Texts!LookUp
  <2>3. page \in {"page", "snapshot", None}
    OBVIOUS
  <2> HIDE DEF me, page
  <2>4. /\ ~Texts!Permanent(me.live) /\ me.requests <= Attempts /\ me.status = None
        /\ me.lookups + 1 = 1
    BY <2>1 DEF ReaderOK
  <2>5. me.requests \in Nat /\ me.live \in Verdicts \cup {None} /\ me.lookups + 1 \in {0, 1}
    BY <2>1, <2>4 DEF ReaderFields
  <2>6. there \in ReaderFields /\ ReaderOK(there)
    <3>1. there \in ReaderFields
      BY <1>3, <2>1, <2>5, Zenon DEF ReaderFields
    <3>2. /\ there.pc = "snapshot" /\ there.live = me.live /\ there.attempt = 1
          /\ there.requests = me.requests /\ there.lookups = 1 /\ there.status = None
      BY <2>1, <2>4 DEF ReaderFields
    <3> HIDE DEF there
    <3>3. there.requests <= Attempts + there.attempt - 1
      BY <1>3, <2>4, <2>5, <3>2
    <3> QED  BY <2>4, <3>1, <3>2, <3>3 DEF ReaderOK
  <2>7. gone \in ReaderFields /\ ReaderOK(gone)
    <3>1. asked \in ReaderFields
      BY <2>1, <2>5, Zenon DEF ReaderFields
    <3>2. asked.live = me.live /\ asked.lookups = 1 /\ asked.requests = me.requests
      BY <2>1, <2>4 DEF ReaderFields
    <3> HIDE DEF asked
    <3>3. gone \in ReaderFields
      BY <2>3, <2>5, <3>1, Zenon DEF ReaderFields, Texts!Returns
    <3>4. /\ gone.pc = "idle" /\ gone.live = me.live /\ gone.status = me.live
          /\ gone.requests = me.requests /\ gone.lookups = 1
      BY <3>1, <3>2 DEF ReaderFields, Texts!Returns
    <3> HIDE DEF gone
    <3>5. gone.requests <= RequestLimit(gone)
      BY <1>3, <2>4, <2>5, <3>4 DEF RequestLimit
    <3> QED  BY <2>4, <3>3, <3>4, <3>5 DEF ReaderOK
  <2> HIDE DEF there, gone
  <2> QED  BY <1>2, <2>2, <2>6, <2>7
<1>7. ASSUME NEW r \in Readers, Texts!ReadSnapshot(r)
      PROVE  ArticlesInv'
  <2>1. reader[r] \in ReaderFields /\ ReaderOK(reader[r]) /\ reader[r].pc = "snapshot"
    BY <1>7 DEF ArticlesInv, Texts!ReadSnapshot
  <2>2. PICK outcome \in Texts!Outcomes : \E me \in Texts!Snapshot(reader[r], outcome) : Texts!Put(r, me)
    BY <1>7 DEF Texts!ReadSnapshot
  <2> QED  BY <1>2, <2>1, <2>2, SnapshotOK
<1> QED  BY <1>1, <1>4, <1>5, <1>6, <1>7 DEF Texts!Next

LEMMA ArticlesEnough == ArticlesInv => Texts!VerdictIsTheLive
<1> SUFFICES ASSUME ArticlesInv, NEW r \in Readers
             PROVE  /\ reader[r].status # None =>
                         \/ reader[r].status = reader[r].live
                         \/ reader[r].status = "ok" /\ reader[r].from = "snapshot"
                    /\ Texts!Permanent(reader[r].live) => reader[r].lookups = 0
                    /\ reader[r].requests <= Attempts * (1 + reader[r].lookups)
                    /\ reader[r].lookups <= 1
  BY DEF Texts!VerdictIsTheLive
<1> DEFINE me == reader[r]
<1>1. Attempts \in Nat \ {0}
  BY ArticlesAssumption DEF Texts!ArticlesAssumption
<1>2. me \in ReaderFields /\ ReaderOK(me)
  BY DEF ArticlesInv
<1> HIDE DEF me
<1>3. me.pc \in {"idle", "live", "lookup", "snapshot"} /\ me.attempt \in 1 .. Attempts
      /\ me.lookups \in {0, 1} /\ me.requests \in Nat
  BY <1>2 DEF ReaderFields
<1>4. me.requests <= Attempts * (1 + me.lookups)
  <2>1. RequestLimit(me) = IF me.lookups = 1 THEN Attempts + Attempts ELSE Attempts
    BY <1>1, <1>3 DEF RequestLimit
  <2>2. me.requests <= RequestLimit(me)
    BY <1>1, <1>2, <1>3, <2>1 DEF ReaderOK
  <2> QED  BY <2>2 DEF RequestLimit
<1> QED  BY <1>2, <1>3, <1>4 DEF ReaderOK, me

-----------------------------------------------------------------------------
(* The composition. *)

\* A step of the composition is a step of each part, or leaves it alone.
LEMMA StepOfEach ==
  ASSUME [WorkNext]_workVars
  PROVE  /\ [Next]_vars /\ [Pipe!Next]_Pipe!vars /\ [Fetch!Next]_Fetch!fetchVars
         /\ [Images!Next]_Images!localizeVars /\ [Links!Next]_Links!linkVars
         /\ [Texts!Next]_Texts!articleVars
BY DEF WorkNext, workVars, vars, pipelineVars, fetchVars, localizeVars, linkVars, articleVars,
       Pipe!vars, Fetch!fetchVars, Images!localizeVars, Links!linkVars, Texts!articleVars

\* The composition implements the specification of every part: what a behaviour of one part
\* alone satisfies, it satisfies beside the others.
THEOREM WorkRunsAlone ==
  WorkSpec => /\ Spec /\ Pipe!Spec /\ Fetch!Spec /\ Images!Spec /\ Links!Spec /\ Texts!Spec
<1>1. WorkInit => /\ Init /\ Pipe!Init /\ Fetch!Init /\ Images!Init /\ Links!Init /\ Texts!Init
  BY DEF WorkInit
<1>2. [WorkNext]_workVars
        => /\ [Next]_vars /\ [Pipe!Next]_Pipe!vars /\ [Fetch!Next]_Fetch!fetchVars
           /\ [Images!Next]_Images!localizeVars /\ [Links!Next]_Links!linkVars
           /\ [Texts!Next]_Texts!articleVars
  BY StepOfEach
<1> QED  BY <1>1, <1>2, PTL DEF WorkSpec, workVars, Spec, Pipe!Spec, Fetch!Spec, Images!Spec,
                                Links!Spec, Texts!Spec

\* SkipsAreSound (pipeline/resume.py, cache.py, run_record.py): where no two writes share a
\* modification time, a stage that is skipped holds the result of the source as it is and of the
\* flags it is skipped under, for any number of stages, slices, deletions that fail and kills;
\* unless the source was edited under the first stage, or a run left its record or its snapshots
\* beside those of other flags.
THEOREM SkipsStaySound ==
  ASSUME Granularity = 1
  PROVE  WorkSpec => []SkipsAreSound
<1>1. PipeInv => SkipsAreSound
  BY PipeSound DEF SkipsAreSound
<1>2. PipeInv /\ [Pipe!Next]_Pipe!vars => PipeInv'
  BY PipeStep
<1> QED  BY <1>1, <1>2, PipeInit, WorkRunsAlone, PTL DEF Pipe!Spec

\* RateBound (utils/throttle.py under fetch/__init__.py): however many workers share a throttle,
\* and whatever they retry, follow or probe, the requests made by any time are at most one per
\* interval and one more; also when a server sends a negative Retry-After.
THEOREM RateIsKept ==
  WorkSpec => []Fetch!RateBound
<1>1. Fetch!Init => FetchInv
  BY FetchInit, RateStart DEF FetchInv
<1>2. FetchInv /\ [Fetch!Next]_Fetch!fetchVars => FetchInv'
  BY FetchStep
<1> QED  BY <1>1, <1>2, FetchRate, WorkRunsAlone, PTL DEF Fetch!Spec

\* FetchesAreFair (fetch/__init__.py, _decode.py): where a Retry-After is never negative, a fetch
\* ends as its last reply says, after at most one request per attempt and hop and none after a
\* permanent error, holds at most a byte more than its limit, and returns a body whole or not at
\* all; and the fetches together keep to the rate.
THEOREM FetchesStayFair ==
  ASSUME WaitsAreNatural
  PROVE  WorkSpec => []FetchesAreFair
<1>1. Fetch!Init => FetchInv
  BY FetchInit, RateStart DEF FetchInv
<1>2. FetchInv /\ [Fetch!Next]_Fetch!fetchVars => FetchInv'
  BY FetchStep
<1>3. FetchInv => FetchesAreFair
  BY FetchRate, FetchEnds DEF FetchesAreFair, Fetch!FetchesAreFair
<1> QED  BY <1>1, <1>2, <1>3, WorkRunsAlone, PTL DEF Fetch!Spec

\* KeepsItsProgress (fetch/images.py): wherever passes are killed, a local reference in the
\* document is to the file of its own URL (names that URLs share hold only while no pass reuses
\* files), a pass keeps the references it found, and no more than a checkpoint's worth of images
\* is ahead of the document; for any images, collisions of names, passes and kills.
THEOREM ProgressIsKept ==
  WorkSpec => []KeepsItsProgress
<1>1. ImagesInv => KeepsItsProgress
  BY ImagesEnough DEF KeepsItsProgress
<1>2. ImagesInv /\ [Images!Next]_Images!localizeVars => ImagesInv'
  BY ImagesStep
<1> QED  BY <1>1, <1>2, ImagesInit, WorkRunsAlone, PTL DEF Images!Spec

\* VerdictsAreFresh (utils/url_liveness.py, article_fetch.py): a cached verdict about the moment is served
\* for the short time only, and an article that was not read has the status of its live page and
\* cost no lookup after a permanent error, for any checkers, readers and attempts.
THEOREM VerdictsStayFresh ==
  WorkSpec => []VerdictsAreFresh
<1>1. LinksInv => BlipsPass
  BY DEF LinksInv, BlipsPass
<1>2. ArticlesInv => VerdictIsTheLive
  BY ArticlesEnough DEF VerdictIsTheLive
<1>3. LinksInv /\ [Links!Next]_Links!linkVars => LinksInv'
  BY LinksStep
<1>4. ArticlesInv /\ [Texts!Next]_Texts!articleVars => ArticlesInv'
  BY ArticlesStep
<1>5. LinksInv /\ ArticlesInv => VerdictsAreFresh
  BY <1>1, <1>2 DEF VerdictsAreFresh
<1> QED  BY <1>3, <1>4, <1>5, LinksInit, ArticlesInit, WorkRunsAlone, PTL
         DEF Links!Spec, Texts!Spec
=============================================================================
