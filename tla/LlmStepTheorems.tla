--------------------------- MODULE LlmStepTheorems ---------------------------
(***************************************************************************)
(* Theorems about LlmStep, for any callers, refreshers, keys and bounds.   *)
(***************************************************************************)
EXTENDS LlmStep, FiniteSetTheorems, TLAPS

\* What a caller carries at each point of llm_step.
CallerOK(c) ==
  /\ ~At(c, "idle") => Me(c).key \in Keys /\ Me(c).options \in AllOptions
  /\ At(c, "hit") \/ At(c, "link") => Me(c).hit # None
  /\ At(c, "insert") \/ At(c, "commit") => Me(c).reply # None
  /\ At(c, "judge") \/ At(c, "store") => Me(c).reply \in Responses
  /\ At(c, "store") => Me(c).run # None

\* The primary key of llm_runs, as a property of the set of rows.
RowsOK ==
  /\ IsFiniteSet(runs)
  /\ \A r \in runs : r.id \in 1..Cardinality(runs)
  /\ \A r, s \in runs : r.id = s.id => r = s

\* The row that the second transaction of a hit will link.
LinkOK ==
  \A c \in Callers : At(c, "link") =>
    /\ Me(c).run \in 1..Cardinality(runs)
    /\ \A r \in runs : r.id = Me(c).run => r.status = "cache_hit"

RefresherOK(f) == ~Working(f, "idle") => refresher[f].period \in Periods

StepInv ==
  /\ TypeOK
  /\ \A c \in Callers : CallerOK(c)
  /\ RowsOK
  /\ LinkOK
  /\ \A f \in Refreshers : RefresherOK(f)

Moves(c) == Begin(c) \/ Step(c)

-----------------------------------------------------------------------------
(* Callers. *)

(* Frames with some fields overwritten are frames. *)

LEMMA WithHit ==
  ASSUME NEW f \in CallerType, NEW pc \in Pcs, NEW hit \in Hits \cup {None}
  PROVE  [f EXCEPT !.pc = pc, !.hit = hit] \in CallerType
BY DEF CallerType

LEMMA WithRun ==
  ASSUME NEW f \in CallerType, NEW pc \in Pcs, NEW run \in Nat
  PROVE  [f EXCEPT !.pc = pc, !.run = run] \in CallerType
BY DEF CallerType

LEMMA WithSeen ==
  ASSUME NEW f \in CallerType, NEW pc \in Pcs, NEW period \in Periods,
         NEW seen \in Snapshots \cup {None}
  PROVE  [f EXCEPT !.pc = pc, !.period = period, !.seen = seen] \in CallerType
BY DEF CallerType

LEMMA WithReply ==
  ASSUME NEW f \in CallerType, NEW pc \in Pcs, NEW reply \in Responses \cup {"error"}
  PROVE  [f EXCEPT !.pc = pc, !.reply = reply] \in CallerType
BY DEF CallerType

LEMMA WithTime ==
  ASSUME NEW f \in CallerType, NEW pc \in Pcs, NEW at \in Nat
  PROVE  [f EXCEPT !.pc = pc, !.at = at] \in CallerType
BY DEF CallerType

LEMMA IdleIsCaller == IdleCaller \in CallerType
BY DEF IdleCaller, CallerType, Pcs

LEMMA GotoEffect ==
  ASSUME TypeOK, NEW c \in Callers, NEW pc \in Pcs, Goto(c, pc)
  PROVE  /\ caller' \in [Callers -> CallerType]
         /\ caller'[c] = [caller[c] EXCEPT !.pc = pc]
         /\ \A d \in Callers \ {c} : caller'[d] = caller[d]
BY DEF TypeOK, Goto, CallerType

LEMMA WithOutcome ==
  ASSUME NEW step \in Nat, NEW outcome \in Outcomes, NEW hit \in Hits \cup {None},
         NEW reply \in {"error", None}
  PROVE  [IdleCaller EXCEPT !.step = step, !.outcome = outcome, !.hit = hit, !.reply = reply]
           \in CallerType
BY DEF IdleCaller, CallerType, Pcs

LEMMA FinishEffect ==
  ASSUME TypeOK, NEW c \in Callers, NEW outcome \in Outcomes, Finish(c, outcome)
  PROVE  /\ caller' \in [Callers -> CallerType]
         /\ caller'[c].pc = "idle"
         /\ \A d \in Callers \ {c} : caller'[d] = caller[d]
<1> DEFINE hit   == IF outcome = "hit" THEN Me(c).hit ELSE None
           reply == IF Raised(c) THEN "error" ELSE None
           idle  == [IdleCaller EXCEPT !.step = Me(c).step, !.outcome = outcome,
                                       !.hit = hit, !.reply = reply]
<1>1. caller[c] \in CallerType /\ caller \in [Callers -> CallerType]
  BY DEF TypeOK
<1>2. Me(c).step \in Nat /\ hit \in Hits \cup {None} /\ reply \in {"error", None}
  BY <1>1 DEF CallerType, Me
<1>3. caller' = [caller EXCEPT ![c] = idle]
  BY DEF Finish
<1> HIDE DEF hit, reply
<1>4. idle \in CallerType
  BY <1>2, WithOutcome
<1>5. idle.pc = "idle"
  BY DEF IdleCaller
<1> HIDE DEF idle
<1> QED  BY <1>1, <1>3, <1>4, <1>5

\* A step moves one caller, to a point for which it has what it needs.
LEMMA CallerStep ==
  ASSUME StepInv, NEW c \in Callers, Moves(c)
  PROVE  /\ caller' \in [Callers -> CallerType]
         /\ CallerOK(c)'
         /\ \A d \in Callers \ {c} : caller'[d] = caller[d]
<1> USE DEF Outcomes
<1>1. /\ TypeOK /\ CallerOK(c) /\ RowsOK
      /\ caller \in [Callers -> CallerType] /\ caller[c] \in CallerType
  BY DEF StepInv, TypeOK
<1>2. /\ Cardinality(runs) + 1 \in Nat
      /\ {"link", "delta", "insert", "commit", "judge"} \subseteq Pcs
  BY <1>1, FS_CardinalityType DEF RowsOK, Pcs
<1>3. ASSUME NEW outcome \in Outcomes, Finish(c, outcome)
      PROVE  /\ caller' \in [Callers -> CallerType]
             /\ CallerOK(c)'
             /\ \A d \in Callers \ {c} : caller'[d] = caller[d]
  BY <1>1, <1>3, FinishEffect DEF CallerOK, At
<1>4. CASE Begin(c)
  <2>1. PICK k \in Keys, o \in Options :
          caller' = [caller EXCEPT ![c] = [IdleCaller EXCEPT
                       !.step = count["step"] + 1, !.key = k, !.options = o,
                       !.pc = IF o.cache THEN "lookup" ELSE "snapshot"]]
    BY <1>4 DEF Begin
  <2> DEFINE new == [IdleCaller EXCEPT
                       !.step = count["step"] + 1, !.key = k, !.options = o,
                       !.pc = IF o.cache THEN "lookup" ELSE "snapshot"]
  <2>2. o \in AllOptions
    BY OptionAssumption
  <2>3. count["step"] + 1 \in Nat
    BY <1>1 DEF TypeOK
  <2>4. new \in CallerType /\ new.pc \in {"lookup", "snapshot"} /\ new.key = k /\ new.options = o
    BY <2>2, <2>3 DEF IdleCaller, CallerType, Pcs
  <2>5. caller' = [caller EXCEPT ![c] = new]
    BY <2>1
  <2> HIDE DEF new
  <2> QED  BY <1>1, <2>2, <2>4, <2>5 DEF CallerOK, At, Me
<1>5. CASE Lookup(c)
  <2> DEFINE e == entry[Me(c).key]
             found == e # None /\ Unexpired(e)
             hit == IF found THEN [entry |-> e.id, source |-> e.source, response |-> e.response]
                    ELSE None
             pc == IF found THEN "hit" ELSE "snapshot"
             new == [caller[c] EXCEPT !.pc = pc, !.hit = hit]
  <2>1. Me(c).key \in Keys
    BY <1>1, <1>5 DEF Lookup, CallerOK, At
  <2>2. e \in Entries \cup {None}
    BY <1>1, <2>1 DEF TypeOK
  <2>3. /\ hit \in Hits \cup {None}
        /\ found => hit # None
    <3>1. CASE found
      <4>1. [entry |-> e.id, source |-> e.source, response |-> e.response]
              \in Hits
        BY <2>2, <3>1 DEF Entries, Hits
      <4> QED  BY <3>1, <4>1, NoneAssumption
    <3>2. CASE ~found
      BY <3>2
    <3> QED  BY <3>1, <3>2
  <2>4. caller' = [caller EXCEPT ![c] = new]
    BY <1>1, <1>5 DEF Lookup, Me
  <2> HIDE DEF hit
  <2>5. pc \in Pcs
    BY DEF Pcs
  <2>6. pc = (IF found THEN "hit" ELSE "snapshot")
    OBVIOUS
  <2> HIDE DEF found, pc
  <2>7a. new \in CallerType
    BY <1>1, <2>3, <2>5, WithHit
  <2>7. /\ new.pc = pc
        /\ new.hit = hit /\ new.key = caller[c].key /\ new.options = caller[c].options
    BY <1>1 DEF CallerType
  <2> HIDE DEF new
  <2> QED  BY <1>1, <1>5, <2>1, <2>3, <2>4, <2>6, <2>7, <2>7a DEF Lookup, CallerOK, At, Me
<1>6. CASE RecordHit(c)
  <2>1. CASE Finish(c, "db_error")
    BY <1>3, <2>1
  <2>2. CASE caller' = [caller EXCEPT ![c].pc = "link", ![c].run = Cardinality(runs) + 1]
    <3> DEFINE new == [caller[c] EXCEPT !.pc = "link", !.run = Cardinality(runs) + 1]
    <3>1a. new \in CallerType
      BY <1>1, <1>2, WithRun
    <3>1. /\ new.pc = "link" /\ new.key = caller[c].key
          /\ new.options = caller[c].options /\ new.hit = caller[c].hit
      BY <1>1 DEF CallerType
    <3>2. caller' = [caller EXCEPT ![c] = new]
      BY <1>1, <2>2
    <3> HIDE DEF new
    <3> QED  BY <1>1, <1>6, <3>1, <3>1a, <3>2 DEF RecordHit, CallerOK, At, Me
  <2> QED  BY <1>6, <2>1, <2>2 DEF RecordHit
<1>7. CASE LinkHit(c)
  BY <1>3, <1>7 DEF LinkHit, HitOutcome
<1>8. CASE Store(c)
  BY <1>3, <1>8 DEF Store
<1>9. CASE CheckSnapshot(c)
  <2> DEFINE new == [caller[c] EXCEPT !.pc = "delta", !.period = PeriodOf(now),
                                      !.seen = snapshot[PeriodOf(now)]]
  <2>1. PeriodOf(now) \in Periods
    BY <1>1 DEF TypeOK, Periods
  <2>2. snapshot[PeriodOf(now)] \in Snapshots \cup {None}
    BY <1>1, <2>1 DEF TypeOK
  <2>3a. new \in CallerType
    BY <1>1, <1>2, <2>1, <2>2, WithSeen
  <2>3. /\ new.pc = "delta" /\ new.key = caller[c].key
        /\ new.options = caller[c].options
    BY <1>1 DEF CallerType
  <2>4. caller' = [caller EXCEPT ![c] = new]
    BY <1>1, <1>9 DEF CheckSnapshot
  <2> HIDE DEF new
  <2> QED  BY <1>1, <1>9, <2>3, <2>3a, <2>4 DEF CheckSnapshot, CallerOK, At, Me
<1>10. CASE CheckDelta(c)
  <2>1. PICK pc \in {"chat", "blocked"} : Goto(c, pc)
    BY <1>10 DEF CheckDelta
  <2>2. /\ caller' \in [Callers -> CallerType]
        /\ caller'[c] = [caller[c] EXCEPT !.pc = pc]
        /\ \A d \in Callers \ {c} : caller'[d] = caller[d]
    BY <1>1, <2>1, GotoEffect DEF Pcs
  <2> QED  BY <1>1, <1>10, <2>2 DEF CheckDelta, CallerOK, At, Me, CallerType
<1>11. CASE RecordBlocked(c)
  BY <1>3, <1>11 DEF RecordBlocked
<1>12. CASE Chat(c)
  <2>1. PICK reply \in Replies : caller' = [caller EXCEPT ![c].pc = "insert", ![c].reply = reply]
    BY <1>12 DEF Chat
  <2> DEFINE new == [caller[c] EXCEPT !.pc = "insert", !.reply = reply]
  <2>2. reply \in Responses \cup {"error"} /\ reply # None
    BY ReplyAssumption, NoneAssumption DEF Responses
  <2>3a. new \in CallerType
    BY <1>1, <1>2, <2>2, WithReply
  <2>3. /\ new.pc = "insert" /\ new.key = caller[c].key
        /\ new.options = caller[c].options /\ new.reply = reply
    BY <1>1 DEF CallerType
  <2>4. caller' = [caller EXCEPT ![c] = new]
    BY <1>1, <2>1
  <2> HIDE DEF new
  <2> QED  BY <1>1, <1>12, <2>2, <2>3, <2>3a, <2>4 DEF Chat, CallerOK, At, Me
<1>13. CASE RecordInsert(c)
  <2> DEFINE new == [caller[c] EXCEPT !.pc = "commit", !.at = now]
  <2>1. now \in Nat
    BY <1>1 DEF TypeOK
  <2>2a. new \in CallerType
    BY <1>1, <1>2, <2>1, WithTime
  <2>2. /\ new.pc = "commit" /\ new.key = caller[c].key
        /\ new.options = caller[c].options /\ new.reply = caller[c].reply
    BY <1>1 DEF CallerType
  <2>3. caller' = [caller EXCEPT ![c] = new]
    BY <1>1, <1>13 DEF RecordInsert
  <2> HIDE DEF new
  <2> QED  BY <1>1, <1>13, <2>2, <2>2a, <2>3 DEF RecordInsert, CallerOK, At, Me
<1>14. CASE RecordCommit(c)
  <2>1. Me(c).reply \in Responses \cup {"error"}
    BY <1>1, <1>14 DEF RecordCommit, CallerOK, CallerType, At, Me
  <2>2. CASE \E outcome \in Outcomes : Finish(c, outcome)
    BY <1>3, <2>2
  <2>3. CASE /\ ~Raised(c)
             /\ caller' = [caller EXCEPT ![c].pc = "judge", ![c].run = Cardinality(runs) + 1]
    <3> DEFINE new == [caller[c] EXCEPT !.pc = "judge", !.run = Cardinality(runs) + 1]
    <3>1a. new \in CallerType
      BY <1>1, <1>2, WithRun
    <3>1. /\ new.pc = "judge" /\ new.key = caller[c].key
          /\ new.options = caller[c].options /\ new.reply = caller[c].reply
      BY <1>1 DEF CallerType
    <3>2. caller' = [caller EXCEPT ![c] = new]
      BY <1>1, <2>3
    <3> HIDE DEF new
    <3> QED  BY <1>1, <1>14, <2>1, <2>3, <3>1, <3>1a, <3>2
             DEF RecordCommit, Raised, CallerOK, At, Me
  <2>4. CASE ~Raised(c) /\ Goto(c, "judge")
    <3>1. /\ caller' \in [Callers -> CallerType]
          /\ caller'[c] = [caller[c] EXCEPT !.pc = "judge"]
          /\ \A d \in Callers \ {c} : caller'[d] = caller[d]
      BY <1>1, <2>4, GotoEffect DEF Pcs
    <3> QED
      BY <1>1, <1>14, <2>1, <2>4, <3>1 DEF RecordCommit, Raised, CallerOK, At, Me, CallerType
  <2> QED  BY <1>14, <2>2, <2>3, <2>4 DEF RecordCommit, Unrecorded
<1>15. CASE Judge(c)
  <2>1. CASE \E outcome \in Outcomes : Finish(c, outcome)
    BY <1>3, <2>1
  <2>2. CASE MayStore(c) /\ Goto(c, "store")
    <3>1. /\ caller' \in [Callers -> CallerType]
          /\ caller'[c] = [caller[c] EXCEPT !.pc = "store"]
          /\ \A d \in Callers \ {c} : caller'[d] = caller[d]
      BY <1>1, <2>2, GotoEffect DEF Pcs
    <3> QED  BY <1>1, <1>15, <2>2, <3>1 DEF Judge, MayStore, CallerOK, At, Me, CallerType
  <2> QED  BY <1>15, <2>1, <2>2 DEF Judge
<1> QED
  BY <1>4, <1>5, <1>6, <1>7, <1>8, <1>9, <1>10, <1>11, <1>12, <1>13, <1>14, <1>15
  DEF Moves, Step

-----------------------------------------------------------------------------
(* The rows of llm_runs. *)

LEMMA RowIsRow ==
  ASSUME StepInv, NEW c \in Callers, ~At(c, "idle"), NEW status \in Statuses,
         NEW at \in Nat, NEW response \in Responses \cup {None}
  PROVE  /\ Row(c, status, at, response) \in Rows
         /\ Row(c, status, at, response).id = Cardinality(runs) + 1
         /\ Row(c, status, at, response).status = status
         /\ Row(c, status, at, response).at = at
<1>1. Cardinality(runs) + 1 \in Nat
  BY FS_CardinalityType DEF StepInv, RowsOK
<1>2. Me(c).key \in Keys /\ Me(c).step \in Nat
  BY DEF StepInv, CallerOK, TypeOK, CallerType, Me
<1> QED  BY <1>1, <1>2 DEF Row, Rows

\* An INSERT takes the next id.
LEMMA AddEffect ==
  ASSUME RowsOK, NEW row, row.id = Cardinality(runs) + 1, runs' = runs \cup {row}
  PROVE  RowsOK' /\ Cardinality(runs') = Cardinality(runs) + 1
<1> DEFINE n == Cardinality(runs)
<1>1. n \in Nat /\ IsFiniteSet(runs)
  BY FS_CardinalityType DEF RowsOK
<1>2. row \notin runs
  BY <1>1 DEF RowsOK
<1>3. IsFiniteSet(runs') /\ Cardinality(runs') = n + 1
  BY <1>1, <1>2, FS_AddElement
<1>4. \A r \in runs : r.id \in 1..n
  BY DEF RowsOK
<1> HIDE DEF n
<1>5. \A r \in runs' : r.id \in 1..(n + 1)
  BY <1>1, <1>4 DEF n
<1>6. \A r, s \in runs' : r.id = s.id => r = s
  BY <1>1, <1>4 DEF RowsOK, n
<1> QED  BY <1>3, <1>5, <1>6 DEF RowsOK, n

\* The link of a hit changes one field of one row.
LEMMA LinkEffect ==
  ASSUME StepInv, NEW c \in Callers, At(c, "link"), runs' = Linked(c)
  PROVE  /\ RowsOK' /\ Cardinality(runs') = Cardinality(runs) /\ runs' \subseteq Rows
         /\ \A r \in runs' : \E s \in runs : r.id = s.id /\ r.status = s.status
         /\ \A r \in runs \cup runs' : r.status # "cache_hit" => r \in runs /\ r \in runs'
<1> DEFINE linked(r) == IF r.id = Me(c).run THEN [r EXCEPT !.entry = Me(c).hit.entry] ELSE r
           f == [r \in runs |-> linked(r)]
<1>1. /\ runs \subseteq Rows /\ IsFiniteSet(runs)
      /\ \A r, s \in runs : r.id = s.id => r = s
      /\ \A r \in runs : r.id = Me(c).run => r.status = "cache_hit"
  BY DEF StepInv, TypeOK, RowsOK, LinkOK
<1>2. Me(c).hit.entry \in Nat
  BY DEF StepInv, TypeOK, CallerType, CallerOK, Hits, Me
<1>3. \A r \in runs : /\ linked(r) \in Rows
                      /\ linked(r).id = r.id /\ linked(r).status = r.status
                      /\ r.id # Me(c).run => linked(r) = r
  BY <1>1, <1>2 DEF Rows
<1>4. runs' = {linked(r) : r \in runs}
  BY DEF Linked
<1> HIDE DEF linked
<1>5. ExistsBijection(runs, runs')
  <2>1. f \in [runs -> runs'] /\ \A r, s \in runs : f[r] = f[s] => r = s
    BY <1>1, <1>3, <1>4
  <2>2. \A t \in runs' : \E r \in runs : f[r] = t
    BY <1>4
  <2>3. f \in Bijection(runs, runs')
    BY <2>1, <2>2 DEF Bijection, Injection, Surjection, IsInjective
  <2> QED  BY <2>3 DEF ExistsBijection
<1>6. IsFiniteSet(runs') /\ Cardinality(runs') = Cardinality(runs)
  BY <1>1, <1>5, FS_Bijection
<1>7. RowsOK'
  <2>1. \A r \in runs' : r.id \in 1..Cardinality(runs)
    BY <1>3, <1>4 DEF StepInv, RowsOK
  <2>2. \A r, s \in runs' : r.id = s.id => r = s
    BY <1>1, <1>3, <1>4
  <2> QED  BY <1>6, <2>1, <2>2 DEF RowsOK
<1>8. runs' \subseteq Rows /\ \A r \in runs' : \E s \in runs : r.id = s.id /\ r.status = s.status
  BY <1>3, <1>4
<1>9. ASSUME NEW r \in runs \cup runs', r.status # "cache_hit"
      PROVE  r \in runs /\ r \in runs'
  BY <1>1, <1>3, <1>4, <1>9
<1> QED  BY <1>6, <1>7, <1>8, <1>9

\* A step adds one row, links one, or leaves the table alone; a row that a budget
\* counts is stamped with the time at which its INSERT ran.
LEMMA RunsStep ==
  ASSUME StepInv, [Next]_vars
  PROVE  \/ runs' = runs
         \/ \E c \in Callers, row \in Rows :
              /\ runs' = runs \cup {row} /\ row.id = Cardinality(runs) + 1
              /\ row.status \in {"success", "failed"} => At(c, "commit") /\ row.at = Me(c).at
              /\ At(c, "hit") => row.status = "cache_hit"
              /\ Moves(c)
         \/ \E c \in Callers : At(c, "link") /\ Moves(c) /\ runs' = Linked(c)
<1> USE DEF Statuses
<1>1. TypeOK /\ now \in Nat
  BY DEF StepInv, TypeOK
<1>2. ASSUME NEW c \in Callers, RecordHit(c), runs' # runs
      PROVE  \E row \in Rows :
               /\ runs' = runs \cup {row} /\ row.id = Cardinality(runs) + 1
               /\ row.status = "cache_hit"
  BY <1>1, <1>2, RowIsRow DEF RecordHit, At
<1>3. ASSUME NEW c \in Callers, RecordBlocked(c), runs' # runs
      PROVE  \E row \in Rows :
               /\ runs' = runs \cup {row} /\ row.id = Cardinality(runs) + 1
               /\ row.status = "budget_blocked"
  BY <1>1, <1>3, RowIsRow DEF RecordBlocked, At
<1>4. ASSUME NEW c \in Callers, RecordCommit(c), runs' # runs
      PROVE  \E row \in Rows :
               /\ runs' = runs \cup {row} /\ row.id = Cardinality(runs) + 1
               /\ row.at = Me(c).at
  <2>1. runs' = runs \cup {CallRow(c)}
    BY <1>4 DEF RecordCommit, Committed
  <2>2. /\ Me(c).at \in Nat
        /\ (IF Raised(c) THEN None ELSE Me(c).reply) \in Responses \cup {None}
        /\ (IF Raised(c) THEN "failed" ELSE "success") \in Statuses
    BY <1>1 DEF TypeOK, CallerType, Raised, Me
  <2>3. ~At(c, "idle")
    BY <1>4 DEF RecordCommit, At
  <2>4. /\ CallRow(c) \in Rows /\ CallRow(c).id = Cardinality(runs) + 1
        /\ CallRow(c).at = Me(c).at
    BY <2>2, <2>3, RowIsRow DEF CallRow
  <2> QED  BY <2>1, <2>4
<1>5. \/ runs' = runs
      \/ \E c \in Callers : RecordHit(c) \/ RecordBlocked(c) \/ RecordCommit(c)
      \/ \E c \in Callers : LinkHit(c) /\ runs' = Linked(c)
  BY DEF Next, Step, Refresh, vars, Begin, Lookup, LinkHit, Store, CheckSnapshot, CheckDelta,
         Chat, RecordInsert, Judge, Invalidate, PurgeExpired, Tick, RefreshBegin, RefreshCutoff,
         RefreshAggregate, RefreshWrite, RefreshFail
<1>6. ASSUME NEW c \in Callers, RecordHit(c) \/ RecordBlocked(c) \/ RecordCommit(c)
      PROVE  \/ runs' = runs
             \/ \E row \in Rows :
                  /\ runs' = runs \cup {row} /\ row.id = Cardinality(runs) + 1
                  /\ row.status \in {"success", "failed"} => At(c, "commit") /\ row.at = Me(c).at
                  /\ At(c, "hit") => row.status = "cache_hit"
                  /\ Moves(c)
  <2>1. CASE RecordHit(c)
    BY <1>2, <2>1 DEF Moves, Step
  <2>2. CASE RecordBlocked(c)
    <3>1. ~At(c, "hit")
      BY <2>2 DEF RecordBlocked, At
    <3> QED  BY <1>3, <2>2, <3>1 DEF Moves, Step
  <2>3. CASE RecordCommit(c)
    <3>1. At(c, "commit") /\ ~At(c, "hit")
      BY <2>3 DEF RecordCommit, At
    <3> QED  BY <1>4, <2>3, <3>1 DEF Moves, Step
  <2> QED  BY <1>6, <2>1, <2>2, <2>3
<1>7. \A c \in Callers : LinkHit(c) => At(c, "link") /\ Moves(c)
  BY DEF LinkHit, Moves, Step
<1> QED  BY <1>5, <1>6, <1>7

\* The types and the primary key of the rows.
LEMMA RowsKept ==
  ASSUME StepInv, [Next]_vars
  PROVE  /\ RowsOK' /\ runs' \subseteq Rows /\ Cardinality(runs) <= Cardinality(runs')
         /\ Cardinality(runs) \in Nat /\ Cardinality(runs') \in Nat
<1>1. runs \subseteq Rows /\ RowsOK /\ Cardinality(runs) \in Nat
  BY FS_CardinalityType DEF StepInv, TypeOK, RowsOK
<1>2. CASE runs' = runs
  BY <1>1, <1>2 DEF RowsOK
<1>3. ASSUME NEW row \in Rows, runs' = runs \cup {row}, row.id = Cardinality(runs) + 1
      PROVE  RowsOK' /\ runs' \subseteq Rows /\ Cardinality(runs') = Cardinality(runs) + 1
  BY <1>1, <1>3, AddEffect
<1>4. ASSUME NEW c \in Callers, At(c, "link"), runs' = Linked(c)
      PROVE  RowsOK' /\ runs' \subseteq Rows /\ Cardinality(runs') = Cardinality(runs)
  BY <1>4, LinkEffect
<1> QED  BY <1>1, <1>2, <1>3, <1>4, RunsStep

LEMMA AggregateType ==
  ASSUME IsFiniteSet(runs), NEW p, NEW limit
  PROVE  Aggregate(p, limit) \in Nat
<1>1. {r \in Counted(p) : r.at < limit} \in SUBSET runs
  BY DEF Counted
<1> QED  BY <1>1, FS_Subset, FS_CardinalityType DEF Aggregate

\* A caller comes to the link of a hit by the first transaction, with the row that it wrote.
LEMMA LinkMove ==
  ASSUME StepInv, [Next]_vars, NEW d \in Callers, At(d, "link")'
  PROVE  \/ At(d, "link") /\ Me(d)'.run = Me(d).run
         \/ RecordHit(d) /\ At(d, "hit") /\ Me(d)'.run = Cardinality(runs) + 1
              /\ runs' = runs \cup {Row(d, "cache_hit", now, None)}
<1>0. TypeOK
  BY DEF StepInv
<1>1. CASE caller'[d] = caller[d]
  BY <1>1 DEF At, Me
<1>2. ASSUME NEW c \in Callers, Moves(c), caller'[d] # caller[d]
      PROVE  RecordHit(d) /\ At(d, "hit") /\ Me(d)'.run = Cardinality(runs) + 1
               /\ runs' = runs \cup {Row(d, "cache_hit", now, None)}
  <2>1. d = c /\ caller'[d].pc = "link" /\ caller \in [Callers -> CallerType]
    BY <1>0, <1>2, CallerStep DEF At, TypeOK
  <2>2. ASSUME NEW outcome \in Outcomes, Finish(d, outcome)  PROVE FALSE
    BY <1>0, <2>1, <2>2, FinishEffect
  <2>3. ASSUME NEW pc \in Pcs \ {"link"}, Goto(d, pc)  PROVE FALSE
    <3>1. pc # "link" /\ caller[d] \in CallerType
      BY <2>1, <2>3
    <3>2. caller'[d].pc = pc
      BY <2>1, <2>3, <3>1 DEF Goto, CallerType
    <3> QED  BY <2>1, <3>1, <3>2
  <2> HIDE DEF Pcs, Outcomes, CallerType
  <2>4a. ~Begin(d)
    <3> SUFFICES ASSUME Begin(d)  PROVE FALSE
      OBVIOUS
    <3>1. PICK k \in Keys, o \in Options :
            caller'[d].pc = IF o.cache THEN "lookup" ELSE "snapshot"
      BY <2>1 DEF Begin, IdleCaller
    <3> QED  BY <2>1, <3>1
  <2>4b. ~Lookup(d)
    BY <2>1 DEF Lookup, CallerType
  <2>4c. ~CheckSnapshot(d)
    BY <2>1 DEF CheckSnapshot, CallerType
  <2>4d. ~Chat(d)
    BY <2>1 DEF Chat, CallerType
  <2>4e. ~RecordInsert(d)
    BY <2>1 DEF RecordInsert, CallerType
  <2>5a. ~LinkHit(d)
    BY <2>2 DEF LinkHit, HitOutcome, Outcomes
  <2>5b. ~Store(d)
    BY <2>2 DEF Store, Outcomes
  <2>5c. ~RecordBlocked(d)
    BY <2>2 DEF RecordBlocked, Outcomes
  <2>6a. ~CheckDelta(d)
    BY <2>3 DEF CheckDelta, Pcs
  <2>6b. ~Judge(d)
    BY <2>2, <2>3 DEF Judge, Pcs, Outcomes
  <2>7. ~RecordCommit(d)
    <3> SUFFICES ASSUME RecordCommit(d)  PROVE FALSE
      OBVIOUS
    <3>1. ~Finish(d, "raised") /\ ~Finish(d, "db_error") /\ ~Goto(d, "judge")
      BY <2>2, <2>3 DEF Pcs, Outcomes
    <3>2. caller' = [caller EXCEPT ![d].pc = "judge", ![d].run = Cardinality(runs) + 1]
      BY <3>1 DEF RecordCommit, Unrecorded
    <3> QED  BY <2>1, <3>2 DEF CallerType
  <2>8. RecordHit(d)
    BY <1>2, <2>1, <2>4a, <2>4b, <2>4c, <2>4d, <2>4e, <2>5a, <2>5b, <2>5c,
         <2>6a, <2>6b, <2>7 DEF Moves, Step
  <2>9. ~Finish(d, "db_error")
    BY <2>2 DEF Outcomes
  <2>10. /\ At(d, "hit") /\ runs' = runs \cup {Row(d, "cache_hit", now, None)}
         /\ caller' = [caller EXCEPT ![d].pc = "link", ![d].run = Cardinality(runs) + 1]
    BY <2>8, <2>9 DEF RecordHit
  <2> QED  BY <2>1, <2>8, <2>10 DEF Me, CallerType
<1>3. caller'[d] = caller[d] \/ \E c \in Callers : Moves(c)
  BY DEF Next, Moves, vars, Refresh, RefreshBegin, RefreshCutoff, RefreshAggregate,
         RefreshWrite, RefreshFail, Invalidate, PurgeExpired, Tick
<1> QED  BY <1>1, <1>2, <1>3

\* The row between the two transactions of a hit.
LEMMA LinkStep ==
  ASSUME StepInv, [Next]_vars, NEW d \in Callers, At(d, "link")'
  PROVE  /\ Me(d)'.run \in 1..Cardinality(runs')
         /\ \A r \in runs' : r.id = Me(d)'.run => r.status = "cache_hit"
<1>1. /\ TypeOK /\ RowsOK /\ LinkOK
      /\ Cardinality(runs) \in Nat /\ Cardinality(runs') \in Nat
      /\ Cardinality(runs) <= Cardinality(runs')
  BY RowsKept DEF StepInv
<1>2. \/ At(d, "link") /\ Me(d)'.run = Me(d).run
      \/ RecordHit(d) /\ At(d, "hit") /\ Me(d)'.run = Cardinality(runs) + 1
           /\ runs' = runs \cup {Row(d, "cache_hit", now, None)}
  BY LinkMove
<1>3. CASE At(d, "link") /\ Me(d)'.run = Me(d).run
  <2>1. /\ Me(d).run \in 1..Cardinality(runs)
        /\ \A r \in runs : r.id = Me(d).run => r.status = "cache_hit"
    BY <1>1, <1>3 DEF LinkOK
  <2>2. CASE runs' = runs
    BY <1>3, <2>1, <2>2
  <2>3. ASSUME NEW row, runs' = runs \cup {row}, row.id = Cardinality(runs) + 1
        PROVE  \A r \in runs' : r.id = Me(d).run => r.status = "cache_hit"
    BY <1>1, <2>1, <2>3
  <2>4. ASSUME NEW c \in Callers, At(c, "link"), runs' = Linked(c)
        PROVE  \A r \in runs' : r.id = Me(d).run => r.status = "cache_hit"
    BY <2>1, <2>4, LinkEffect
  <2>5. \A r \in runs' : r.id = Me(d).run => r.status = "cache_hit"
    BY <2>1, <2>2, <2>3, <2>4, RunsStep
  <2> QED  BY <1>1, <1>3, <2>1, <2>5
<1>4. CASE RecordHit(d) /\ At(d, "hit") /\ Me(d)'.run = Cardinality(runs) + 1
             /\ runs' = runs \cup {Row(d, "cache_hit", now, None)}
  <2> DEFINE row == Row(d, "cache_hit", now, None)
  <2>1. row.id = Cardinality(runs) + 1 /\ row.status = "cache_hit"
    BY <1>1, <1>4, RowIsRow DEF At, Statuses, TypeOK
  <2>2. Cardinality(runs') = Cardinality(runs) + 1
    BY <1>1, <1>4, <2>1, AddEffect
  <2>3. \A r \in runs : r.id # Cardinality(runs) + 1
    BY <1>1 DEF RowsOK
  <2> QED  BY <1>1, <1>4, <2>1, <2>2, <2>3
<1> QED  BY <1>2, <1>3, <1>4

-----------------------------------------------------------------------------
(* The invariant. *)

LEMMA CallersKept ==
  ASSUME StepInv, [Next]_vars
  PROVE  caller' \in [Callers -> CallerType] /\ \A c \in Callers : CallerOK(c)'
<1>1. TypeOK /\ \A c \in Callers : CallerOK(c)
  BY DEF StepInv
<1>2. ASSUME NEW d \in Callers, caller'[d] = caller[d]
      PROVE  CallerOK(d)'
  BY <1>1, <1>2 DEF CallerOK, At, Me
<1>3. ASSUME NEW c \in Callers, Moves(c)
      PROVE  caller' \in [Callers -> CallerType] /\ \A d \in Callers : CallerOK(d)'
  BY <1>2, <1>3, CallerStep
<1>4. CASE caller' = caller
  BY <1>1, <1>2, <1>4 DEF TypeOK
<1>5. caller' = caller \/ \E c \in Callers : Moves(c)
  BY DEF Next, Moves, vars, Refresh, RefreshBegin, RefreshCutoff, RefreshAggregate,
         RefreshWrite, RefreshFail, Invalidate, PurgeExpired, Tick
<1> QED  BY <1>3, <1>4, <1>5

LEMMA CountersKept ==
  ASSUME StepInv, [Next]_vars
  PROVE  now' \in 0..MaxTime /\ lost' \subseteq Nat
           /\ count' \in [{"step", "fault", "invalidation", "entry"} -> Nat]
<1>1. TypeOK /\ MaxTime \in Nat
  BY BoundAssumption DEF StepInv
<1>2. \A c \in Callers : Me(c).step \in Nat
  BY <1>1 DEF TypeOK, CallerType, Me
<1>3. now' \in 0..MaxTime
  <2>1. \/ now' = now \/ Tick
    <3>1. \A c \in Callers : Step(c) \/ Begin(c) => now' = now
      BY DEF Step, Begin, Lookup, RecordHit, LinkHit, Store, CheckSnapshot, CheckDelta,
         RecordBlocked, Chat, RecordInsert, RecordCommit, Judge
    <3>2. \A f \in Refreshers : Refresh(f) => now' = now
      BY DEF Refresh, RefreshBegin, RefreshCutoff, RefreshAggregate, RefreshWrite, RefreshFail
    <3>3. Invalidate \/ PurgeExpired \/ UNCHANGED vars => now' = now
      BY DEF Invalidate, PurgeExpired, vars
    <3> QED  BY <3>1, <3>2, <3>3 DEF Next
  <2> QED  BY <1>1, <2>1 DEF TypeOK, Tick
<1>4. lost' \subseteq Nat
  <2>1. \/ lost' = lost \/ \E c \in Callers : lost' = lost \cup {Me(c).step}
    <3>1. \A c \in Callers : Step(c) \/ Begin(c) =>
            lost' = lost \/ lost' = lost \cup {Me(c).step}
      BY DEF Step, Begin, Lookup, RecordHit, LinkHit, Store, CheckSnapshot, CheckDelta,
         RecordBlocked, Chat, RecordInsert, RecordCommit, Judge
    <3>2. \A f \in Refreshers : Refresh(f) => lost' = lost
      BY DEF Refresh, RefreshBegin, RefreshCutoff, RefreshAggregate, RefreshWrite, RefreshFail
    <3>3. Invalidate \/ PurgeExpired \/ Tick \/ UNCHANGED vars => lost' = lost
      BY DEF Invalidate, PurgeExpired, Tick, vars
    <3> QED  BY <3>1, <3>2, <3>3 DEF Next
  <2>2. lost \subseteq Nat
    BY <1>1 DEF TypeOK
  <2>3. ASSUME NEW c \in Callers, lost' = lost \cup {Me(c).step}
        PROVE  lost' \subseteq Nat
    <3>1. Me(c).step \in Nat
      BY <1>2
    <3> QED  BY <2>2, <2>3, <3>1
  <2> QED  BY <2>1, <2>2, <2>3
<1>5. count' \in [{"step", "fault", "invalidation", "entry"} -> Nat]
  <2> DEFINE Bump(x) == count' = [count EXCEPT ![x] = @ + 1]
  <2>1. ASSUME NEW x \in {"step", "fault", "invalidation", "entry"}, Bump(x)
        PROVE  count' \in [{"step", "fault", "invalidation", "entry"} -> Nat]
    BY <1>1, <2>1 DEF TypeOK
  <2>2. Fault => Bump("fault")
    BY DEF Fault
  <2>3. \A c \in Callers : Begin(c) => Bump("step")
    BY DEF Begin
  <2>4. Invalidate => Bump("invalidation")
    BY DEF Invalidate
  <2>5. \A c \in Callers : Store(c) => count' = count \/ Bump("entry") \/ Fault
    BY DEF Store
  <2>6. \A c \in Callers :
          LinkHit(c) \/ RecordHit(c) \/ RecordBlocked(c) \/ RecordCommit(c)
            => count' = count \/ Fault
    BY DEF LinkHit, RecordHit, RecordBlocked, RecordCommit
  <2>7. \A c \in Callers :
          Lookup(c) \/ CheckSnapshot(c) \/ CheckDelta(c) \/ Chat(c) \/ RecordInsert(c) \/ Judge(c)
            => count' = count
    BY DEF Lookup, CheckSnapshot, CheckDelta, Chat, RecordInsert, Judge
  <2>8. \A f \in Refreshers : Refresh(f) => count' = count
    BY DEF Refresh, RefreshBegin, RefreshCutoff, RefreshAggregate, RefreshWrite, RefreshFail
  <2>9. PurgeExpired \/ Tick \/ UNCHANGED vars => count' = count
    BY DEF PurgeExpired, Tick, vars
  <2> HIDE DEF Bump
  <2>10. \/ count' = count
         \/ \E x \in {"step", "fault", "invalidation", "entry"} : Bump(x)
    BY <2>2, <2>3, <2>4, <2>5, <2>6, <2>7, <2>8, <2>9 DEF Next, Step
  <2> QED  BY <1>1, <2>1, <2>10 DEF TypeOK
<1> QED  BY <1>3, <1>4, <1>5

LEMMA EntriesKept ==
  ASSUME StepInv, [Next]_vars
  PROVE  entry' \in [Keys -> Entries \cup {None}]
<1>1. TypeOK /\ \A c \in Callers : CallerOK(c)
  BY DEF StepInv
<1>2. ASSUME NEW c \in Callers, LinkHit(c)
      PROVE  entry' \in [Keys -> Entries \cup {None}]
  <2>1. \A e \in Entries : [e EXCEPT !.hits = @ + 1] \in Entries
    BY DEF Entries
  <2> QED  BY <1>1, <1>2, <2>1 DEF LinkHit, Bumped, TypeOK
<1>3. ASSUME NEW c \in Callers, Store(c)
      PROVE  entry' \in [Keys -> Entries \cup {None}]
  <2>1. Me(c).run \in Nat /\ Me(c).reply \in Responses /\ Me(c).key \in Keys
    BY <1>1, <1>3 DEF Store, CallerOK, TypeOK, CallerType, At, Me
  <2>2. Expiry \in Nat \cup {None}
    BY <1>1, LimitAssumption DEF Expiry, TypeOK
  <2>3. ASSUME NEW e \in Entries  PROVE Refreshed(e, c) \in Entries
    BY <2>1, <2>2, <2>3 DEF Refreshed, Entries
  <2> DEFINE new == [id |-> count["entry"] + 1, source |-> Me(c).run,
                     response |-> Me(c).reply, expires |-> Expiry, hits |-> 0]
  <2>4. new \in Entries
    BY <1>1, <2>1, <2>2 DEF Entries, TypeOK
  <2>5. \/ entry' = entry
        \/ entry[Me(c).key] # None
             /\ entry' = [entry EXCEPT ![Me(c).key] = Refreshed(entry[Me(c).key], c)]
        \/ entry' = [entry EXCEPT ![Me(c).key] = new]
    BY <1>3 DEF Store
  <2> HIDE DEF new
  <2> QED  BY <1>1, <2>1, <2>3, <2>4, <2>5 DEF TypeOK
<1>4. CASE Invalidate \/ PurgeExpired
  BY <1>1, <1>4 DEF Invalidate, PurgeExpired, TypeOK
<1>5. CASE entry' = entry
  BY <1>1, <1>5 DEF TypeOK
<1>6. \/ entry' = entry
      \/ Invalidate \/ PurgeExpired
      \/ \E c \in Callers : LinkHit(c) \/ Store(c)
  BY DEF Next, Step, Refresh, vars, Begin, Lookup, RecordHit, CheckSnapshot, CheckDelta,
     RecordBlocked, Chat, RecordInsert, RecordCommit, Judge, Tick, RefreshBegin,
     RefreshCutoff, RefreshAggregate, RefreshWrite, RefreshFail
<1> QED  BY <1>2, <1>3, <1>4, <1>5, <1>6

LEMMA SnapshotsKept ==
  ASSUME StepInv, [Next]_vars
  PROVE  /\ snapshot' \in [Periods -> Snapshots \cup {None}]
         /\ refresher' \in [Refreshers -> RefresherType]
         /\ \A f \in Refreshers : RefresherOK(f)'
<1>1. /\ TypeOK /\ now \in Nat /\ IsFiniteSet(runs)
      /\ \A f \in Refreshers : RefresherOK(f)
  BY DEF StepInv, TypeOK, RowsOK
<1>2. /\ refresher \in [Refreshers -> RefresherType]
      /\ snapshot \in [Periods -> Snapshots \cup {None}]
      /\ PeriodOf(now) \in Periods
  BY <1>1 DEF TypeOK, Periods
<1>3. ASSUME NEW f \in Refreshers, Refresh(f)
      PROVE  /\ snapshot' \in [Periods -> Snapshots \cup {None}]
             /\ refresher' \in [Refreshers -> RefresherType]
             /\ \A g \in Refreshers : RefresherOK(g)'
  <2> DEFINE here == refresher[f]
  <2>1. here \in RefresherType /\ IdleRefresher \in RefresherType
    BY <1>2 DEF IdleRefresher, RefresherType
  <2>2. CASE RefreshBegin(f)
    BY <1>1, <1>2, <2>1, <2>2 DEF RefreshBegin, RefresherType, RefresherOK, Working
  <2>3. CASE RefreshCutoff(f)
    BY <1>1, <1>2, <2>1, <2>3 DEF RefreshCutoff, RefresherType, RefresherOK, Working
  <2>4. CASE RefreshAggregate(f)
    <3>1. Aggregate(here.period, here.cutoff) \in Nat
      BY <1>1, AggregateType
    <3>2. PICK n \in Nat :
            refresher' = [refresher EXCEPT ![f].pc = "write", ![f].calls = n]
      BY <2>4, <3>1 DEF RefreshAggregate
    <3>3. [here EXCEPT !.pc = "write", !.calls = n] \in RefresherType
      BY <2>1 DEF RefresherType
    <3>4. [here EXCEPT !.pc = "write", !.calls = n].period = here.period
      BY <2>1 DEF RefresherType
    <3>5. here.period \in Periods
      BY <1>1, <2>4 DEF RefreshAggregate, RefresherOK, Working
    <3>6. refresher' = [refresher EXCEPT ![f] = [here EXCEPT !.pc = "write", !.calls = n]]
      BY <1>2, <3>2
    <3> QED  BY <1>1, <1>2, <2>4, <3>3, <3>4, <3>5, <3>6 DEF RefreshAggregate, RefresherOK, Working
  <2>5. CASE RefreshWrite(f)
    <3>1. here.period \in Periods
      BY <1>1, <2>5 DEF RefreshWrite, RefresherOK, Working
    <3>2. Stamped(f) \in Snapshots
      BY <2>1 DEF Stamped, Snapshots, RefresherType
    <3> QED  BY <1>1, <1>2, <2>1, <2>5, <3>1, <3>2
             DEF RefreshWrite, RefresherOK, Working, IdleRefresher
  <2>6. CASE RefreshFail(f)
    BY <1>1, <1>2, <2>1, <2>6 DEF RefreshFail, RefresherOK, Working, IdleRefresher
  <2> QED  BY <1>3, <2>2, <2>3, <2>4, <2>5, <2>6 DEF Refresh
<1>4. CASE UNCHANGED <<snapshot, refresher>>
  BY <1>1, <1>2, <1>4 DEF RefresherOK, Working
<1>5. UNCHANGED <<snapshot, refresher>> \/ \E f \in Refreshers : Refresh(f)
  BY DEF Next, Step, vars, Begin, Lookup, RecordHit, LinkHit, Store, CheckSnapshot, CheckDelta,
     RecordBlocked, Chat, RecordInsert, RecordCommit, Judge, Invalidate, PurgeExpired, Tick
<1> QED  BY <1>3, <1>4, <1>5

LEMMA StepInit == Init => StepInv
<1>1. IsFiniteSet({}) /\ IdleCaller \in CallerType
  BY FS_EmptySet, IdleIsCaller
<1>2. ASSUME Init  PROVE TypeOK
  BY <1>1, <1>2, BoundAssumption DEF Init, TypeOK, IdleRefresher, RefresherType
<1>3. ASSUME Init  PROVE RowsOK
  BY <1>1, <1>3 DEF Init, RowsOK
<1>4. ASSUME Init
      PROVE  /\ \A c \in Callers : CallerOK(c)
             /\ LinkOK
             /\ \A f \in Refreshers : RefresherOK(f)
  BY <1>4 DEF Init, CallerOK, LinkOK, RefresherOK, At, Me, Working, IdleCaller, IdleRefresher
<1> QED  BY <1>2, <1>3, <1>4 DEF StepInv

LEMMA StepKept ==
  ASSUME StepInv, [Next]_vars
  PROVE  StepInv'
<1>1. TypeOK'
  BY RowsKept, CallersKept, CountersKept, EntriesKept, SnapshotsKept DEF TypeOK
<1>2. LinkOK'
  BY LinkStep DEF LinkOK
<1> QED  BY <1>1, <1>2, RowsKept, CallersKept, SnapshotsKept DEF StepInv

\* TypeOK: every variable keeps its type.
THEOREM TypeCorrect == Spec => []TypeOK
<1>1. StepInv => TypeOK
  BY DEF StepInv
<1> QED  BY <1>1, StepInit, StepKept, PTL DEF Spec

-----------------------------------------------------------------------------
(* The budget: no run is lost between a snapshot and its delta. *)

CommitsNow == \A c \in Callers : At(c, "commit") => Me(c).at = now

CutoffsPast ==
  /\ \A p \in Periods : snapshot[p] # None => snapshot[p].until <= now
  /\ \A f \in Refreshers :
       Working(f, "aggregate") \/ Working(f, "write") => refresher[f].cutoff <= now

\* What is about to be written still counts exactly the runs below its cutoff.
WritesExact ==
  \A f \in Refreshers : Working(f, "write") =>
    refresher[f].calls = Aggregate(refresher[f].period, refresher[f].cutoff)

BudgetInv == StepInv /\ CommitsNow /\ CutoffsPast /\ WritesExact /\ NothingLost

\* The count below a limit in the past is final.
LEMMA CountFinal ==
  ASSUME StepInv, CommitsNow, [Next]_vars, NEW p, NEW limit \in Nat, limit <= now
  PROVE  Aggregate(p, limit)' = Aggregate(p, limit)
<1> DEFINE below == {r \in runs : /\ PeriodOf(r.at) = p
                                  /\ r.status \in {"success", "failed"} /\ r.at < limit}
<1>1. now \in Nat /\ runs \subseteq Rows
  BY DEF StepInv, TypeOK
<1>2. ASSUME NEW c \in Callers, NEW row \in Rows, runs' = runs \cup {row},
             row.status \in {"success", "failed"} => At(c, "commit") /\ row.at = Me(c).at
      PROVE  below' = below
  <2>1. row.status \in {"success", "failed"} => row.at = now
    BY <1>2 DEF CommitsNow
  <2>2. ~(row.status \in {"success", "failed"} /\ row.at < limit)
    BY <1>1, <2>1
  <2> QED  BY <1>2, <2>2
<1>3. ASSUME NEW c \in Callers, At(c, "link"), runs' = Linked(c)
      PROVE  below' = below
  <2>1. \A r \in runs \cup runs' : r.status # "cache_hit" => r \in runs /\ r \in runs'
    BY <1>3, LinkEffect
  <2> QED  BY <2>1
<1>4. below' = below
  BY <1>2, <1>3, RunsStep
<1>5. /\ {r \in Counted(p) : r.at < limit} = below
      /\ {r \in Counted(p) : r.at < limit}' = below'
  BY DEF Counted
<1> HIDE DEF below
<1> QED  BY <1>4, <1>5 DEF Aggregate

\* A caller comes to its commit by its INSERT, in the same step.
LEMMA CommitStep ==
  ASSUME StepInv, NEW d \in Callers, Moves(d), At(d, "commit")'
  PROVE  now' = now /\ Me(d)'.at = now
<1>1. TypeOK /\ caller'[d].pc = "commit" /\ caller \in [Callers -> CallerType]
  BY DEF StepInv, TypeOK, At
<1>2. ASSUME NEW outcome \in Outcomes, Finish(d, outcome)  PROVE FALSE
  BY <1>1, <1>2, FinishEffect
<1>3. ASSUME NEW pc \in Pcs \ {"commit"}, Goto(d, pc)  PROVE FALSE
  <2>1. pc # "commit" /\ caller[d] \in CallerType
    BY <1>1, <1>3
  <2>2. caller'[d].pc = pc
    BY <1>1, <1>3, <2>1 DEF Goto, CallerType
  <2> QED  BY <1>1, <2>1, <2>2
<1>4. ~Begin(d)
  <2> SUFFICES ASSUME Begin(d)  PROVE FALSE
    OBVIOUS
  <2>1. PICK k \in Keys, o \in Options :
          caller'[d].pc = IF o.cache THEN "lookup" ELSE "snapshot"
    BY <1>1 DEF Begin, IdleCaller
  <2> QED  BY <1>1, <2>1
<1>5. ~Lookup(d)
  BY <1>1 DEF Lookup, CallerType
<1>6. ~CheckSnapshot(d)
  BY <1>1 DEF CheckSnapshot, CallerType
<1>7. ~Chat(d)
  BY <1>1 DEF Chat, CallerType
<1>8. ~RecordHit(d)
  <2>1. ~Finish(d, "db_error")
    BY <1>2 DEF Outcomes
  <2> QED  BY <1>1, <2>1 DEF RecordHit, CallerType
<1>9. ~LinkHit(d)
  BY <1>2 DEF LinkHit, HitOutcome, Outcomes
<1>10. ~Store(d)
  BY <1>2 DEF Store, Outcomes
<1>11. ~RecordBlocked(d)
  BY <1>2 DEF RecordBlocked, Outcomes
<1>12. ~CheckDelta(d)
  BY <1>3 DEF CheckDelta, Pcs
<1>13. ~Judge(d)
  BY <1>2, <1>3 DEF Judge, Pcs, Outcomes
<1>14. ~RecordCommit(d)
  <2> SUFFICES ASSUME RecordCommit(d)  PROVE FALSE
    OBVIOUS
  <2>1. ~Finish(d, "raised") /\ ~Finish(d, "db_error") /\ ~Goto(d, "judge")
    BY <1>2, <1>3 DEF Pcs, Outcomes
  <2>2. caller' = [caller EXCEPT ![d].pc = "judge", ![d].run = Cardinality(runs) + 1]
    BY <2>1 DEF RecordCommit, Unrecorded
  <2> QED  BY <1>1, <2>2 DEF CallerType
<1>15. RecordInsert(d)
  BY <1>4, <1>5, <1>6, <1>7, <1>8, <1>9, <1>10, <1>11, <1>12, <1>13, <1>14 DEF Moves, Step
<1> QED  BY <1>1, <1>15 DEF RecordInsert, Me, CallerType

\* With commits that do not lag behind their INSERT.
LEMMA CommitsKept ==
  ASSUME PromptCommit, StepInv, CommitsNow, [Next]_vars
  PROVE  CommitsNow'
<1>1. SUFFICES ASSUME NEW d \in Callers, At(d, "commit")'
      PROVE  Me(d)'.at = now'
  BY DEF CommitsNow
<1>2. CASE Moves(d)
  BY <1>1, <1>2, CommitStep DEF StepInv
<1>3. ASSUME NEW c \in Callers, Moves(c), c # d
      PROVE  Me(d)'.at = now'
  <2>1. caller'[d] = caller[d]
    BY <1>3, CallerStep
  <2>2. now' = now
    BY <1>3 DEF Moves, Step, Begin, Lookup, RecordHit, LinkHit, Store, CheckSnapshot,
       CheckDelta, RecordBlocked, Chat, RecordInsert, RecordCommit, Judge
  <2> QED  BY <1>1, <2>1, <2>2 DEF CommitsNow, At, Me
<1>4. CASE Tick
  <2>1. caller' = caller /\ ~At(d, "commit")
    BY <1>4 DEF Tick
  <2> QED  BY <1>1, <2>1 DEF At
<1>5. CASE caller' = caller /\ now' = now
  BY <1>1, <1>5 DEF CommitsNow, At, Me
<1>6. \/ caller' = caller /\ now' = now
      \/ Tick \/ \E c \in Callers : Moves(c)
  BY DEF Next, Moves, vars, Refresh, RefreshBegin, RefreshCutoff, RefreshAggregate,
         RefreshWrite, RefreshFail, Invalidate, PurgeExpired
<1> QED  BY <1>2, <1>3, <1>4, <1>5, <1>6

\* Who changes a snapshot or a refresher, and how.
LEMMA RefreshStep ==
  ASSUME StepInv, [Next]_vars, NEW f \in Refreshers
  PROVE  \/ refresher'[f] = refresher[f]
         \/ ~Working(f, "aggregate")' /\ ~Working(f, "write")'
         \/ Working(f, "aggregate")' /\ refresher'[f].cutoff = now /\ now' = now
         \/ /\ Working(f, "aggregate") /\ Working(f, "write")'
            /\ refresher'[f].period = refresher[f].period
            /\ refresher'[f].cutoff = refresher[f].cutoff
            /\ refresher'[f].calls = Aggregate(refresher[f].period, refresher[f].cutoff)
<1>1. refresher \in [Refreshers -> RefresherType]
  BY DEF StepInv, TypeOK
<1>2. refresher' = refresher \/ \E g \in Refreshers : Refresh(g)
  BY DEF Next, Step, vars, Begin, Lookup, RecordHit, LinkHit, Store, CheckSnapshot, CheckDelta,
     RecordBlocked, Chat, RecordInsert, RecordCommit, Judge, Invalidate, PurgeExpired, Tick
<1>3. ASSUME NEW g \in Refreshers, Refresh(g), g # f
      PROVE  refresher'[f] = refresher[f]
  BY <1>1, <1>3 DEF Refresh, RefreshBegin, RefreshCutoff, RefreshAggregate, RefreshWrite,
     RefreshFail
<1>4. CASE Refresh(f)
  <2>1. CASE RefreshBegin(f)
    BY <1>1, <2>1 DEF RefreshBegin, Working, RefresherType
  <2>2. CASE RefreshCutoff(f)
    BY <1>1, <2>2 DEF RefreshCutoff, Working, RefresherType
  <2>3. CASE RefreshAggregate(f)
    <3> DEFINE n == Aggregate(refresher[f].period, refresher[f].cutoff)
    <3>1. /\ refresher' = [refresher EXCEPT ![f].pc = "write", ![f].calls = n]
          /\ Working(f, "aggregate")
      BY <2>3 DEF RefreshAggregate
    <3> HIDE DEF n
    <3>2. /\ refresher'[f].pc = "write" /\ refresher'[f].calls = n
          /\ refresher'[f].period = refresher[f].period
          /\ refresher'[f].cutoff = refresher[f].cutoff
      BY <1>1, <3>1 DEF RefresherType
    <3> QED  BY <3>1, <3>2 DEF n, Working
  <2>4. CASE RefreshWrite(f) \/ RefreshFail(f)
    BY <1>1, <2>4 DEF RefreshWrite, RefreshFail, Working, IdleRefresher
  <2> QED  BY <1>4, <2>1, <2>2, <2>3, <2>4 DEF Refresh
<1> QED  BY <1>2, <1>3, <1>4

\* A snapshot changes only when a refresher writes that of its period.
LEMMA SnapshotStep ==
  ASSUME StepInv, [Next]_vars, NEW p \in Periods
  PROVE  \/ snapshot'[p] = snapshot[p]
         \/ \E f \in Refreshers : RefreshWrite(f) /\ refresher[f].period = p
<1>1. snapshot \in [Periods -> Snapshots \cup {None}]
  BY DEF StepInv, TypeOK
<1>2. \A f \in Refreshers :
        RefreshBegin(f) \/ RefreshCutoff(f) \/ RefreshAggregate(f) \/ RefreshFail(f)
          => snapshot' = snapshot
  BY DEF RefreshBegin, RefreshCutoff, RefreshAggregate, RefreshFail
<1>3. ASSUME NEW f \in Refreshers, RefreshWrite(f), refresher[f].period # p
      PROVE  snapshot'[p] = snapshot[p]
  BY <1>1, <1>3 DEF RefreshWrite
<1>4. snapshot' = snapshot \/ \E f \in Refreshers : Refresh(f)
  BY DEF Next, Step, vars, Begin, Lookup, RecordHit, LinkHit, Store, CheckSnapshot, CheckDelta,
     RecordBlocked, Chat, RecordInsert, RecordCommit, Judge, Invalidate, PurgeExpired, Tick
<1> QED  BY <1>2, <1>3, <1>4 DEF Refresh

LEMMA CutoffsKept ==
  ASSUME StepInv, CutoffsPast, [Next]_vars
  PROVE  CutoffsPast'
<1>1. /\ now \in Nat /\ refresher \in [Refreshers -> RefresherType]
      /\ snapshot \in [Periods -> Snapshots \cup {None}]
  BY DEF StepInv, TypeOK
<1>2. now' = now \/ now' = now + 1
  <2>1. \A c \in Callers : Step(c) \/ Begin(c) => now' = now
    BY DEF Step, Begin, Lookup, RecordHit, LinkHit, Store, CheckSnapshot, CheckDelta,
       RecordBlocked, Chat, RecordInsert, RecordCommit, Judge
  <2>2. \A f \in Refreshers : Refresh(f) => now' = now
    BY DEF Refresh, RefreshBegin, RefreshCutoff, RefreshAggregate, RefreshWrite, RefreshFail
  <2>3. Invalidate \/ PurgeExpired \/ UNCHANGED vars => now' = now
    BY DEF Invalidate, PurgeExpired, vars
  <2>4. Tick => now' = now + 1
    BY DEF Tick
  <2> QED  BY <2>1, <2>2, <2>3, <2>4 DEF Next
<1>3. ASSUME NEW n \in Nat, n <= now  PROVE n <= now'
  BY <1>1, <1>2, <1>3
<1>4. ASSUME NEW f \in Refreshers, Working(f, "aggregate")' \/ Working(f, "write")'
      PROVE  refresher'[f].cutoff <= now'
  <2>1. refresher[f].cutoff \in Nat
    BY <1>1 DEF RefresherType
  <2>2. CASE refresher'[f] = refresher[f]
    BY <1>3, <1>4, <2>1, <2>2 DEF CutoffsPast, Working
  <2>3. CASE refresher'[f].cutoff = now /\ now' = now
    BY <1>1, <2>3
  <2>4. CASE Working(f, "aggregate") /\ refresher'[f].cutoff = refresher[f].cutoff
    BY <1>3, <2>1, <2>4 DEF CutoffsPast
  <2> QED  BY <1>4, <2>2, <2>3, <2>4, RefreshStep
<1>5. ASSUME NEW p \in Periods, snapshot[p] # None
      PROVE  snapshot[p].until \in Nat /\ snapshot[p].until <= now'
  <2>1. snapshot[p].until \in Nat
    BY <1>1, <1>5 DEF Snapshots
  <2> QED  BY <1>3, <1>5, <2>1 DEF CutoffsPast
<1>6. ASSUME NEW p \in Periods, snapshot'[p] # None
      PROVE  snapshot'[p].until <= now'
  <2>1. ASSUME NEW f \in Refreshers, RefreshWrite(f), refresher[f].period = p
        PROVE  snapshot'[p].until <= now'
    <3>1. snapshot'[p] = Stamped(f) /\ Working(f, "write")
      BY <1>1, <2>1 DEF RefreshWrite
    <3>2. snapshot'[p].until = refresher[f].cutoff /\ refresher[f].cutoff \in Nat
      BY <1>1, <3>1 DEF Stamped, RefresherType
    <3> QED  BY <1>3, <3>1, <3>2 DEF CutoffsPast
  <2> QED  BY <1>5, <1>6, <2>1, SnapshotStep
<1> QED  BY <1>4, <1>6 DEF CutoffsPast

\* The only writer of a snapshot is a refresher that has counted.
LEMMA WritesKept ==
  ASSUME StepInv, CommitsNow, CutoffsPast, WritesExact, [Next]_vars
  PROVE  WritesExact'
<1>1. SUFFICES ASSUME NEW f \in Refreshers, Working(f, "write")'
      PROVE  (refresher[f].calls = Aggregate(refresher[f].period, refresher[f].cutoff))'
  BY DEF WritesExact
<1>2. PICK p, limit : p = refresher[f].period /\ limit = refresher[f].cutoff
  OBVIOUS
<1>3. limit \in Nat
  BY <1>2 DEF StepInv, TypeOK, RefresherType
<1>4. \/ refresher'[f] = refresher[f] /\ Working(f, "write")
      \/ /\ Working(f, "aggregate") /\ refresher'[f].calls = Aggregate(p, limit)
         /\ refresher'[f].period = p /\ refresher'[f].cutoff = limit
  BY <1>1, <1>2, RefreshStep DEF Working
<1>5. refresher'[f].calls = Aggregate(p, limit) /\ limit <= now
  BY <1>2, <1>4 DEF WritesExact, CutoffsPast
<1>6. refresher'[f].period = p /\ refresher'[f].cutoff = limit
  BY <1>2, <1>4
<1>7. Aggregate(p, limit)' = Aggregate(p, limit)
  BY <1>3, <1>5, CountFinal
<1>8. Aggregate(refresher[f].period, refresher[f].cutoff)' = Aggregate(p, limit)'
  BY <1>6 DEF Aggregate, Counted
<1> QED  BY <1>5, <1>7, <1>8

LEMMA NothingLostKept ==
  ASSUME StepInv, CommitsNow, CutoffsPast, WritesExact, NothingLost, [Next]_vars
  PROVE  NothingLost'
<1>1. /\ refresher \in [Refreshers -> RefresherType]
      /\ snapshot \in [Periods -> Snapshots \cup {None}]
  BY DEF StepInv, TypeOK
<1>2. SUFFICES ASSUME NEW p \in Periods, snapshot'[p] # None
      PROVE  (snapshot[p].calls = Aggregate(p, snapshot[p].until))'
  BY DEF NothingLost
<1>3. PICK limit : limit = snapshot'[p].until
  OBVIOUS
<1>4. limit \in Nat /\ limit <= now /\ snapshot'[p].calls = Aggregate(p, limit)
  <2>1. CASE snapshot'[p] = snapshot[p]
    <3>1. snapshot[p] \in Snapshots
      BY <1>1, <1>2, <2>1
    <3> QED  BY <1>2, <1>3, <2>1, <3>1 DEF NothingLost, CutoffsPast, Snapshots
  <2>2. ASSUME NEW f \in Refreshers, RefreshWrite(f), refresher[f].period = p
        PROVE  limit \in Nat /\ limit <= now /\ snapshot'[p].calls = Aggregate(p, limit)
    <3>1. snapshot'[p] = Stamped(f) /\ Working(f, "write")
      BY <1>1, <2>2 DEF RefreshWrite
    <3>2. /\ snapshot'[p].until = refresher[f].cutoff /\ refresher[f].cutoff \in Nat
          /\ snapshot'[p].calls = refresher[f].calls
      BY <1>1, <3>1 DEF Stamped, RefresherType
    <3>3. refresher[f].calls = Aggregate(p, refresher[f].cutoff) /\ refresher[f].cutoff <= now
      BY <2>2, <3>1 DEF WritesExact, CutoffsPast
    <3> QED  BY <1>3, <3>2, <3>3
  <2> QED  BY <2>1, <2>2, SnapshotStep
<1>5. Aggregate(p, limit)' = Aggregate(p, limit)
  BY <1>4, CountFinal
<1>6. Aggregate(p, snapshot[p].until)' = Aggregate(p, limit)'
  BY <1>3 DEF Aggregate, Counted
<1> QED  BY <1>4, <1>5, <1>6

LEMMA BudgetInit == Init => BudgetInv
<1>1. ASSUME Init
      PROVE  CommitsNow /\ CutoffsPast /\ WritesExact /\ NothingLost
  BY <1>1 DEF Init, CommitsNow, CutoffsPast, WritesExact, NothingLost, At, Me, Working,
     IdleCaller, IdleRefresher
<1> QED  BY <1>1, StepInit DEF BudgetInv

\* NothingLost: with commits that do not lag behind their INSERT, a snapshot counts
\* exactly the runs below its cutoff, whatever refreshers and callers do.
THEOREM SnapshotPlusDelta ==
  ASSUME PromptCommit
  PROVE  Spec => []NothingLost
<1>1. BudgetInv /\ [Next]_vars => BudgetInv'
  BY StepKept, CommitsKept, CutoffsKept, WritesKept, NothingLostKept DEF BudgetInv
<1>2. BudgetInv => NothingLost
  BY DEF BudgetInv
<1> QED  BY <1>1, <1>2, BudgetInit, PTL DEF Spec

-----------------------------------------------------------------------------
(* The cache: what it holds, and how often it was hit. *)

Validating == \A o \in Options : o.cache => o.validate

\* What a caller carries from a run into the cache, and from the cache to its answer.
CarriesOK(c) ==
  /\ ~At(c, "idle") => Me(c).options \in Options
  /\ Me(c).pc \in {"lookup", "snapshot", "delta", "chat", "insert", "commit"} => Me(c).run = None
  /\ At(c, "judge") \/ At(c, "store") =>
       \/ Me(c).run = None
       \/ \E r \in runs : /\ r.id = Me(c).run /\ r.status = "success" /\ r.key = Me(c).key
                          /\ r.response = Me(c).reply
  /\ At(c, "store") => /\ Me(c).run # None /\ Me(c).reply # "cut" /\ Me(c).options.cache
                       /\ Me(c).options.validate => Me(c).reply # "bad"
  /\ At(c, "hit") \/ At(c, "link") => Me(c).hit.entry \in 1..count["entry"]
  /\ Validating /\ Me(c).hit # None => Me(c).hit.response = "good"

\* Hits between their two transactions have a row each, not linked yet.
LinksOpen ==
  \A c \in Callers : At(c, "link") =>
    /\ \E r \in runs : r.id = Me(c).run /\ r.entry = None
    /\ \A d \in Callers : At(d, "link") /\ d # c => Me(d).run # Me(c).run

\* Ids of entries are given once.
EntryIds ==
  /\ \A k \in Keys : entry[k] # None => entry[k].id \in 1..count["entry"]
  /\ \A k, l \in Keys : entry[k] # None /\ entry[l] # None /\ entry[k].id = entry[l].id => k = l
  /\ \A r \in runs : r.entry = None \/ r.entry \in 1..count["entry"]

CacheInv ==
  /\ StepInv
  /\ \A c \in Callers : CarriesOK(c)
  /\ LinksOpen /\ EntryIds /\ CacheIsSound

LEMMA RecordedStays ==
  ASSUME StepInv, [Next]_vars, NEW r \in runs, r.status = "success"
  PROVE  r \in runs'
<1>1. ASSUME NEW c \in Callers, At(c, "link"), runs' = Linked(c)
      PROVE  r \in runs'
  <2>1. \A q \in runs \cup runs' : q.status # "cache_hit" => q \in runs /\ q \in runs'
    BY <1>1, LinkEffect
  <2> QED  BY <2>1
<1> QED  BY <1>1, RunsStep

\* Of a caller that has its answer, or failed.
LEMMA FinishFields ==
  ASSUME TypeOK, NEW c \in Callers, NEW outcome, Finish(c, outcome)
  PROVE  /\ caller'[c].pc = "idle" /\ caller'[c].run = None
         /\ caller'[c].hit \in {None, caller[c].hit}
         /\ outcome = "hit" => caller'[c].hit = caller[c].hit
         /\ caller'[c].step = caller[c].step /\ caller'[c].outcome = outcome
         /\ caller'[c].reply = IF caller[c].reply = "error" THEN "error" ELSE None
<1> DEFINE new == [IdleCaller EXCEPT
               !.step = Me(c).step, !.outcome = outcome,
               !.hit = IF outcome = "hit" THEN Me(c).hit ELSE None,
               !.reply = IF Raised(c) THEN "error" ELSE None]
<1>1. caller' = [caller EXCEPT ![c] = new] /\ caller \in [Callers -> CallerType]
  BY DEF Finish, TypeOK
<1>2. /\ new.pc = "idle" /\ new.run = None /\ new.hit \in {None, caller[c].hit}
      /\ outcome = "hit" => new.hit = caller[c].hit
      /\ new.step = caller[c].step /\ new.outcome = outcome
      /\ new.reply = IF caller[c].reply = "error" THEN "error" ELSE None
  BY DEF IdleCaller, Me, Raised
<1> HIDE DEF new
<1> QED  BY <1>1, <1>2

\* What a step does to the rows, the entries and their counter.
LEMMA TablesStep ==
  ASSUME StepInv, [Next]_vars
  PROVE  \/ /\ count'["entry"] = count["entry"]
            /\ \/ runs' = runs /\ entry' = entry
               \/ /\ entry' = entry
                  /\ \E row \in Rows : /\ runs' = runs \cup {row} /\ row.id = Cardinality(runs) + 1
                                       /\ row.entry = None
               \/ \E c \in Callers : /\ At(c, "link") /\ caller'[c].pc = "idle"
                                     /\ runs' = Linked(c) /\ entry' = Bumped(c)
               \/ \E c \in Callers : /\ At(c, "store") /\ entry[Me(c).key] # None /\ runs' = runs
                                     /\ entry' = [entry EXCEPT ![Me(c).key] =
                                                    Refreshed(entry[Me(c).key], c)]
               \/ /\ runs' = runs
                  /\ \A k \in Keys : entry'[k] = entry[k] \/ entry'[k] = None
         \/ /\ runs' = runs /\ count'["entry"] = count["entry"] + 1
            /\ \E c \in Callers : /\ At(c, "store") /\ entry[Me(c).key] = None
                                  /\ entry' = [entry EXCEPT ![Me(c).key] =
                                       [id |-> count["entry"] + 1, source |-> Me(c).run,
                                        response |-> Me(c).reply, expires |-> Expiry, hits |-> 0]]
<1> USE DEF Statuses
<1>1. /\ TypeOK /\ now \in Nat
      /\ count \in [{"step", "fault", "invalidation", "entry"} -> Nat]
  BY DEF StepInv, TypeOK
<1>2. Fault => count'["entry"] = count["entry"]
  BY <1>1 DEF Fault
<1>3. ASSUME NEW c \in Callers, ~At(c, "idle"), NEW status \in Statuses, NEW at \in Nat,
             NEW response \in Responses \cup {None}
      PROVE  /\ Row(c, status, at, response) \in Rows
             /\ Row(c, status, at, response).id = Cardinality(runs) + 1
             /\ Row(c, status, at, response).entry = None
  <2>1. Row(c, status, at, response).entry = None
    BY DEF Row
  <2> QED  BY <1>3, <2>1, RowIsRow
<1>4. ASSUME NEW c \in Callers, RecordHit(c)
      PROVE  /\ count'["entry"] = count["entry"] /\ entry' = entry
             /\ \/ runs' = runs
                \/ \E row \in Rows : /\ runs' = runs \cup {row} /\ row.id = Cardinality(runs) + 1
                                     /\ row.entry = None
  BY <1>1, <1>2, <1>3, <1>4 DEF RecordHit, At
<1>5. ASSUME NEW c \in Callers, RecordBlocked(c)
      PROVE  /\ count'["entry"] = count["entry"] /\ entry' = entry
             /\ \/ runs' = runs
                \/ \E row \in Rows : /\ runs' = runs \cup {row} /\ row.id = Cardinality(runs) + 1
                                     /\ row.entry = None
  BY <1>1, <1>2, <1>3, <1>5 DEF RecordBlocked, At
<1>6. ASSUME NEW c \in Callers, RecordCommit(c)
      PROVE  /\ count'["entry"] = count["entry"] /\ entry' = entry
             /\ \/ runs' = runs
                \/ \E row \in Rows : /\ runs' = runs \cup {row} /\ row.id = Cardinality(runs) + 1
                                     /\ row.entry = None
  <2>1. /\ Me(c).at \in Nat /\ ~At(c, "idle")
        /\ (IF Raised(c) THEN None ELSE Me(c).reply) \in Responses \cup {None}
        /\ (IF Raised(c) THEN "failed" ELSE "success") \in Statuses
    BY <1>1, <1>6 DEF RecordCommit, TypeOK, CallerType, Raised, Me, At
  <2>2. /\ CallRow(c) \in Rows /\ CallRow(c).id = Cardinality(runs) + 1 /\ CallRow(c).entry = None
    BY <1>3, <2>1 DEF CallRow
  <2>3. /\ entry' = entry /\ (UNCHANGED count \/ Fault)
        /\ runs' = runs \/ runs' = runs \cup {CallRow(c)}
    BY <1>6 DEF RecordCommit, Committed
  <2> QED  BY <1>2, <2>2, <2>3
<1>7. ASSUME NEW c \in Callers, LinkHit(c)
      PROVE  /\ count'["entry"] = count["entry"] /\ At(c, "link")
             /\ \/ runs' = runs /\ entry' = entry
                \/ caller'[c].pc = "idle" /\ runs' = Linked(c) /\ entry' = Bumped(c)
  <2>1. caller'[c].pc = "idle"
    BY <1>1, <1>7, FinishFields DEF LinkHit
  <2> QED  BY <1>2, <1>7, <2>1 DEF LinkHit
<1>8. ASSUME NEW c \in Callers, Store(c)
      PROVE  /\ runs' = runs /\ At(c, "store")
             /\ \/ entry' = entry /\ count'["entry"] = count["entry"]
                \/ /\ entry[Me(c).key] # None /\ count'["entry"] = count["entry"]
                   /\ entry' = [entry EXCEPT ![Me(c).key] = Refreshed(entry[Me(c).key], c)]
                \/ /\ entry[Me(c).key] = None /\ count'["entry"] = count["entry"] + 1
                   /\ entry' = [entry EXCEPT ![Me(c).key] =
                        [id |-> count["entry"] + 1, source |-> Me(c).run,
                         response |-> Me(c).reply, expires |-> Expiry, hits |-> 0]]
  BY <1>1, <1>2, <1>8 DEF Store
<1>9. CASE Invalidate \/ PurgeExpired
  <2>1. /\ runs' = runs /\ count'["entry"] = count["entry"]
        /\ \A k \in Keys : entry'[k] = entry[k] \/ entry'[k] = None
    BY <1>1, <1>9 DEF Invalidate, PurgeExpired, TypeOK
  <2> QED  BY <2>1
<1>10. ASSUME NEW c \in Callers, Begin(c)
       PROVE  runs' = runs /\ entry' = entry /\ count'["entry"] = count["entry"]
  BY <1>1, <1>10 DEF Begin
<1>11. \/ UNCHANGED <<runs, entry, count>>
       \/ Invalidate \/ PurgeExpired
       \/ \E c \in Callers : \/ Begin(c) \/ RecordHit(c) \/ RecordBlocked(c) \/ RecordCommit(c)
                             \/ LinkHit(c) \/ Store(c)
  BY DEF Next, Step, Refresh, vars, Lookup, CheckSnapshot, CheckDelta, Chat, RecordInsert, Judge,
         Tick, RefreshBegin, RefreshCutoff, RefreshAggregate, RefreshWrite, RefreshFail
<1>12. ASSUME NEW c \in Callers, RecordHit(c) \/ RecordBlocked(c) \/ RecordCommit(c)
       PROVE  /\ count'["entry"] = count["entry"] /\ entry' = entry
              /\ \/ runs' = runs
                 \/ \E row \in Rows : /\ runs' = runs \cup {row} /\ row.id = Cardinality(runs) + 1
                                      /\ row.entry = None
  BY <1>4, <1>5, <1>6, <1>12
<1> QED  BY <1>7, <1>8, <1>9, <1>10, <1>11, <1>12

\* Of a caller that goes on.
LEMMA GotoFields ==
  ASSUME TypeOK, NEW c \in Callers, NEW pc, Goto(c, pc)
  PROVE  /\ caller'[c].pc = pc /\ caller'[c].run = caller[c].run
         /\ caller'[c].hit = caller[c].hit /\ caller'[c].options = caller[c].options
         /\ caller'[c].key = caller[c].key /\ caller'[c].reply = caller[c].reply
         /\ caller'[c].step = caller[c].step
BY DEF Goto, TypeOK, CallerType

\* The caller that moves.
LEMMA CarriesStep ==
  ASSUME CacheInv, [Next]_vars, NEW c \in Callers, Moves(c)
  PROVE  CarriesOK(c)'
<1>1. /\ StepInv /\ TypeOK /\ CallerOK(c) /\ CarriesOK(c) /\ EntryIds /\ CachedIsValid
      /\ caller \in [Callers -> CallerType] /\ caller[c] \in CallerType
      /\ count["entry"] \in Nat
  BY DEF StepInv, TypeOK, CacheInv, CacheIsSound
<1>2. count'["entry"] \in Nat /\ 1..count["entry"] \subseteq 1..count'["entry"]
  <2>1. count'["entry"] = count["entry"] \/ count'["entry"] = count["entry"] + 1
    BY <1>1, TablesStep
  <2> QED  BY <1>1, <2>1
<1>3. ASSUME NEW outcome, Finish(c, outcome)
      PROVE  CarriesOK(c)'
  <2>1. /\ caller'[c].pc = "idle" /\ caller'[c].run = None
        /\ caller'[c].hit \in {None, caller[c].hit}
    BY <1>1, <1>3, FinishFields
  <2> QED  BY <1>1, <2>1 DEF CarriesOK, At, Me
<1>4. CASE Begin(c)
  <2>1. PICK k \in Keys, o \in Options :
          caller' = [caller EXCEPT ![c] = [IdleCaller EXCEPT
                       !.step = count["step"] + 1, !.key = k, !.options = o,
                       !.pc = IF o.cache THEN "lookup" ELSE "snapshot"]]
    BY <1>4 DEF Begin
  <2> DEFINE new == [IdleCaller EXCEPT
                       !.step = count["step"] + 1, !.key = k, !.options = o,
                       !.pc = IF o.cache THEN "lookup" ELSE "snapshot"]
  <2>2. /\ new.pc \in {"lookup", "snapshot"} /\ new.options = o
        /\ new.run = None /\ new.hit = None
    BY DEF IdleCaller
  <2>3. caller' = [caller EXCEPT ![c] = new]
    BY <2>1
  <2> HIDE DEF new
  <2> QED  BY <1>1, <2>2, <2>3 DEF CarriesOK, At, Me
<1>5. CASE Lookup(c)
  <2> DEFINE e == entry[Me(c).key]
             found == e # None /\ Unexpired(e)
             hit == [entry |-> e.id, source |-> e.source, response |-> e.response]
             pc == IF found THEN "hit" ELSE "snapshot"
             new == [caller[c] EXCEPT !.pc = pc, !.hit = IF found THEN hit ELSE None]
  <2>1. Me(c).key \in Keys /\ At(c, "lookup")
    BY <1>1, <1>5 DEF Lookup, CallerOK, At
  <2>2. caller' = [caller EXCEPT ![c] = new]
    BY <1>1, <1>5 DEF Lookup, Me
  <2>3. found => /\ hit.entry \in 1..count["entry"]
                 /\ Validating => hit.response = "good"
    BY <1>1, <2>1 DEF EntryIds, CachedIsValid, Validating
  <2> HIDE DEF hit, found
  <2>4. /\ new.pc = pc /\ new.hit = (IF found THEN hit ELSE None)
        /\ new.options = caller[c].options /\ new.run = caller[c].run
    BY <1>1 DEF CallerType
  <2>5. caller'[c] = new
    BY <1>1, <2>2
  <2> HIDE DEF new
  <2> QED  BY <1>1, <1>2, <2>1, <2>3, <2>4, <2>5 DEF CarriesOK, At, Me
<1>6. CASE RecordHit(c)
  <2>1. CASE Finish(c, "db_error")
    BY <1>3, <2>1
  <2>2. CASE caller' = [caller EXCEPT ![c].pc = "link", ![c].run = Cardinality(runs) + 1]
    <3>1. /\ caller'[c].pc = "link" /\ caller'[c].options = caller[c].options
          /\ caller'[c].hit = caller[c].hit
      BY <1>1, <2>2 DEF CallerType
    <3> QED  BY <1>1, <1>2, <1>6, <3>1 DEF RecordHit, CarriesOK, At, Me
  <2> QED  BY <1>6, <2>1, <2>2 DEF RecordHit
<1>7. CASE LinkHit(c)
  BY <1>3, <1>7 DEF LinkHit
<1>8. CASE Store(c)
  BY <1>3, <1>8 DEF Store
<1>9. CASE CheckSnapshot(c)
  <2>1. /\ caller'[c].pc = "delta" /\ caller'[c].options = caller[c].options
        /\ caller'[c].hit = caller[c].hit /\ caller'[c].run = caller[c].run
    BY <1>1, <1>9 DEF CheckSnapshot, CallerType
  <2> QED  BY <1>1, <1>9, <2>1 DEF CheckSnapshot, CarriesOK, At, Me
<1>10. CASE CheckDelta(c)
  <2>1. PICK pc \in {"chat", "blocked"} : Goto(c, pc)
    BY <1>10 DEF CheckDelta
  <2>2. /\ caller'[c].pc = pc /\ caller'[c].options = caller[c].options
        /\ caller'[c].hit = caller[c].hit /\ caller'[c].run = caller[c].run
    BY <1>1, <2>1, GotoFields
  <2> QED  BY <1>1, <1>10, <2>2 DEF CheckDelta, CarriesOK, At, Me
<1>11. CASE RecordBlocked(c)
  BY <1>3, <1>11 DEF RecordBlocked
<1>12. CASE Chat(c)
  <2>1. PICK reply \in Replies : caller' = [caller EXCEPT ![c].pc = "insert", ![c].reply = reply]
    BY <1>12 DEF Chat
  <2>2. /\ caller'[c].pc = "insert" /\ caller'[c].options = caller[c].options
        /\ caller'[c].hit = caller[c].hit /\ caller'[c].run = caller[c].run
    BY <1>1, <2>1 DEF CallerType
  <2> QED  BY <1>1, <1>12, <2>2 DEF Chat, CarriesOK, At, Me
<1>13. CASE RecordInsert(c)
  <2>1. /\ caller'[c].pc = "commit" /\ caller'[c].options = caller[c].options
        /\ caller'[c].hit = caller[c].hit /\ caller'[c].run = caller[c].run
    BY <1>1, <1>13 DEF RecordInsert, CallerType
  <2> QED  BY <1>1, <1>13, <2>1 DEF RecordInsert, CarriesOK, At, Me
<1>14. CASE RecordCommit(c)
  <2>1. CASE \E outcome \in Outcomes : Finish(c, outcome)
    BY <1>3, <2>1
  <2>2. CASE /\ ~Raised(c) /\ runs' = Committed(c)
             /\ caller' = [caller EXCEPT ![c].pc = "judge", ![c].run = Cardinality(runs) + 1]
    <3>1. /\ caller'[c].pc = "judge" /\ caller'[c].options = caller[c].options
          /\ caller'[c].hit = caller[c].hit /\ caller'[c].run = Cardinality(runs) + 1
          /\ caller'[c].key = caller[c].key /\ caller'[c].reply = caller[c].reply
      BY <1>1, <2>2 DEF CallerType
    <3>2. /\ CallRow(c) \in runs' /\ CallRow(c).id = Cardinality(runs) + 1
          /\ CallRow(c).status = "success" /\ CallRow(c).key = Me(c).key
          /\ CallRow(c).response = Me(c).reply
      BY <2>2 DEF Committed, CallRow, Row
    <3> QED  BY <1>1, <1>14, <3>1, <3>2 DEF RecordCommit, CarriesOK, At, Me
  <2>3. CASE Goto(c, "judge")
    <3>1. /\ caller'[c].pc = "judge" /\ caller'[c].options = caller[c].options
          /\ caller'[c].hit = caller[c].hit /\ caller'[c].run = caller[c].run
      BY <1>1, <2>3, GotoFields
    <3> QED  BY <1>1, <1>14, <3>1 DEF RecordCommit, CarriesOK, At, Me
  <2> QED  BY <1>14, <2>1, <2>2, <2>3 DEF RecordCommit, Unrecorded, Outcomes
<1>15. CASE Judge(c)
  <2>1. CASE \E outcome \in Outcomes : Finish(c, outcome)
    BY <1>3, <2>1
  <2>2. CASE ~Rejected(c) /\ MayStore(c) /\ Goto(c, "store")
    <3>1. /\ caller'[c].pc = "store" /\ caller'[c].options = caller[c].options
          /\ caller'[c].hit = caller[c].hit /\ caller'[c].run = caller[c].run
          /\ caller'[c].key = caller[c].key /\ caller'[c].reply = caller[c].reply
      BY <1>1, <2>2, GotoFields
    <3>2. runs' = runs /\ At(c, "judge")
      BY <1>15 DEF Judge
    <3> QED  BY <1>1, <2>2, <3>1, <3>2 DEF Rejected, MayStore, Truncated, CarriesOK, At, Me
  <2> QED  BY <1>15, <2>1, <2>2 DEF Judge, Outcomes
<1> QED
  BY <1>4, <1>5, <1>6, <1>7, <1>8, <1>9, <1>10, <1>11, <1>12, <1>13, <1>14, <1>15
  DEF Moves, Step

\* All callers.
LEMMA CarriesKept ==
  ASSUME CacheInv, [Next]_vars, NEW d \in Callers
  PROVE  CarriesOK(d)'
<1>1. /\ StepInv /\ CarriesOK(d) /\ count["entry"] \in Nat
  BY DEF CacheInv, StepInv, TypeOK
<1>2. 1..count["entry"] \subseteq 1..count'["entry"]
  <2>1. count'["entry"] = count["entry"] \/ count'["entry"] = count["entry"] + 1
    BY <1>1, TablesStep
  <2> QED  BY <1>1, <2>1
<1>3. CASE caller'[d] = caller[d]
  <2>1. \A r \in runs : r.status = "success" => r \in runs'
    BY <1>1, RecordedStays
  <2> QED  BY <1>1, <1>2, <1>3, <2>1 DEF CarriesOK, At, Me
<1>4. ASSUME NEW c \in Callers, Moves(c), caller'[d] # caller[d]
      PROVE  CarriesOK(d)'
  <2>1. d = c
    BY <1>1, <1>4, CallerStep
  <2> QED  BY <1>4, <2>1, CarriesStep
<1>5. caller' = caller \/ \E c \in Callers : Moves(c)
  BY DEF Next, Moves, vars, Refresh, RefreshBegin, RefreshCutoff, RefreshAggregate,
         RefreshWrite, RefreshFail, Invalidate, PurgeExpired, Tick
<1> QED  BY <1>3, <1>4, <1>5

LEMMA LinksKept ==
  ASSUME CacheInv, [Next]_vars
  PROVE  LinksOpen'
<1>1. /\ StepInv /\ TypeOK /\ LinksOpen /\ LinkOK /\ RowsOK /\ Cardinality(runs) \in Nat
  BY RowsKept DEF CacheInv, StepInv
<1>2. ASSUME NEW c \in Callers, At(c, "link")', At(c, "link"), Me(c)'.run = Me(c).run
      PROVE  \E r \in runs' : r.id = Me(c)'.run /\ r.entry = None
  <2>1. PICK r \in runs : r.id = Me(c).run /\ r.entry = None
    BY <1>1, <1>2 DEF LinksOpen
  <2>2. ASSUME NEW d \in Callers, At(d, "link"), caller'[d].pc = "idle", runs' = Linked(d)
        PROVE  r \in runs'
    <3>1. d # c
      BY <1>2, <2>2 DEF At
    <3>2. r.id # Me(d).run
      BY <1>1, <1>2, <2>1, <2>2, <3>1 DEF LinksOpen
    <3> QED  BY <2>2, <3>2 DEF Linked
  <2>3. r \in runs'
    BY <1>1, <2>2, TablesStep
  <2> QED  BY <1>2, <2>1, <2>3
<1>3. ASSUME NEW c \in Callers, At(c, "link")', RecordHit(c),
             Me(c)'.run = Cardinality(runs) + 1,
             runs' = runs \cup {Row(c, "cache_hit", now, None)}
      PROVE  \E r \in runs' : r.id = Me(c)'.run /\ r.entry = None
  <2> DEFINE row == Row(c, "cache_hit", now, None)
  <2>1. row \in runs' /\ row.id = Cardinality(runs) + 1 /\ row.entry = None
    BY <1>3 DEF Row
  <2> HIDE DEF row
  <2> QED  BY <1>3, <2>1
<1>4. ASSUME NEW c \in Callers, NEW d \in Callers, c # d, At(d, "link"), RecordHit(c),
             Me(d)'.run = Me(d).run, Me(c)'.run = Cardinality(runs) + 1
      PROVE  Me(c)'.run # Me(d)'.run
  <2>1. Me(d).run \in 1..Cardinality(runs)
    BY <1>1, <1>4 DEF LinkOK
  <2> QED  BY <1>1, <1>4, <2>1
<1>5. ASSUME NEW c \in Callers, NEW d \in Callers, c # d, RecordHit(c), At(d, "link")'
      PROVE  At(d, "link")
  <2>1. caller'[d] = caller[d]
    BY <1>1, <1>5, CallerStep DEF Moves, Step
  <2> QED  BY <1>5, <2>1 DEF At
<1>6. ASSUME NEW c \in Callers, NEW d \in Callers, c # d, At(c, "link")', At(d, "link")'
      PROVE  Me(d)'.run # Me(c)'.run
  <2>1. \/ At(c, "link") /\ Me(c)'.run = Me(c).run
        \/ RecordHit(c) /\ At(c, "hit") /\ Me(c)'.run = Cardinality(runs) + 1
    BY <1>1, <1>6, LinkMove
  <2>2. \/ At(d, "link") /\ Me(d)'.run = Me(d).run
        \/ RecordHit(d) /\ At(d, "hit") /\ Me(d)'.run = Cardinality(runs) + 1
    BY <1>1, <1>6, LinkMove
  <2>3. CASE At(c, "link") /\ Me(c)'.run = Me(c).run /\ At(d, "link") /\ Me(d)'.run = Me(d).run
    BY <1>1, <1>6, <2>3 DEF LinksOpen
  <2>4. ~(At(c, "hit") /\ At(c, "link")) /\ ~(At(d, "hit") /\ At(d, "link"))
    BY DEF At
  <2> QED  BY <1>4, <1>5, <1>6, <2>1, <2>2, <2>3, <2>4
<1>7. ASSUME NEW c \in Callers, At(c, "link")'
      PROVE  \E r \in runs' : r.id = Me(c)'.run /\ r.entry = None
  BY <1>1, <1>2, <1>3, <1>7, LinkMove
<1> QED  BY <1>6, <1>7 DEF LinksOpen

\* The effect of a link on the rows that an entry is counted by.
LEMMA LinkCounts ==
  ASSUME CacheInv, NEW c \in Callers, At(c, "link"), runs' = Linked(c)
  PROVE  /\ \A r \in runs' : r.entry = Me(c).hit.entry \/ \E s \in runs : r.entry = s.entry
         /\ \A i \in Nat :
              Cardinality({r \in runs' : r.entry = i}) =
                IF i = Me(c).hit.entry THEN Cardinality({r \in runs : r.entry = i}) + 1
                                       ELSE Cardinality({r \in runs : r.entry = i})
<1> DEFINE i0 == Me(c).hit.entry
<1>1. /\ RowsOK /\ runs \subseteq Rows /\ CarriesOK(c) /\ LinksOpen
  BY DEF CacheInv, StepInv, TypeOK
<1>2. i0 \in Nat /\ None \notin Nat
  BY <1>1, NoneAssumption DEF CarriesOK
<1>3. PICK r0 \in runs : r0.id = Me(c).run /\ r0.entry = None
  BY <1>1 DEF LinksOpen
<1> DEFINE r1 == [r0 EXCEPT !.entry = i0]
<1>4. r1.entry = i0 /\ r1.id = r0.id
  BY <1>1 DEF Rows
<1>5. runs' = (runs \ {r0}) \cup {r1}
  <2>1. \A r \in runs : r.id = Me(c).run => r = r0
    BY <1>1, <1>3 DEF RowsOK
  <2> QED  BY <1>3, <2>1 DEF Linked
<1>6. r1 \notin runs
  BY <1>1, <1>2, <1>3, <1>4 DEF RowsOK
<1> HIDE DEF r1, i0
<1>7. ASSUME NEW i \in Nat
      PROVE  Cardinality({r \in runs' : r.entry = i}) =
               IF i = i0 THEN Cardinality({r \in runs : r.entry = i}) + 1
                         ELSE Cardinality({r \in runs : r.entry = i})
  <2> DEFINE before == {r \in runs : r.entry = i}
  <2>1. i # None
    BY <1>2
  <2>2. IsFiniteSet(before) /\ r1 \notin before
    <3>1. before \subseteq runs
      OBVIOUS
    <3> QED  BY <1>1, <1>6, <3>1, FS_Subset DEF RowsOK
  <2>3. CASE i = i0
    <3>1. {r \in runs' : r.entry = i} = before \cup {r1}
      BY <1>3, <1>4, <1>5, <2>1, <2>3
    <3> QED  BY <2>2, <2>3, <3>1, FS_AddElement
  <2>4. CASE i # i0
    <3>1. {r \in runs' : r.entry = i} = before
      BY <1>3, <1>4, <1>5, <2>1, <2>4
    <3> QED  BY <2>4, <3>1
  <2> QED  BY <2>3, <2>4
<1>8. \A r \in runs' : r.entry = i0 \/ \E s \in runs : r.entry = s.entry
  BY <1>4, <1>5
<1> QED  BY <1>7, <1>8 DEF i0

\* A hit and a refresh change an entry, not its id.
LEMMA BumpedEntry ==
  ASSUME NEW e \in Entries
  PROVE  /\ [e EXCEPT !.hits = @ + 1] # None
         /\ [e EXCEPT !.hits = @ + 1].id = e.id /\ [e EXCEPT !.hits = @ + 1].source = e.source
         /\ [e EXCEPT !.hits = @ + 1].response = e.response
         /\ [e EXCEPT !.hits = @ + 1].hits = e.hits + 1
<1>1. [e EXCEPT !.hits = @ + 1] \in Entries
  BY DEF Entries
<1>2. None \notin Entries
  BY NoneAssumption
<1>3. /\ [e EXCEPT !.hits = @ + 1].id = e.id /\ [e EXCEPT !.hits = @ + 1].source = e.source
      /\ [e EXCEPT !.hits = @ + 1].response = e.response
      /\ [e EXCEPT !.hits = @ + 1].hits = e.hits + 1
  BY DEF Entries
<1> QED  BY <1>1, <1>2, <1>3

LEMMA RefreshedEntry ==
  ASSUME StepInv, NEW c \in Callers, At(c, "store"), NEW e \in Entries
  PROVE  /\ Refreshed(e, c) # None
         /\ Refreshed(e, c).id = e.id /\ Refreshed(e, c).hits = e.hits
         /\ Refreshed(e, c).source = Me(c).run /\ Refreshed(e, c).response = Me(c).reply
<1>1. Me(c).run \in Nat /\ Me(c).reply \in Responses /\ now \in Nat
  BY DEF StepInv, CallerOK, TypeOK, CallerType, At, Me
<1>2. Expiry \in Nat \cup {None}
  BY <1>1, LimitAssumption DEF Expiry
<1>3. Refreshed(e, c) \in Entries
  BY <1>1, <1>2 DEF Refreshed, Entries
<1>4. None \notin Entries
  BY NoneAssumption
<1>5. /\ Refreshed(e, c).id = e.id /\ Refreshed(e, c).hits = e.hits
      /\ Refreshed(e, c).source = Me(c).run /\ Refreshed(e, c).response = Me(c).reply
  BY DEF Refreshed, Entries
<1> QED  BY <1>3, <1>4, <1>5

LEMMA IdsKept ==
  ASSUME CacheInv, [Next]_vars
  PROVE  EntryIds'
<1>1. /\ StepInv /\ TypeOK /\ EntryIds /\ \A c \in Callers : CarriesOK(c) /\ CallerOK(c)
      /\ entry \in [Keys -> Entries \cup {None}] /\ count["entry"] \in Nat /\ runs \subseteq Rows
  BY DEF CacheInv, StepInv, TypeOK
<1> DEFINE n == count["entry"]
<1>2. \A r \in runs : r.entry = None \/ r.entry \in 1..n
  BY <1>1 DEF EntryIds
<1>3. CASE runs' = runs /\ entry' = entry /\ count'["entry"] = n
  BY <1>1, <1>3 DEF EntryIds
<1>4. ASSUME NEW row, runs' = runs \cup {row}, row.entry = None, entry' = entry,
             count'["entry"] = n
      PROVE  EntryIds'
  BY <1>1, <1>4 DEF EntryIds
<1>5. ASSUME NEW c \in Callers, At(c, "link"), runs' = Linked(c), entry' = Bumped(c),
             count'["entry"] = n
      PROVE  EntryIds'
  <2>1. \A r \in runs' : r.entry = Me(c).hit.entry \/ \E s \in runs : r.entry = s.entry
    BY <1>5, LinkCounts
  <2>2. Me(c).hit.entry \in 1..n
    BY <1>1, <1>5 DEF CarriesOK
  <2>3. \A k \in Keys : /\ entry'[k] = None <=> entry[k] = None
                        /\ entry[k] # None => entry'[k].id = entry[k].id
    <3> QED  BY <1>1, <1>5, BumpedEntry DEF Bumped
  <2> QED  BY <1>1, <1>2, <1>5, <2>1, <2>2, <2>3 DEF EntryIds
<1>6. ASSUME NEW c \in Callers, At(c, "store"), entry[Me(c).key] # None, runs' = runs,
             entry' = [entry EXCEPT ![Me(c).key] = Refreshed(entry[Me(c).key], c)],
             count'["entry"] = n
      PROVE  EntryIds'
  <2>1. Me(c).key \in Keys
    BY <1>1, <1>6 DEF CallerOK, At
  <2>2. \A k \in Keys : /\ entry'[k] = None => entry[k] = None
                        /\ entry[k] = None => entry'[k] = None
                        /\ entry[k] # None => entry'[k].id = entry[k].id
    BY <1>1, <1>6, <2>1, RefreshedEntry
  <2> QED  BY <1>1, <1>2, <1>6, <2>2 DEF EntryIds
<1>7. ASSUME NEW c \in Callers, At(c, "store"), entry[Me(c).key] = None, runs' = runs,
             NEW new, new.id = n + 1, entry' = [entry EXCEPT ![Me(c).key] = new],
             count'["entry"] = n + 1
      PROVE  EntryIds'
  <2>1. Me(c).key \in Keys
    BY <1>1, <1>7 DEF CallerOK, At
  <2>2. \A k \in Keys : k # Me(c).key => entry'[k] = entry[k]
    BY <1>1, <1>7, <2>1
  <2>3. entry'[Me(c).key].id = n + 1
    BY <1>1, <1>7, <2>1
  <2>4. \A k \in Keys : entry[k] # None => entry[k].id \in 1..n
    BY <1>1 DEF EntryIds
  <2>5. \A k, l \in Keys :
          entry[k] # None /\ entry[l] # None /\ entry[k].id = entry[l].id => k = l
    BY <1>1 DEF EntryIds
  <2>6. 1..n \subseteq 1..(n + 1) /\ n + 1 \in 1..(n + 1) /\ n + 1 \notin 1..n
    BY <1>1
  <2> HIDE DEF n
  <2> QED  BY <1>2, <1>7, <2>1, <2>2, <2>3, <2>4, <2>5, <2>6 DEF EntryIds
<1>8. CASE /\ runs' = runs /\ count'["entry"] = n
           /\ \A k \in Keys : entry'[k] = entry[k] \/ entry'[k] = None
  BY <1>1, <1>2, <1>8 DEF EntryIds
<1> QED  BY <1>1, <1>3, <1>4, <1>5, <1>6, <1>7, <1>8, TablesStep

LEMMA HitsKept ==
  ASSUME CacheInv, [Next]_vars
  PROVE  HitsExact'
<1>1. /\ StepInv /\ TypeOK /\ EntryIds /\ HitsExact /\ RowsOK
      /\ \A c \in Callers : CarriesOK(c) /\ CallerOK(c)
      /\ entry \in [Keys -> Entries \cup {None}] /\ count["entry"] \in Nat /\ runs \subseteq Rows
  BY DEF CacheInv, StepInv, TypeOK, CacheIsSound
<1> DEFINE n == count["entry"]
           H(i) == {r \in runs : r.entry = i}
<1>2. /\ \A k \in Keys : entry[k] # None => entry[k].id \in 1..n
      /\ \A r \in runs : r.entry = None \/ r.entry \in 1..n
      /\ \A k \in Keys : entry[k] # None => entry[k].hits = Cardinality(H(entry[k].id))
      /\ None \notin Nat /\ n \in Nat
  BY <1>1, NoneAssumption DEF EntryIds, HitsExact
<1>3. CASE runs' = runs /\ \A k \in Keys : entry'[k] = entry[k] \/ entry'[k] = None
  BY <1>1, <1>3 DEF HitsExact
<1>4. ASSUME NEW row, runs' = runs \cup {row}, row.entry = None, entry' = entry
      PROVE  HitsExact'
  <2>1. ASSUME NEW i \in Nat
        PROVE  {r \in runs' : r.entry = i} = H(i)
    BY <1>2, <1>4
  <2>2. \A k \in Keys : entry[k] # None => entry[k].id \in Nat
    BY <1>2
  <2> HIDE DEF H
  <2> QED  BY <1>2, <1>4, <2>1, <2>2 DEF HitsExact
<1>5. ASSUME NEW c \in Callers, At(c, "link"), runs' = Linked(c), entry' = Bumped(c)
      PROVE  HitsExact'
  <2> DEFINE i0 == Me(c).hit.entry
             N(i) == Cardinality({r \in runs' : r.entry = i})
  <2>1. \A i \in Nat : N(i) = IF i = i0 THEN Cardinality(H(i)) + 1 ELSE Cardinality(H(i))
    BY <1>5, LinkCounts
  <2>2. ASSUME NEW k \in Keys, entry'[k] # None
        PROVE  entry'[k].hits = N(entry'[k].id)
    <3>1. entry[k] \in Entries
      BY <1>1, <1>5, <2>2 DEF Bumped
    <3>2. /\ entry[k] # None /\ entry[k].id \in Nat
          /\ entry[k].hits = Cardinality(H(entry[k].id))
      BY <1>2, <3>1, NoneAssumption
    <3>3. CASE entry[k].id = i0
      <4>1. entry'[k] = [entry[k] EXCEPT !.hits = @ + 1]
        BY <1>5, <3>2, <3>3 DEF Bumped
      <4>2. entry'[k].id = entry[k].id /\ entry'[k].hits = entry[k].hits + 1
        BY <3>1, <4>1, BumpedEntry
      <4> HIDE DEF N, H, i0
      <4> QED  BY <2>1, <3>2, <3>3, <4>2
    <3>4. CASE entry[k].id # i0
      <4>1. entry'[k] = entry[k]
        BY <1>5, <3>4 DEF Bumped
      <4> HIDE DEF N, H, i0
      <4> QED  BY <2>1, <3>2, <3>4, <4>1
    <3> QED  BY <3>3, <3>4
  <2> QED  BY <2>2 DEF HitsExact
<1>6. ASSUME NEW c \in Callers, At(c, "store"), entry[Me(c).key] # None, runs' = runs,
             entry' = [entry EXCEPT ![Me(c).key] = Refreshed(entry[Me(c).key], c)]
      PROVE  HitsExact'
  <2>1. Me(c).key \in Keys
    BY <1>1, <1>6 DEF CallerOK, At
  <2>2. \A k \in Keys : /\ entry'[k] # None => entry[k] # None
                        /\ entry[k] # None => /\ entry'[k].id = entry[k].id
                                              /\ entry'[k].hits = entry[k].hits
    BY <1>1, <1>6, <2>1, RefreshedEntry
  <2> QED  BY <1>1, <1>6, <2>2 DEF HitsExact
<1>7. ASSUME NEW c \in Callers, At(c, "store"), entry[Me(c).key] = None, runs' = runs,
             NEW new, new.id = n + 1, new.hits = 0,
             entry' = [entry EXCEPT ![Me(c).key] = new]
      PROVE  HitsExact'
  <2>1. Me(c).key \in Keys
    BY <1>1, <1>7 DEF CallerOK, At
  <2>2. H(n + 1) = {}
    BY <1>2
  <2>3. Cardinality(H(n + 1)) = 0
    BY <2>2, FS_EmptySet
  <2>4. /\ entry'[Me(c).key] = new
        /\ \A k \in Keys : k # Me(c).key => entry'[k] = entry[k]
    BY <1>1, <1>7, <2>1
  <2>5. \A i : {r \in runs' : r.entry = i} = H(i)
    BY <1>7
  <2> HIDE DEF H, n
  <2>6. \A k \in Keys : entry'[k] # None => entry'[k].hits = Cardinality(H(entry'[k].id))
    BY <1>2, <1>7, <2>3, <2>4
  <2> QED  BY <2>5, <2>6 DEF HitsExact
<1>8. ASSUME NEW c \in Callers
      PROVE  LET new == [id |-> count["entry"] + 1, source |-> Me(c).run,
                         response |-> Me(c).reply, expires |-> Expiry, hits |-> 0]
             IN new.id = n + 1 /\ new.hits = 0
  OBVIOUS
<1> QED  BY <1>1, <1>3, <1>4, <1>5, <1>6, <1>7, <1>8, TablesStep

LEMMA SourcesKept ==
  ASSUME CacheInv, [Next]_vars
  PROVE  CachedFromRun' /\ CachedIsValid'
<1>1. /\ StepInv /\ TypeOK /\ CachedFromRun /\ CachedIsValid
      /\ \A c \in Callers : CarriesOK(c) /\ CallerOK(c)
      /\ entry \in [Keys -> Entries \cup {None}]
  BY DEF CacheInv, StepInv, TypeOK, CacheIsSound
<1> DEFINE From(source, response, k) ==
             /\ response # "cut"
             /\ \E r \in runs : /\ r.id = source /\ r.status = "success" /\ r.key = k
                                /\ r.response = response
             /\ Validating => response = "good"
<1>2. \A k \in Keys : entry[k] # None => From(entry[k].source, entry[k].response, k)
  BY <1>1 DEF CachedFromRun, CachedIsValid, Validating
<1>3. ASSUME NEW c \in Callers, At(c, "store")
      PROVE  Me(c).key \in Keys /\ From(Me(c).run, Me(c).reply, Me(c).key)
  <2>1. Me(c).reply \in {"good", "bad", "cut"} /\ Me(c).key \in Keys
    BY <1>1, <1>3 DEF CallerOK, Responses, At
  <2>2. Validating => Me(c).options.validate
    BY <1>1, <1>3 DEF CarriesOK, Validating, At
  <2> QED  BY <1>1, <1>3, <2>1, <2>2 DEF CarriesOK
<1>4. ASSUME NEW k \in Keys, entry'[k] # None
      PROVE  From(entry'[k].source, entry'[k].response, k)
  <2>1. CASE entry'[k] = entry[k]
    BY <1>2, <1>4, <2>1
  <2>2. ASSUME NEW c \in Callers, At(c, "link"), entry' = Bumped(c)
        PROVE  From(entry'[k].source, entry'[k].response, k)
    <3>1. entry[k] \in Entries /\ entry[k] # None
      BY <1>1, <1>4, <2>2, NoneAssumption DEF Bumped
    <3>2. entry'[k] = entry[k] \/ entry'[k] = [entry[k] EXCEPT !.hits = @ + 1]
      BY <2>2 DEF Bumped
    <3>3. entry'[k].source = entry[k].source /\ entry'[k].response = entry[k].response
      BY <3>1, <3>2, BumpedEntry
    <3> HIDE DEF From
    <3> QED  BY <1>2, <3>1, <3>3
  <2>3. ASSUME NEW c \in Callers, At(c, "store"), entry[Me(c).key] # None,
               entry' = [entry EXCEPT ![Me(c).key] = Refreshed(entry[Me(c).key], c)]
        PROVE  From(entry'[k].source, entry'[k].response, k)
    <3>1. k # Me(c).key => entry'[k] = entry[k]
      BY <1>1, <2>3
    <3>2. k = Me(c).key => entry'[k].source = Me(c).run /\ entry'[k].response = Me(c).reply
      BY <1>1, <2>3, RefreshedEntry
    <3> HIDE DEF From
    <3> QED  BY <1>2, <1>3, <1>4, <2>3, <3>1, <3>2
  <2>4. ASSUME NEW c \in Callers, At(c, "store"),
               entry' = [entry EXCEPT ![Me(c).key] =
                           [id |-> count["entry"] + 1, source |-> Me(c).run,
                            response |-> Me(c).reply, expires |-> Expiry, hits |-> 0]]
        PROVE  From(entry'[k].source, entry'[k].response, k)
    <3>1. k # Me(c).key => entry'[k] = entry[k]
      BY <1>1, <2>4
    <3>2. k = Me(c).key => entry'[k].source = Me(c).run /\ entry'[k].response = Me(c).reply
      BY <1>1, <2>4
    <3> HIDE DEF From
    <3> QED  BY <1>2, <1>3, <1>4, <2>4, <3>1, <3>2
  <2> HIDE DEF From
  <2> QED  BY <1>1, <1>4, <2>1, <2>2, <2>3, <2>4, TablesStep
<1>5. \A r \in runs : r.status = "success" => r \in runs'
  BY <1>1, RecordedStays
<1>6. CachedFromRun'
  BY <1>4, <1>5 DEF CachedFromRun
<1>7. \A c \in Callers : CarriesOK(c)'
  BY CarriesKept
<1>8. CachedIsValid'
  BY <1>4, <1>7 DEF CachedIsValid, CarriesOK, Validating
<1> QED  BY <1>6, <1>8

LEMMA CacheInit == Init => CacheInv
<1>1. ASSUME Init  PROVE CacheInv
  <2>1. StepInv /\ runs = {} /\ (\A k \in Keys : entry[k] = None)
        /\ \A c \in Callers : caller[c] = IdleCaller
    BY <1>1, StepInit DEF Init
  <2>2. IdleCaller.pc = "idle" /\ IdleCaller.hit = None
    BY DEF IdleCaller
  <2>3. /\ \A c \in Callers : CarriesOK(c)
        /\ LinksOpen
    BY <2>1, <2>2 DEF CarriesOK, LinksOpen, At, Me
  <2>4. EntryIds /\ CacheIsSound
    BY <2>1, <2>2 DEF EntryIds, CacheIsSound, HitsExact, CachedFromRun, CachedIsValid, Me
  <2> QED  BY <2>1, <2>3, <2>4 DEF CacheInv
<1> QED  BY <1>1

LEMMA CacheKept ==
  ASSUME CacheInv, [Next]_vars
  PROVE  CacheInv'
BY StepKept, CarriesKept, LinksKept, IdsKept, HitsKept, SourcesKept DEF CacheInv, CacheIsSound

\* CacheIsSound: what is stored came from a successful run of the same key and was not cut, is
\* valid if every step that caches validates, and its hits are the rows linked to it, for any
\* number of callers, whatever is invalidated, expired, refreshed or lost between their steps.
THEOREM CachesSoundly == Spec => []CacheIsSound
<1>1. CacheInv /\ [Next]_vars => CacheInv'
  BY CacheKept
<1>2. CacheInv => CacheIsSound
  BY DEF CacheInv
<1> QED  BY <1>1, <1>2, CacheInit, PTL DEF Spec

-----------------------------------------------------------------------------
(* The records: one row for each step. *)

Waiting == {"lookup", "hit", "snapshot", "delta", "blocked", "chat", "insert", "commit"}

\* A caller's step has no row before it is recorded, and then the row that fits.
TracksOK(c) ==
  /\ Me(c).step \in 0..count["step"]
  /\ ~At(c, "idle") \/ Me(c).outcome # None => Me(c).step # 0
  /\ Me(c).pc \in Waiting => \A r \in runs : r.step # Me(c).step
  /\ At(c, "link") => \A r \in runs : r.id = Me(c).run => r.step = Me(c).step
  /\ At(c, "judge") \/ At(c, "store") =>
       Me(c).step \in lost \/ \E r \in RowsOf(Me(c).step) : r.status = "success"
  /\ ~At(c, "idle") /\ ~At(c, "insert") /\ ~At(c, "commit") => Me(c).reply # "error"

AnswerOK(c) ==
  At(c, "idle") /\ Me(c).outcome # None /\ Me(c).step \notin lost =>
    \E r \in RowsOf(Me(c).step) : /\ r.status \in StatusesOf(Me(c).outcome)
                                  /\ Me(c).outcome = "hit" => r.entry = Me(c).hit.entry

\* Steps are numbered, and every row has a step of its own.
StepsApart ==
  /\ \A c, d \in Callers : c # d /\ Me(c).step = Me(d).step => Me(c).step = 0
  /\ \A r \in runs : r.step \in 1..count["step"]
  /\ \A r, s \in runs : r.step = s.step => r = s

RecordInv ==
  /\ CacheInv
  /\ \A c \in Callers : TracksOK(c) /\ AnswerOK(c)
  /\ StepsApart /\ ClientErrorSurfaces

\* A row is added for the step of a caller that waits, and only by a hit's first transaction
\* is there something left to be done to it.
LEMMA RowsWritten ==
  ASSUME StepInv, [Next]_vars
  PROVE  \/ runs' = runs
         \/ \E c \in Callers, row \in Rows :
              /\ runs' = runs \cup {row} /\ row.id = Cardinality(runs) + 1
              /\ row.step = Me(c).step /\ Me(c).pc \in Waiting /\ Moves(c)
              /\ caller'[c].pc \notin Waiting /\ UNCHANGED <<count, lost>>
         \/ \E c \in Callers : /\ At(c, "link") /\ caller'[c].pc = "idle"
                               /\ Moves(c) /\ runs' = Linked(c)
<1> USE DEF Statuses
<1>1. /\ TypeOK /\ now \in Nat /\ caller \in [Callers -> CallerType]
  BY DEF StepInv, TypeOK
<1>2. ASSUME NEW c \in Callers, NEW status \in Statuses, ~At(c, "idle"), NEW at \in Nat,
             NEW response \in Responses \cup {None}
      PROVE  /\ Row(c, status, at, response) \in Rows
             /\ Row(c, status, at, response).id = Cardinality(runs) + 1
             /\ Row(c, status, at, response).step = Me(c).step
  <2>1. Row(c, status, at, response).step = Me(c).step
    BY DEF Row
  <2> QED  BY <1>2, <2>1, RowIsRow
<1>3. ASSUME NEW c \in Callers, RecordHit(c), runs' # runs
      PROVE  \E row \in Rows :
               /\ runs' = runs \cup {row} /\ row.id = Cardinality(runs) + 1
               /\ row.step = Me(c).step /\ Me(c).pc \in Waiting
               /\ caller'[c].pc \notin Waiting /\ UNCHANGED <<count, lost>>
  <2>1. caller' = [caller EXCEPT ![c].pc = "link", ![c].run = Cardinality(runs) + 1]
        /\ runs' = runs \cup {Row(c, "cache_hit", now, None)} /\ UNCHANGED <<count, lost>>
        /\ At(c, "hit")
    BY <1>3 DEF RecordHit
  <2>2. caller'[c].pc \notin Waiting
    BY <1>1, <2>1 DEF CallerType, Waiting
  <2>3. Me(c).pc \in Waiting /\ ~At(c, "idle")
    BY <2>1 DEF At, Me, Waiting
  <2> QED  BY <1>1, <1>2, <2>1, <2>2, <2>3
<1>4. ASSUME NEW c \in Callers, RecordBlocked(c), runs' # runs
      PROVE  \E row \in Rows :
               /\ runs' = runs \cup {row} /\ row.id = Cardinality(runs) + 1
               /\ row.step = Me(c).step /\ Me(c).pc \in Waiting
               /\ caller'[c].pc \notin Waiting /\ UNCHANGED <<count, lost>>
  <2>1. /\ Finish(c, "blocked") /\ runs' = runs \cup {Row(c, "budget_blocked", now, None)}
        /\ UNCHANGED <<count, lost>> /\ At(c, "blocked")
    BY <1>4 DEF RecordBlocked
  <2>2. caller'[c].pc \notin Waiting
    BY <1>1, <2>1, FinishFields DEF Waiting
  <2>3. Me(c).pc \in Waiting /\ ~At(c, "idle")
    BY <2>1 DEF At, Me, Waiting
  <2> QED  BY <1>1, <1>2, <2>1, <2>2, <2>3
<1>5. ASSUME NEW c \in Callers, RecordCommit(c), runs' # runs
      PROVE  \E row \in Rows :
               /\ runs' = runs \cup {row} /\ row.id = Cardinality(runs) + 1
               /\ row.step = Me(c).step /\ Me(c).pc \in Waiting
               /\ caller'[c].pc \notin Waiting /\ UNCHANGED <<count, lost>>
  <2>1. /\ runs' = runs \cup {CallRow(c)} /\ UNCHANGED <<count, lost>> /\ At(c, "commit")
        /\ \/ Finish(c, "raised")
           \/ caller' = [caller EXCEPT ![c].pc = "judge", ![c].run = Cardinality(runs) + 1]
    BY <1>5 DEF RecordCommit, Committed
  <2>2. caller'[c].pc \notin Waiting
    <3>1. CASE Finish(c, "raised")
      BY <1>1, <3>1, FinishFields DEF Waiting
    <3>2. CASE caller' = [caller EXCEPT ![c].pc = "judge", ![c].run = Cardinality(runs) + 1]
      BY <1>1, <3>2 DEF CallerType, Waiting
    <3> QED  BY <2>1, <3>1, <3>2
  <2>3. Me(c).pc \in Waiting /\ ~At(c, "idle")
    BY <2>1 DEF At, Me, Waiting
  <2>4. /\ Me(c).at \in Nat
        /\ (IF Raised(c) THEN None ELSE Me(c).reply) \in Responses \cup {None}
        /\ (IF Raised(c) THEN "failed" ELSE "success") \in Statuses
    BY <1>1 DEF CallerType, Raised, Me
  <2> QED  BY <1>2, <2>1, <2>2, <2>3, <2>4 DEF CallRow
<1>6. \/ runs' = runs
      \/ \E c \in Callers : RecordHit(c) \/ RecordBlocked(c) \/ RecordCommit(c)
      \/ \E c \in Callers : LinkHit(c) /\ runs' = Linked(c)
  BY DEF Next, Step, Refresh, vars, Begin, Lookup, LinkHit, Store, CheckSnapshot, CheckDelta,
         Chat, RecordInsert, Judge, Invalidate, PurgeExpired, Tick, RefreshBegin, RefreshCutoff,
         RefreshAggregate, RefreshWrite, RefreshFail
<1>7. ASSUME NEW c \in Callers, RecordHit(c) \/ RecordBlocked(c) \/ RecordCommit(c)
      PROVE  \/ runs' = runs
             \/ \E row \in Rows :
                  /\ runs' = runs \cup {row} /\ row.id = Cardinality(runs) + 1
                  /\ row.step = Me(c).step /\ Me(c).pc \in Waiting /\ Moves(c)
                  /\ caller'[c].pc \notin Waiting /\ UNCHANGED <<count, lost>>
  <2>1. Moves(c)
    BY <1>7 DEF Moves, Step
  <2> QED  BY <1>3, <1>4, <1>5, <1>7, <2>1
<1>8. ASSUME NEW c \in Callers, LinkHit(c)
      PROVE  At(c, "link") /\ Moves(c) /\ caller'[c].pc = "idle"
  BY <1>1, <1>8, FinishFields DEF LinkHit, Moves, Step
<1> QED  BY <1>6, <1>7, <1>8

\* Steps are numbered as they begin, and stay with their callers.
LEMMA BeginNumbers ==
  ASSUME StepInv, NEW c \in Callers, Begin(c)
  PROVE  /\ count'["step"] = count["step"] + 1 /\ caller'[c].step = count["step"] + 1
         /\ caller'[c].pc \in {"lookup", "snapshot"} /\ caller'[c].reply = None
         /\ UNCHANGED <<runs, lost>>
         /\ \A d \in Callers \ {c} : caller'[d] = caller[d]
<1>1. /\ TypeOK /\ caller \in [Callers -> CallerType]
      /\ count \in [{"step", "fault", "invalidation", "entry"} -> Nat]
  BY DEF StepInv, TypeOK
<1>2. PICK k \in Keys, o \in Options :
        caller' = [caller EXCEPT ![c] = [IdleCaller EXCEPT
                     !.step = count["step"] + 1, !.key = k, !.options = o,
                     !.pc = IF o.cache THEN "lookup" ELSE "snapshot"]]
  BY DEF Begin
<1> DEFINE new == [IdleCaller EXCEPT
                     !.step = count["step"] + 1, !.key = k, !.options = o,
                     !.pc = IF o.cache THEN "lookup" ELSE "snapshot"]
<1>3. new.step = count["step"] + 1 /\ new.pc \in {"lookup", "snapshot"} /\ new.reply = None
  BY DEF IdleCaller
<1>4. caller' = [caller EXCEPT ![c] = new]
  BY <1>2
<1> HIDE DEF new
<1> QED  BY <1>1, <1>3, <1>4 DEF Begin

LEMMA StepKeeps ==
  ASSUME StepInv, NEW c \in Callers, Step(c)
  PROVE  /\ count'["step"] = count["step"] /\ lost \subseteq lost'
         /\ \A d \in Callers : caller'[d].step = caller[d].step
         /\ ~At(c, "idle")
<1>1. /\ TypeOK /\ caller \in [Callers -> CallerType]
      /\ count \in [{"step", "fault", "invalidation", "entry"} -> Nat]
  BY DEF StepInv, TypeOK
<1>2. Fault => count'["step"] = count["step"]
  BY <1>1 DEF Fault
<1>3. caller'[c].step = caller[c].step
  <2>1. \A outcome : Finish(c, outcome) => caller'[c].step = caller[c].step
    BY <1>1, FinishFields
  <2>2. \A pc : Goto(c, pc) => caller'[c].step = caller[c].step
    BY <1>1, GotoFields
  <2>3. CASE LinkHit(c) \/ Store(c) \/ CheckDelta(c) \/ RecordBlocked(c) \/ Judge(c)
    BY <2>1, <2>2, <2>3 DEF LinkHit, Store, CheckDelta, RecordBlocked, Judge
  <2>4. CASE Lookup(c)
    BY <1>1, <2>4 DEF Lookup, CallerType
  <2>5. CASE CheckSnapshot(c)
    BY <1>1, <2>5 DEF CheckSnapshot, CallerType
  <2>6. CASE Chat(c)
    BY <1>1, <2>6 DEF Chat, CallerType
  <2>7. CASE RecordInsert(c)
    BY <1>1, <2>7 DEF RecordInsert, CallerType
  <2>8. CASE RecordHit(c)
    <3>1. caller' = [caller EXCEPT ![c].pc = "link", ![c].run = Cardinality(runs) + 1]
            => caller'[c].step = caller[c].step
      BY <1>1 DEF CallerType
    <3> QED  BY <2>1, <2>8, <3>1 DEF RecordHit
  <2>9. CASE RecordCommit(c)
    <3>1. caller' = [caller EXCEPT ![c].pc = "judge", ![c].run = Cardinality(runs) + 1]
            => caller'[c].step = caller[c].step
      BY <1>1 DEF CallerType
    <3> QED  BY <2>1, <2>2, <2>9, <3>1 DEF RecordCommit, Unrecorded
  <2> QED  BY <2>3, <2>4, <2>5, <2>6, <2>7, <2>8, <2>9 DEF Step
<1>4. \A d \in Callers \ {c} : caller'[d] = caller[d]
  BY CallerStep DEF Moves
<1>5. /\ UNCHANGED count \/ Fault \/ count' = [count EXCEPT !["entry"] = @ + 1]
      /\ lost \subseteq lost' /\ ~At(c, "idle")
  BY DEF Step, Lookup, RecordHit, LinkHit, Store, CheckSnapshot, CheckDelta,
     RecordBlocked, Chat, RecordInsert, RecordCommit, Judge, At
<1> QED  BY <1>1, <1>2, <1>3, <1>4, <1>5

LEMMA StepNumbers ==
  ASSUME StepInv, [Next]_vars
  PROVE  /\ lost \subseteq lost'
         /\ \/ /\ count'["step"] = count["step"]
               /\ \A d \in Callers : caller'[d].step = caller[d].step
            \/ \E c \in Callers : Begin(c)
<1>1. count \in [{"step", "fault", "invalidation", "entry"} -> Nat]
  BY DEF StepInv, TypeOK
<1>2. CASE ~\E c \in Callers : Moves(c)
  <2>1. caller' = caller /\ lost' = lost
        /\ (count' = count \/ count' = [count EXCEPT !["invalidation"] = @ + 1])
    BY <1>2 DEF Moves, Next, vars, Refresh, RefreshBegin, RefreshCutoff, RefreshAggregate,
         RefreshWrite, RefreshFail, Invalidate, PurgeExpired, Tick
  <2> QED  BY <1>1, <2>1
<1> QED  BY <1>2, BeginNumbers, StepKeeps DEF Moves

LEMMA StatusesFit ==
  /\ StatusesOf("ok") = {"success"} /\ StatusesOf("invalid") = {"success", "cache_hit"}
  /\ StatusesOf("hit") = {"cache_hit"} /\ StatusesOf("blocked") = {"budget_blocked"}
  /\ StatusesOf("raised") = {"failed"} /\ StatusesOf("db_error") = Statuses
BY DEF StatusesOf

\* The caller that moves.
LEMMA TracksStep ==
  ASSUME RecordInv, [Next]_vars, NEW c \in Callers, Moves(c)
  PROVE  TracksOK(c)'
<1>1. /\ StepInv /\ TypeOK /\ CallerOK(c) /\ TracksOK(c) /\ RowsOK /\ StepsApart
      /\ caller \in [Callers -> CallerType] /\ caller[c] \in CallerType
      /\ count["step"] \in Nat /\ Cardinality(runs) \in Nat /\ None # "error"
  BY RowsKept, NoneAssumption DEF RecordInv, CacheInv, StepInv, TypeOK
<1>2. Step(c) => /\ ~At(c, "idle") /\ caller'[c].step = caller[c].step /\ caller[c].step # 0
                 /\ caller'[c].step \in 0..count'["step"] /\ lost \subseteq lost'
  BY <1>1, StepKeeps DEF TracksOK, Me
<1>3. ASSUME NEW outcome, Finish(c, outcome), Step(c)
      PROVE  TracksOK(c)'
  <2>1. caller'[c].pc = "idle"
    BY <1>1, <1>3, FinishFields
  <2> QED  BY <1>2, <1>3, <2>1 DEF TracksOK, At, Me, Waiting
<1>4. CASE Begin(c)
  <2>1. /\ count'["step"] = count["step"] + 1 /\ caller'[c].step = count["step"] + 1
        /\ caller'[c].pc \in {"lookup", "snapshot"} /\ caller'[c].reply = None
        /\ runs' = runs
    BY <1>1, <1>4, BeginNumbers
  <2>2. \A r \in runs : r.step \in 1..count["step"]
    BY <1>1 DEF StepsApart
  <2>3. \A r \in runs' : r.step # caller'[c].step
    BY <1>1, <2>1, <2>2
  <2> QED  BY <1>1, <2>1, <2>3 DEF TracksOK, At, Me, Waiting
<1>5. ASSUME Step(c), Me(c).pc \in Waiting, runs' = runs,
             NEW pc \in Waiting, caller'[c].pc = pc,
             caller'[c].reply = caller[c].reply \/ pc \in {"insert", "commit"},
             pc \in {"insert", "commit"} \/ ~(At(c, "insert") \/ At(c, "commit"))
      PROVE  TracksOK(c)'
  BY <1>1, <1>2, <1>5 DEF TracksOK, At, Me, Waiting
<1>6. CASE Lookup(c)
  <2>1. PICK pc \in {"hit", "snapshot"} : caller'[c].pc = pc /\ caller'[c].reply = caller[c].reply
    BY <1>1, <1>6 DEF Lookup, CallerType
  <2> QED  BY <1>5, <1>6, <2>1 DEF Lookup, Step, At, Me, Waiting
<1>7. CASE CheckSnapshot(c)
  <2>1. caller'[c].pc = "delta" /\ caller'[c].reply = caller[c].reply
    BY <1>1, <1>7 DEF CheckSnapshot, CallerType
  <2> QED  BY <1>5, <1>7, <2>1 DEF CheckSnapshot, Step, At, Me, Waiting
<1>8. CASE CheckDelta(c)
  <2>1. PICK pc \in {"chat", "blocked"} : Goto(c, pc)
    BY <1>8 DEF CheckDelta
  <2>2. caller'[c].pc = pc /\ caller'[c].reply = caller[c].reply
    BY <1>1, <2>1, GotoFields
  <2> QED  BY <1>5, <1>8, <2>2 DEF CheckDelta, Step, At, Me, Waiting
<1>9. CASE Chat(c)
  <2>1. caller'[c].pc = "insert"
    BY <1>1, <1>9 DEF Chat, CallerType
  <2> QED  BY <1>5, <1>9, <2>1 DEF Chat, Step, At, Me, Waiting
<1>10. CASE RecordInsert(c)
  <2>1. caller'[c].pc = "commit"
    BY <1>1, <1>10 DEF RecordInsert, CallerType
  <2> QED  BY <1>5, <1>10, <2>1 DEF RecordInsert, Step, At, Me, Waiting
<1>11. CASE RecordHit(c)
  <2>1. Step(c) /\ At(c, "hit")
    BY <1>11 DEF Step, RecordHit
  <2>2. CASE Finish(c, "db_error")
    BY <1>3, <2>1, <2>2
  <2>3. CASE /\ runs' = runs \cup {Row(c, "cache_hit", now, None)}
             /\ caller' = [caller EXCEPT ![c].pc = "link", ![c].run = Cardinality(runs) + 1]
    <3> DEFINE row == Row(c, "cache_hit", now, None)
    <3>1. row.step = Me(c).step
      BY DEF Row
    <3>2. \A r \in runs : r.id # Cardinality(runs) + 1
      BY <1>1 DEF RowsOK
    <3>3. /\ caller'[c].pc = "link" /\ caller'[c].run = Cardinality(runs) + 1
          /\ caller'[c].reply = caller[c].reply
      BY <1>1, <2>3 DEF CallerType
    <3> HIDE DEF row
    <3> QED  BY <1>1, <1>2, <2>1, <2>3, <3>1, <3>2, <3>3 DEF TracksOK, At, Me, Waiting, row
  <2> QED  BY <1>11, <2>2, <2>3 DEF RecordHit
<1>12. CASE LinkHit(c) \/ Store(c) \/ RecordBlocked(c)
  BY <1>3, <1>12 DEF LinkHit, Store, RecordBlocked, Step
<1>13. CASE RecordCommit(c)
  <2>1. Step(c) /\ At(c, "commit")
    BY <1>13 DEF Step, RecordCommit
  <2>2. CASE \E outcome \in Outcomes : Finish(c, outcome)
    BY <1>3, <2>1, <2>2
  <2>3. CASE /\ ~Raised(c) /\ runs' = Committed(c)
             /\ caller' = [caller EXCEPT ![c].pc = "judge", ![c].run = Cardinality(runs) + 1]
    <3>1. caller'[c].pc = "judge" /\ caller'[c].reply = caller[c].reply
      BY <1>1, <2>3 DEF CallerType
    <3>2. CallRow(c) \in runs' /\ CallRow(c).status = "success" /\ CallRow(c).step = Me(c).step
      BY <2>3 DEF Committed, CallRow, Row
    <3> QED  BY <1>1, <1>2, <2>1, <2>3, <3>1, <3>2 DEF TracksOK, At, Me, Waiting, RowsOf, Raised
  <2>4. CASE ~Raised(c) /\ lost' = lost \cup {Me(c).step} /\ Goto(c, "judge")
    <3>1. caller'[c].pc = "judge" /\ caller'[c].reply = caller[c].reply
      BY <1>1, <2>4, GotoFields
    <3> QED  BY <1>1, <1>2, <2>1, <2>4, <3>1 DEF TracksOK, At, Me, Waiting, Raised
  <2> QED  BY <1>13, <2>2, <2>3, <2>4 DEF RecordCommit, Unrecorded, Outcomes
<1>14. CASE Judge(c)
  <2>1. Step(c) /\ At(c, "judge") /\ UNCHANGED <<runs, lost>>
    BY <1>14 DEF Step, Judge
  <2>2. CASE Goto(c, "store")
    <3>1. caller'[c].pc = "store" /\ caller'[c].reply = caller[c].reply
      BY <1>1, <2>2, GotoFields
    <3> QED  BY <1>1, <1>2, <2>1, <3>1 DEF TracksOK, At, Me, Waiting, RowsOf
  <2> QED  BY <1>3, <1>14, <2>1, <2>2 DEF Judge
<1> QED
  BY <1>4, <1>6, <1>7, <1>8, <1>9, <1>10, <1>11, <1>12, <1>13, <1>14 DEF Moves, Step

\* The answer that it gets.
LEMMA AnswerStep ==
  ASSUME RecordInv, [Next]_vars, NEW c \in Callers, Moves(c)
  PROVE  /\ AnswerOK(c)'
         /\ At(c, "idle")' /\ Me(c)'.reply = "error" /\ OnRecordError = "warn"
              => Me(c)'.outcome = "raised"
<1>1. /\ StepInv /\ TypeOK /\ TracksOK(c) /\ CarriesOK(c) /\ CallerOK(c) /\ LinksOpen /\ LinkOK
      /\ caller \in [Callers -> CallerType] /\ caller[c] \in CallerType /\ runs \subseteq Rows
      /\ now \in Nat /\ None # "error"
  BY NoneAssumption DEF RecordInv, CacheInv, StepInv, TypeOK
<1>2. ASSUME NEW outcome, Finish(c, outcome)
      PROVE  /\ Me(c)'.outcome = outcome /\ Me(c)'.step = Me(c).step
             /\ outcome = "hit" => Me(c)'.hit = Me(c).hit
             /\ Me(c)'.reply = "error" => Me(c).reply = "error"
  BY <1>1, <1>2, FinishFields DEF Me
<1>3. CASE ~At(c, "idle")'
  BY <1>3 DEF AnswerOK
<1>4. ASSUME NEW outcome, Finish(c, outcome),
             outcome \in {"raised"} \/ Me(c).reply # "error" \/ OnRecordError # "warn",
             \/ Me(c).step \in lost'
             \/ \E r \in runs' : /\ r.step = Me(c).step /\ r.status \in StatusesOf(outcome)
                                 /\ outcome = "hit" => r.entry = Me(c).hit.entry
      PROVE  /\ AnswerOK(c)'
             /\ At(c, "idle")' /\ Me(c)'.reply = "error" /\ OnRecordError = "warn"
                  => Me(c)'.outcome = "raised"
  <2>1. AnswerOK(c)'
    BY <1>2, <1>4 DEF AnswerOK, RowsOf
  <2> QED  BY <1>2, <1>4, <2>1
<1>5. ASSUME NEW r \in runs  PROVE r.status \in StatusesOf("db_error")
  BY <1>1, StatusesFit DEF Rows
<1>6. CASE RecordHit(c)
  <2>1. CASE Finish(c, "db_error") /\ lost' = lost \cup {Me(c).step}
    <3>1. Me(c).reply # "error"
      BY <1>1, <1>6 DEF RecordHit, TracksOK, At
    <3> QED  BY <1>4, <2>1, <3>1
  <2>2. CASE caller' = [caller EXCEPT ![c].pc = "link", ![c].run = Cardinality(runs) + 1]
    <3>1. caller'[c].pc = "link"
      BY <1>1, <2>2 DEF CallerType
    <3> QED  BY <1>3, <3>1 DEF At
  <2> QED  BY <1>6, <2>1, <2>2 DEF RecordHit
<1>7. CASE LinkHit(c)
  <2>1. At(c, "link") /\ Me(c).reply # "error"
    BY <1>1, <1>7 DEF LinkHit, TracksOK, At
  <2>2. PICK r \in runs : r.id = Me(c).run /\ r.entry = None
    BY <1>1, <2>1 DEF LinksOpen
  <2>3. r.step = Me(c).step /\ r.status = "cache_hit" /\ r \in Rows
    BY <1>1, <2>1, <2>2 DEF TracksOK, LinkOK
  <2>4. CASE runs' = Linked(c) /\ Finish(c, HitOutcome(c))
    <3> DEFINE row == [r EXCEPT !.entry = Me(c).hit.entry]
    <3>1. row \in runs'
      BY <2>2, <2>4 DEF Linked
    <3>2. row.step = Me(c).step /\ row.status = "cache_hit" /\ row.entry = Me(c).hit.entry
      BY <2>3 DEF Rows
    <3>3. HitOutcome(c) \in {"invalid", "hit"}
      BY DEF HitOutcome
    <3>4. "cache_hit" \in StatusesOf(HitOutcome(c))
      BY <3>3, StatusesFit
    <3> HIDE DEF row
    <3> QED  BY <1>4, <2>1, <2>4, <3>1, <3>2, <3>4
  <2>5. CASE runs' = runs /\ Finish(c, "db_error")
    BY <1>4, <1>5, <2>1, <2>3, <2>5
  <2> QED  BY <1>7, <2>4, <2>5 DEF LinkHit
<1>8. CASE Store(c)
  <2>1. /\ At(c, "store") /\ Me(c).reply # "error" /\ UNCHANGED <<runs, lost>>
        /\ Me(c).step \in lost \/ \E r \in RowsOf(Me(c).step) : r.status = "success"
    BY <1>1, <1>8 DEF Store, TracksOK, At
  <2>2. "success" \in StatusesOf("ok") /\ "success" \in StatusesOf("db_error")
    BY StatusesFit DEF Statuses
  <2>3. PICK outcome \in {"ok", "db_error"} : Finish(c, outcome)
    BY <1>8 DEF Store
  <2> QED  BY <1>4, <2>1, <2>2, <2>3 DEF RowsOf
<1>9. CASE RecordBlocked(c)
  <2>1. At(c, "blocked") /\ Me(c).reply # "error"
    BY <1>1, <1>9 DEF RecordBlocked, TracksOK, At
  <2>2. CASE lost' = lost \cup {Me(c).step} /\ Finish(c, "db_error")
    BY <1>4, <2>1, <2>2
  <2>3. CASE runs' = runs \cup {Row(c, "budget_blocked", now, None)} /\ Finish(c, "blocked")
    <3> DEFINE row == Row(c, "budget_blocked", now, None)
    <3>1. row \in runs' /\ row.step = Me(c).step /\ row.status \in StatusesOf("blocked")
      BY <2>3, StatusesFit DEF Row
    <3> HIDE DEF row
    <3> QED  BY <1>4, <2>1, <2>3, <3>1
  <2> QED  BY <1>9, <2>2, <2>3 DEF RecordBlocked
<1>10. CASE RecordCommit(c)
  <2>1. CASE runs' = Committed(c) /\ Raised(c) /\ Finish(c, "raised")
    <3>1. /\ CallRow(c) \in runs' /\ CallRow(c).step = Me(c).step
          /\ CallRow(c).status \in StatusesOf("raised")
      BY <2>1, StatusesFit DEF Committed, CallRow, Row
    <3> QED  BY <1>4, <2>1, <3>1
  <2>2. CASE caller' = [caller EXCEPT ![c].pc = "judge", ![c].run = Cardinality(runs) + 1]
    <3>1. caller'[c].pc = "judge"
      BY <1>1, <2>2 DEF CallerType
    <3> QED  BY <1>3, <3>1 DEF At
  <2>3. CASE lost' = lost \cup {Me(c).step} /\ Unrecorded(c)
    <3>1. CASE OnRecordError = "raise" /\ Finish(c, "db_error")
      BY <1>4, <2>3, <3>1
    <3>2. CASE Finish(c, "raised")
      BY <1>4, <2>3, <3>2
    <3>3. CASE Goto(c, "judge")
      <4>1. caller'[c].pc = "judge"
        BY <1>1, <3>3, GotoFields
      <4> QED  BY <1>3, <4>1 DEF At
    <3> QED  BY <2>3, <3>1, <3>2, <3>3 DEF Unrecorded
  <2> QED  BY <1>10, <2>1, <2>2, <2>3 DEF RecordCommit
<1>11. CASE Judge(c)
  <2>1. /\ At(c, "judge") /\ Me(c).reply # "error" /\ UNCHANGED <<runs, lost>>
        /\ Me(c).step \in lost \/ \E r \in RowsOf(Me(c).step) : r.status = "success"
    BY <1>1, <1>11 DEF Judge, TracksOK, At
  <2>2. "success" \in StatusesOf("ok") /\ "success" \in StatusesOf("invalid")
    BY StatusesFit
  <2>3. CASE Goto(c, "store")
    <3>1. caller'[c].pc = "store"
      BY <1>1, <2>3, GotoFields
    <3> QED  BY <1>3, <3>1 DEF At
  <2>4. ASSUME NEW outcome \in {"ok", "invalid"}, Finish(c, outcome)
        PROVE  /\ AnswerOK(c)'
               /\ At(c, "idle")' /\ Me(c)'.reply = "error" /\ OnRecordError = "warn"
                    => Me(c)'.outcome = "raised"
    BY <1>4, <2>1, <2>2, <2>4 DEF RowsOf
  <2> QED  BY <1>11, <2>3, <2>4 DEF Judge
<1>12. CASE Begin(c) \/ Lookup(c) \/ CheckSnapshot(c) \/ CheckDelta(c) \/ Chat(c) \/ RecordInsert(c)
  <2>1. Begin(c) => caller'[c].pc # "idle"
    BY <1>1, BeginNumbers
  <2>2. Lookup(c) => caller'[c].pc # "idle"
    BY <1>1 DEF Lookup, CallerType
  <2>3. CheckSnapshot(c) => caller'[c].pc # "idle"
    BY <1>1 DEF CheckSnapshot, CallerType
  <2>4. CheckDelta(c) => caller'[c].pc # "idle"
    <3>1. CheckDelta(c) => Goto(c, "chat") \/ Goto(c, "blocked")
      BY DEF CheckDelta
    <3> QED  BY <1>1, <3>1, GotoFields
  <2>5. Chat(c) => caller'[c].pc # "idle"
    BY <1>1 DEF Chat, CallerType
  <2>6. RecordInsert(c) => caller'[c].pc # "idle"
    BY <1>1 DEF RecordInsert, CallerType
  <2> QED  BY <1>3, <1>12, <2>1, <2>2, <2>3, <2>4, <2>5, <2>6 DEF At
<1> QED  BY <1>6, <1>7, <1>8, <1>9, <1>10, <1>11, <1>12 DEF Moves, Step

\* A row of another caller's step stays, and so does its link.
LEMMA OthersRow ==
  ASSUME RecordInv, [Next]_vars, NEW d \in Callers, caller'[d] = caller[d], Me(d).step # 0,
         NEW r \in runs, r.step = Me(d).step, ~At(d, "link")
  PROVE  r \in runs'
<1>1. StepInv /\ \A c \in Callers : TracksOK(c)
  BY DEF RecordInv, CacheInv
<1>2. ASSUME NEW c \in Callers, At(c, "link"), Moves(c), caller'[c].pc = "idle", runs' = Linked(c)
      PROVE  r \in runs'
  <2>1. c # d
    BY <1>2
  <2>2. Me(c).step # Me(d).step
    BY <2>1 DEF RecordInv, StepsApart
  <2>3. r.id # Me(c).run
    BY <1>1, <1>2, <2>2 DEF TracksOK
  <2> QED  BY <1>2, <2>3 DEF Linked
<1> QED  BY <1>1, <1>2, RowsWritten

\* The callers that do not move.
LEMMA OthersKept ==
  ASSUME RecordInv, [Next]_vars, NEW d \in Callers, caller'[d] = caller[d]
  PROVE  TracksOK(d)' /\ AnswerOK(d)'
<1>1. /\ StepInv /\ TracksOK(d) /\ AnswerOK(d) /\ StepsApart /\ RowsOK /\ LinkOK
      /\ count["step"] \in Nat /\ Cardinality(runs) \in Nat /\ runs \subseteq Rows
      /\ \A c \in Callers : TracksOK(c) /\ CarriesOK(c)
  BY RowsKept DEF RecordInv, CacheInv, StepInv, TypeOK
<1>2. lost \subseteq lost' /\ count["step"] <= count'["step"] /\ count'["step"] \in Nat
  BY <1>1, StepNumbers, BeginNumbers
<1>3. Me(d).pc \in Waiting => \A r \in runs' : r.step # Me(d).step
  <2>1. SUFFICES ASSUME Me(d).pc \in Waiting  PROVE \A r \in runs' : r.step # Me(d).step
    OBVIOUS
  <2>2. Me(d).step # 0 /\ \A r \in runs : r.step # Me(d).step
    BY <1>1, <2>1 DEF TracksOK, Waiting, At, Me
  <2>3. ASSUME NEW c \in Callers, NEW row, runs' = runs \cup {row}, row.step = Me(c).step,
               Me(c).pc \in Waiting, caller'[c].pc \notin Waiting
        PROVE  \A r \in runs' : r.step # Me(d).step
    <3>1. c # d
      BY <2>1, <2>3 DEF Me
    <3>2. Me(c).step # Me(d).step
      BY <1>1, <2>2, <3>1 DEF StepsApart
    <3> QED  BY <2>2, <2>3, <3>2
  <2>4. ASSUME NEW c \in Callers, runs' = Linked(c)
        PROVE  \A r \in runs' : r.step # Me(d).step
    <3>1. \A r \in runs : [r EXCEPT !.entry = Me(c).hit.entry].step = r.step
      BY <1>1 DEF Rows
    <3>2. \A r \in runs' : \E q \in runs : r.step = q.step
      BY <2>4, <3>1 DEF Linked
    <3> QED  BY <2>2, <3>2
  <2> QED  BY <1>1, <2>2, <2>3, <2>4, RowsWritten
<1>4. At(d, "link") => \A r \in runs' : r.id = Me(d).run => r.step = Me(d).step
  <2>1. SUFFICES ASSUME At(d, "link")
        PROVE  \A r \in runs' : r.id = Me(d).run => r.step = Me(d).step
    OBVIOUS
  <2>2. /\ Me(d).run \in 1..Cardinality(runs)
        /\ \A r \in runs : r.id = Me(d).run => r.step = Me(d).step
    BY <1>1, <2>1 DEF TracksOK, LinkOK
  <2>3. ASSUME NEW row, runs' = runs \cup {row}, row.id = Cardinality(runs) + 1
        PROVE  \A r \in runs' : r.id = Me(d).run => r.step = Me(d).step
    BY <1>1, <2>2, <2>3
  <2>4. ASSUME NEW c \in Callers, runs' = Linked(c)
        PROVE  \A r \in runs' : r.id = Me(d).run => r.step = Me(d).step
    <3>1. \A r \in runs : /\ [r EXCEPT !.entry = Me(c).hit.entry].step = r.step
                          /\ [r EXCEPT !.entry = Me(c).hit.entry].id = r.id
      BY <1>1 DEF Rows
    <3>2. \A r \in runs' : \E q \in runs : r.id = q.id /\ r.step = q.step
      BY <2>4, <3>1 DEF Linked
    <3> QED  BY <2>2, <3>2
  <2> QED  BY <1>1, <2>2, <2>3, <2>4, RowsWritten
<1>5. At(d, "judge") \/ At(d, "store") =>
        Me(d).step \in lost' \/ \E r \in runs' : r.step = Me(d).step /\ r.status = "success"
  BY <1>1, <1>2, RecordedStays DEF TracksOK, RowsOf
<1>6. TracksOK(d)'
  BY <1>1, <1>2, <1>3, <1>4, <1>5 DEF TracksOK, At, Me, RowsOf
<1>7. ASSUME At(d, "idle"), Me(d).outcome # None, Me(d).step \notin lost'
      PROVE  \E r \in runs' : /\ r.step = Me(d).step /\ r.status \in StatusesOf(Me(d).outcome)
                              /\ Me(d).outcome = "hit" => r.entry = Me(d).hit.entry
  <2>1. Me(d).step # 0 /\ ~At(d, "link")
    BY <1>1, <1>7 DEF TracksOK, At
  <2>2. PICK r \in runs : /\ r.step = Me(d).step /\ r.status \in StatusesOf(Me(d).outcome)
                          /\ Me(d).outcome = "hit" => r.entry = Me(d).hit.entry
    BY <1>1, <1>2, <1>7 DEF AnswerOK, RowsOf
  <2>3. r \in runs'
    BY <2>1, <2>2, OthersRow
  <2> QED  BY <2>2, <2>3
<1>8. AnswerOK(d)'
  BY <1>7 DEF AnswerOK, At, Me, RowsOf
<1> QED  BY <1>6, <1>8

LEMMA ApartKept ==
  ASSUME RecordInv, [Next]_vars
  PROVE  StepsApart'
<1>1. /\ StepInv /\ StepsApart /\ RowsOK /\ runs \subseteq Rows /\ count["step"] \in Nat
      /\ \A c \in Callers : TracksOK(c)
  BY DEF RecordInv, CacheInv, StepInv, TypeOK
<1>2. count["step"] <= count'["step"] /\ count'["step"] \in Nat
  BY <1>1, StepNumbers, BeginNumbers
<1>3. ASSUME NEW c \in Callers, NEW d \in Callers, c # d, caller'[c].step = caller'[d].step
      PROVE  caller'[c].step = 0
  <2>1. CASE \A e \in Callers : caller'[e].step = caller[e].step
    BY <1>1, <1>3, <2>1 DEF StepsApart, Me
  <2>2. ASSUME NEW b \in Callers, Begin(b)
        PROVE  caller'[c].step = 0
    <3>1. /\ caller'[b].step = count["step"] + 1
          /\ \A e \in Callers \ {b} : caller'[e] = caller[e] /\ caller[e].step <= count["step"]
                                      /\ caller[e].step \in Nat
      BY <1>1, <2>2, BeginNumbers DEF TracksOK, Me
    <3> QED  BY <1>1, <1>3, <3>1 DEF StepsApart, Me
  <2> QED  BY <1>1, <2>1, <2>2, StepNumbers
<1>4. /\ \A r \in runs : r.step \in 1..count["step"]
      /\ \A r, s \in runs : r.step = s.step => r = s
  BY <1>1 DEF StepsApart
<1>5. ASSUME NEW c \in Callers, NEW row, runs' = runs \cup {row}, row.step = Me(c).step,
             Me(c).pc \in Waiting
      PROVE  /\ \A r \in runs' : r.step \in 1..count["step"]
             /\ \A r, s \in runs' : r.step = s.step => r = s
  <2>1. row.step \in 1..count["step"] /\ \A r \in runs : r.step # row.step
    BY <1>1, <1>5 DEF TracksOK, Waiting, At, Me
  <2> QED  BY <1>4, <1>5, <2>1
<1>6. ASSUME NEW c \in Callers, runs' = Linked(c)
      PROVE  /\ \A r \in runs' : r.step \in 1..count["step"]
             /\ \A r, s \in runs' : r.step = s.step => r = s
  <2> DEFINE linked(r) == IF r.id = Me(c).run THEN [r EXCEPT !.entry = Me(c).hit.entry] ELSE r
  <2>1. \A r \in runs : linked(r).step = r.step
    BY <1>1 DEF Rows
  <2>2. runs' = {linked(r) : r \in runs}
    BY <1>6 DEF Linked
  <2> HIDE DEF linked
  <2> QED  BY <1>4, <2>1, <2>2
<1>7. /\ \A r \in runs' : r.step \in 1..count["step"]
      /\ \A r, s \in runs' : r.step = s.step => r = s
  BY <1>1, <1>4, <1>5, <1>6, RowsWritten
<1>8. \A r \in runs' : r.step \in 1..count'["step"]
  BY <1>1, <1>2, <1>7
<1> QED  BY <1>3, <1>7, <1>8 DEF StepsApart, Me

LEMMA RecordKept ==
  ASSUME RecordInv, [Next]_vars
  PROVE  /\ \A d \in Callers : TracksOK(d)' /\ AnswerOK(d)'
         /\ ClientErrorSurfaces'
<1>1. StepInv /\ ClientErrorSurfaces
  BY DEF RecordInv, CacheInv
<1>2. ASSUME NEW d \in Callers
      PROVE  \/ caller'[d] = caller[d]
             \/ Moves(d)
  <2>1. \A c \in Callers : Moves(c) => c = d \/ caller'[d] = caller[d]
    BY <1>1, CallerStep
  <2>2. caller' = caller \/ \E c \in Callers : Moves(c)
    BY DEF Next, Moves, vars, Refresh, RefreshBegin, RefreshCutoff, RefreshAggregate,
           RefreshWrite, RefreshFail, Invalidate, PurgeExpired, Tick
  <2> QED  BY <2>1, <2>2
<1>3. ASSUME NEW d \in Callers
      PROVE  /\ TracksOK(d)' /\ AnswerOK(d)'
             /\ At(d, "idle")' /\ Me(d)'.reply = "error" /\ OnRecordError = "warn"
                  => Me(d)'.outcome = "raised"
  <2>1. CASE Moves(d)
    BY <2>1, TracksStep, AnswerStep
  <2>2. CASE caller'[d] = caller[d]
    BY <1>1, <2>2, OthersKept DEF ClientErrorSurfaces, At, Me
  <2> QED  BY <1>2, <2>1, <2>2
<1> QED  BY <1>3 DEF ClientErrorSurfaces

LEMMA RecordInit == Init => RecordInv
<1>1. ASSUME Init  PROVE RecordInv
  <2>1. CacheInv /\ runs = {} /\ count["step"] = 0 /\ \A c \in Callers : caller[c] = IdleCaller
    BY <1>1, CacheInit DEF Init
  <2>2. /\ IdleCaller.pc = "idle" /\ IdleCaller.outcome = None /\ IdleCaller.step = 0
        /\ IdleCaller.reply = None /\ None # "error"
    BY NoneAssumption DEF IdleCaller
  <2>3. \A c \in Callers : TracksOK(c) /\ AnswerOK(c)
    BY <2>1, <2>2 DEF TracksOK, AnswerOK, At, Me, Waiting
  <2>4. StepsApart /\ ClientErrorSurfaces
    BY <2>1, <2>2 DEF StepsApart, ClientErrorSurfaces, At, Me
  <2> QED  BY <2>1, <2>3, <2>4 DEF RecordInv
<1> QED  BY <1>1

\* StepsAreRecorded: every step leaves one row, of the status that fits what its caller was
\* told, unless the row could not be written; and a client's error reaches the caller where
\* on_record_error is "warn".
THEOREM RecordsEveryStep == Spec => []StepsAreRecorded
<1>1. CacheInv /\ [Next]_vars => CacheInv'
  BY CacheKept
<1>2. RecordInv /\ [Next]_vars => RecordInv'
  <2>1. ASSUME RecordInv, [Next]_vars  PROVE RecordInv'
    <3>1. CacheInv
      BY <2>1 DEF RecordInv
    <3> QED  BY <1>1, <2>1, <3>1, RecordKept, ApartKept DEF RecordInv
  <2> QED  BY <2>1
<1>3. RecordInv => StepsAreRecorded
  BY DEF RecordInv, StepsAreRecorded, OneRowPerStep, StepsApart, AnswerOK
<1> QED  BY <1>2, <1>3, RecordInit, PTL DEF Spec

-----------------------------------------------------------------------------
(* The limit: how far concurrent callers can pass it. *)

Current == PeriodOf(now)

\* Callers that may still add a run to the current period without a check against it.
Unchecked == {c \in Callers : \/ At(c, "chat") \/ At(c, "insert") \/ At(c, "commit")
                              \/ At(c, "delta") /\ Me(c).period # Current}

PastRows == \A r \in runs : r.at <= now

\* A snapshot that a check has read stays exact.
SeenExact ==
  \A c \in Callers : At(c, "delta") /\ Me(c).seen # None =>
    /\ Me(c).seen.until \in Nat /\ Me(c).seen.until <= now
    /\ Me(c).seen.calls = Aggregate(Me(c).period, Me(c).seen.until)

Most == Limit + (Cardinality(Callers) - 1)

BoundInv ==
  /\ BudgetInv /\ PastRows /\ SeenExact
  /\ Live(Current) < Limit \/ Live(Current) + Cardinality(Unchecked) <= Most
  /\ OvershootBounded

LEMMA PeriodsGrow ==
  ASSUME NEW t \in Nat, NEW u \in Nat, t <= u
  PROVE  PeriodOf(t) <= PeriodOf(u) /\ PeriodOf(t) \in Nat /\ PeriodOf(u) \in Nat
BY LimitAssumption DEF PeriodOf

LEMMA CountsAreNumbers ==
  ASSUME StepInv, NEW p
  PROVE  IsFiniteSet(Counted(p)) /\ Live(p) \in Nat
<1>1. Counted(p) \in SUBSET runs
  BY DEF Counted
<1> QED  BY <1>1, FS_Subset, FS_CardinalityType DEF StepInv, RowsOK, Live

\* A snapshot and its delta make up the count.
LEMMA UsageExact ==
  ASSUME StepInv, NEW p, NEW seen,
         seen # None => seen.until \in Nat /\ seen.calls = Aggregate(p, seen.until)
  PROVE  Usage(p, seen) = Live(p)
<1>1. CASE seen = None
  BY <1>1 DEF Usage
<1>2. CASE seen # None
  <2> DEFINE S == {r \in Counted(p) : r.at < seen.until}
             T == {r \in Counted(p) : r.at >= seen.until}
  <2>1. S \in SUBSET Counted(p) /\ T \in SUBSET Counted(p)
    OBVIOUS
  <2>2. IsFiniteSet(S) /\ IsFiniteSet(T) /\ Cardinality(S) \in Nat /\ Cardinality(T) \in Nat
    BY <2>1, CountsAreNumbers, FS_Subset, FS_CardinalityType
  <2>3. \A r \in Counted(p) : r.at \in Nat
    BY DEF StepInv, TypeOK, Rows, Counted
  <2>4. S \cup T = Counted(p) /\ S \cap T = {}
    BY <1>2, <2>3
  <2>5. Cardinality({}) = 0
    BY FS_EmptySet
  <2> HIDE DEF S, T
  <2>6. Live(p) = Cardinality(S) + Cardinality(T)
    <3>1. Cardinality(S \cup T) = Cardinality(S) + Cardinality(T) - Cardinality(S \cap T)
      BY <2>2, FS_Union
    <3>2. Cardinality(S \cap T) = 0 /\ Live(p) = Cardinality(S \cup T)
      BY <2>4, <2>5 DEF Live
    <3> QED  BY <2>2, <3>1, <3>2
  <2> QED  BY <1>2, <2>6 DEF Usage, Aggregate, Delta, S, T
<1> QED  BY <1>1, <1>2

\* A run is counted in the period of its commit, and its caller needs no check any more.
LEMMA CountedStep ==
  ASSUME StepInv, CommitsNow, [Next]_vars, NEW p
  PROVE  \/ Counted(p)' = Counted(p)
         \/ \E c \in Callers : \E row :
              /\ RecordCommit(c) /\ p = Current /\ Counted(p)' = Counted(p) \cup {row}
              /\ c \in Unchecked /\ caller'[c].pc \in {"judge", "idle"}
<1>1. TypeOK /\ caller \in [Callers -> CallerType]
  BY DEF StepInv, TypeOK
<1>2. ASSUME NEW c \in Callers, RecordCommit(c), runs' = Committed(c)
      PROVE  /\ CallRow(c).at = now
             /\ c \in Unchecked /\ caller'[c].pc \in {"judge", "idle"}
             /\ PeriodOf(now) = p => Counted(p)' = Counted(p) \cup {CallRow(c)}
             /\ PeriodOf(now) # p => Counted(p)' = Counted(p)
  <2>1. At(c, "commit") /\ Me(c).at = now
    BY <1>2 DEF RecordCommit, CommitsNow
  <2>2. CallRow(c).at = now /\ CallRow(c).status \in {"success", "failed"}
    BY <2>1 DEF CallRow, Row
  <2>3. c \in Unchecked
    BY <2>1 DEF Unchecked
  <2>4. caller'[c].pc \in {"judge", "idle"}
    <3>1. \A outcome : Finish(c, outcome) => caller'[c].pc = "idle"
      BY <1>1, FinishFields
    <3>2. Goto(c, "judge") => caller'[c].pc = "judge"
      BY <1>1, GotoFields
    <3>3. caller' = [caller EXCEPT ![c].pc = "judge", ![c].run = Cardinality(runs) + 1]
            => caller'[c].pc = "judge"
      BY <1>1 DEF CallerType
    <3> QED  BY <1>2, <3>1, <3>2, <3>3 DEF RecordCommit, Unrecorded
  <2> QED  BY <1>2, <2>2, <2>3, <2>4 DEF Committed, Counted
<1>3. ASSUME NEW row, runs' = runs \cup {row}, row.status \in {"cache_hit", "budget_blocked"}
      PROVE  Counted(p)' = Counted(p)
  BY <1>3 DEF Counted
<1>4. ASSUME NEW c \in Callers, RecordHit(c) \/ RecordBlocked(c), runs' # runs
      PROVE  Counted(p)' = Counted(p)
  <2>1. PICK status \in {"cache_hit", "budget_blocked"} :
          runs' = runs \cup {Row(c, status, now, None)}
    BY <1>4 DEF RecordHit, RecordBlocked
  <2>2. Row(c, status, now, None).status = status
    BY DEF Row
  <2> QED  BY <1>3, <2>1, <2>2
<1>5. ASSUME NEW c \in Callers, At(c, "link"), runs' = Linked(c)
      PROVE  Counted(p)' = Counted(p)
  <2>1. \A r \in runs \cup runs' : r.status # "cache_hit" => r \in runs /\ r \in runs'
    BY <1>5, LinkEffect
  <2> QED  BY <2>1 DEF Counted
<1>6. \/ runs' = runs
      \/ \E c \in Callers : RecordHit(c) \/ RecordBlocked(c)
      \/ \E c \in Callers : RecordCommit(c) /\ runs' = Committed(c)
      \/ \E c \in Callers : At(c, "link") /\ runs' = Linked(c)
  BY DEF Next, Step, Refresh, vars, Begin, Lookup, LinkHit, Store, CheckSnapshot, CheckDelta,
         RecordCommit, Chat, RecordInsert, Judge, Invalidate, PurgeExpired, Tick, RefreshBegin,
         RefreshCutoff, RefreshAggregate, RefreshWrite, RefreshFail
<1>7. runs' = runs => Counted(p)' = Counted(p)
  BY DEF Counted
<1> QED  BY <1>2, <1>4, <1>5, <1>6, <1>7 DEF Current

\* Only a check that finds the current period below the limit makes a caller pass.
LEMMA UncheckedStep ==
  ASSUME StepInv, [Next]_vars, now' = now
  PROVE  \/ Unchecked' \subseteq Unchecked
         \/ \E c \in Callers : At(c, "delta") /\ Me(c).period = Current /\ WithinLimit(c)
<1>1. TypeOK /\ caller \in [Callers -> CallerType] /\ Current' = Current
  BY DEF StepInv, TypeOK, Current
<1>2. ASSUME NEW d \in Callers, caller'[d] = caller[d]
      PROVE  d \in Unchecked' => d \in Unchecked
  BY <1>1, <1>2 DEF Unchecked, At, Me
<1>3. ASSUME NEW c \in Callers, Step(c) \/ Begin(c), c \in Unchecked'
      PROVE  \/ c \in Unchecked
             \/ At(c, "delta") /\ Me(c).period = Current /\ WithinLimit(c)
  <2>1. /\ caller'[c].pc \in {"chat", "insert", "commit", "delta"}
        /\ caller'[c].pc = "delta" => caller'[c].period # Current
    BY <1>1, <1>3 DEF Unchecked, At, Me
  <2>2. \A outcome : ~Finish(c, outcome)
    BY <1>1, <2>1, FinishFields
  <2>3. \A pc : Goto(c, pc) => pc = caller'[c].pc /\ caller[c].period = caller'[c].period
    BY <1>1, GotoFields DEF Goto, CallerType
  <2>4. ~Begin(c) /\ ~LinkHit(c) /\ ~Store(c) /\ ~RecordBlocked(c)
    BY <2>1, <2>2, BeginNumbers DEF LinkHit, Store, RecordBlocked
  <2>5. ~Lookup(c)
    BY <1>1, <2>1 DEF Lookup, CallerType
  <2>6. ~RecordHit(c)
    <3>1. caller' # [caller EXCEPT ![c].pc = "link", ![c].run = Cardinality(runs) + 1]
      BY <1>1, <2>1 DEF CallerType
    <3> QED  BY <2>2, <3>1 DEF RecordHit
  <2>7. ~RecordCommit(c)
    <3>1. caller' # [caller EXCEPT ![c].pc = "judge", ![c].run = Cardinality(runs) + 1]
      BY <1>1, <2>1 DEF CallerType
    <3> QED  BY <2>1, <2>2, <2>3, <3>1 DEF RecordCommit, Unrecorded
  <2>8. ~Judge(c)
    BY <2>1, <2>2, <2>3 DEF Judge
  <2>9. ~CheckSnapshot(c)
    BY <1>1, <2>1 DEF CheckSnapshot, CallerType, Current
  <2>10. CASE Chat(c) \/ RecordInsert(c)
    BY <2>10 DEF Chat, RecordInsert, Unchecked
  <2>11. CASE CheckDelta(c)
    BY <1>3, <2>1, <2>3, <2>11 DEF CheckDelta, Unchecked, At, Me
  <2> QED  BY <1>3, <2>4, <2>5, <2>6, <2>7, <2>8, <2>9, <2>10, <2>11 DEF Step
<1>4. CASE Unchecked' \subseteq Unchecked
  BY <1>4
<1>5. ASSUME NEW d, d \in Unchecked', d \notin Unchecked
      PROVE  At(d, "delta") /\ Me(d).period = Current /\ WithinLimit(d)
  <2>1. d \in Callers
    BY <1>5 DEF Unchecked
  <2>2. \A c \in Callers : Moves(c) => c = d \/ caller'[d] = caller[d]
    BY <2>1, CallerStep
  <2>3. caller' = caller \/ \E c \in Callers : Moves(c)
    BY DEF Next, Moves, vars, Refresh, RefreshBegin, RefreshCutoff, RefreshAggregate,
           RefreshWrite, RefreshFail, Invalidate, PurgeExpired, Tick
  <2>4. Moves(d)
    BY <1>2, <1>5, <2>1, <2>2, <2>3
  <2> QED  BY <1>3, <1>5, <2>1, <2>4 DEF Moves
<1> QED  BY <1>4, <1>5 DEF Unchecked

LEMMA TimePasses ==
  ASSUME [Next]_vars
  PROVE  now' = now \/ (now' = now + 1 /\ UNCHANGED <<runs, caller>>)
<1>1. now' = now \/ Tick
  BY DEF Next, Step, Refresh, vars, Begin, Lookup, RecordHit, LinkHit, Store, CheckSnapshot,
     CheckDelta, RecordBlocked, Chat, RecordInsert, RecordCommit, Judge, Invalidate,
     PurgeExpired, RefreshBegin, RefreshCutoff, RefreshAggregate, RefreshWrite, RefreshFail
<1> QED  BY <1>1 DEF Tick

LEMMA PastKept ==
  ASSUME BoundInv, PromptCommit, [Next]_vars
  PROVE  PastRows' /\ SeenExact' /\ now <= now' /\ now' \in Nat
<1>1. /\ StepInv /\ TypeOK /\ CommitsNow /\ PastRows /\ SeenExact /\ NothingLost /\ CutoffsPast
      /\ caller \in [Callers -> CallerType] /\ now \in Nat /\ runs \subseteq Rows
      /\ PeriodOf(now) \in Periods
  BY DEF BoundInv, BudgetInv, StepInv, TypeOK, Periods
<1>2. now' \in Nat /\ now <= now' /\ (now' = now \/ UNCHANGED <<runs, caller>>)
  BY <1>1, TimePasses
<1>3. \A r \in runs' : r.at <= now
  <2>1. ASSUME NEW c \in Callers, At(c, "commit")
        PROVE  CallRow(c).at = now
    BY <1>1, <2>1 DEF CommitsNow, CallRow, Row
  <2>2. ASSUME NEW c \in Callers, NEW status
        PROVE  Row(c, status, now, None).at = now
    BY DEF Row
  <2>3. \/ runs' = runs
        \/ \E row : runs' = runs \cup {row} /\ row.at = now
        \/ \E c \in Callers : runs' = Linked(c)
    <3>1. \/ runs' = runs
          \/ \E c \in Callers : RecordHit(c) \/ RecordBlocked(c) \/ RecordCommit(c)
          \/ \E c \in Callers : runs' = Linked(c)
      BY DEF Next, Step, Refresh, vars, Begin, Lookup, LinkHit, Store, CheckSnapshot,
         CheckDelta, Chat, RecordInsert, Judge, Invalidate, PurgeExpired, Tick, RefreshBegin,
         RefreshCutoff, RefreshAggregate, RefreshWrite, RefreshFail
    <3>2. ASSUME NEW c \in Callers, RecordHit(c) \/ RecordBlocked(c)
          PROVE  runs' = runs \/ \E row : runs' = runs \cup {row} /\ row.at = now
      BY <2>2, <3>2 DEF RecordHit, RecordBlocked
    <3>3. ASSUME NEW c \in Callers, RecordCommit(c)
          PROVE  runs' = runs \/ \E row : runs' = runs \cup {row} /\ row.at = now
      BY <2>1, <3>3 DEF RecordCommit, Committed
    <3> QED  BY <3>1, <3>2, <3>3
  <2>4. ASSUME NEW c \in Callers, runs' = Linked(c)
        PROVE  \A r \in runs' : r.at <= now
    <3>1. \A r \in runs : [r EXCEPT !.entry = Me(c).hit.entry].at = r.at
      BY <1>1 DEF Rows
    <3> QED  BY <1>1, <2>4, <3>1 DEF Linked, PastRows
  <2> QED  BY <1>1, <2>3, <2>4 DEF PastRows
<1>4. PastRows'
  <2>1. \A r \in runs' : r.at \in Nat
    BY RowsKept, <1>1 DEF Rows
  <2> QED  BY <1>1, <1>2, <1>3, <2>1 DEF PastRows
<1>5. ASSUME NEW d \in Callers, At(d, "delta")', Me(d)'.seen # None
      PROVE  /\ Me(d)'.seen.until \in Nat /\ Me(d)'.seen.until <= now
             /\ Me(d)'.seen.calls = Aggregate(Me(d)'.period, Me(d)'.seen.until)
  <2>1. CASE caller'[d] = caller[d]
    BY <1>1, <1>5, <2>1 DEF SeenExact, At, Me
  <2>2. CASE CheckSnapshot(d)
    <3>1. caller'[d].period = PeriodOf(now) /\ caller'[d].seen = snapshot[PeriodOf(now)]
      BY <1>1, <2>2 DEF CheckSnapshot, CallerType
    <3>2. snapshot[PeriodOf(now)] \in Snapshots \cup {None}
      BY <1>1 DEF TypeOK
    <3> QED  BY <1>1, <1>5, <3>1, <3>2 DEF NothingLost, CutoffsPast, Snapshots, Me
  <2>3. ASSUME Moves(d), ~CheckSnapshot(d)  PROVE FALSE
    <3>0. caller'[d].pc = "delta"
      BY <1>5 DEF At
    <3>1. \A outcome : ~Finish(d, outcome)
      BY <1>1, <3>0, FinishFields
    <3>2. \A pc : Goto(d, pc) => pc = "delta"
      BY <1>1, <3>0, GotoFields
    <3>3. ~Begin(d) /\ ~LinkHit(d) /\ ~Store(d) /\ ~RecordBlocked(d)
      BY <1>1, <3>0, <3>1, BeginNumbers DEF LinkHit, Store, RecordBlocked
    <3>4. ~Lookup(d)
      BY <1>1, <3>0 DEF Lookup, CallerType
    <3>5. ~RecordHit(d)
      <4>1. caller' # [caller EXCEPT ![d].pc = "link", ![d].run = Cardinality(runs) + 1]
        BY <1>1, <3>0 DEF CallerType
      <4> QED  BY <3>1, <4>1 DEF RecordHit
    <3>6. ~RecordCommit(d)
      <4>1. caller' # [caller EXCEPT ![d].pc = "judge", ![d].run = Cardinality(runs) + 1]
        BY <1>1, <3>0 DEF CallerType
      <4> QED  BY <3>1, <3>2, <4>1 DEF RecordCommit, Unrecorded
    <3>7. ~Judge(d) /\ ~CheckDelta(d)
      BY <3>1, <3>2 DEF Judge, CheckDelta
    <3>8. ~Chat(d)
      BY <1>1, <3>0 DEF Chat, CallerType
    <3>9. ~RecordInsert(d)
      BY <1>1, <3>0 DEF RecordInsert, CallerType
    <3> QED  BY <2>3, <3>3, <3>4, <3>5, <3>6, <3>7, <3>8, <3>9 DEF Moves, Step
  <2>4. caller'[d] = caller[d] \/ Moves(d)
    <3>1. \A c \in Callers : Moves(c) => c = d \/ caller'[d] = caller[d]
      BY <1>1, CallerStep
    <3>2. caller' = caller \/ \E c \in Callers : Moves(c)
      BY DEF Next, Moves, vars, Refresh, RefreshBegin, RefreshCutoff, RefreshAggregate,
             RefreshWrite, RefreshFail, Invalidate, PurgeExpired, Tick
    <3> QED  BY <3>1, <3>2
  <2> QED  BY <2>1, <2>2, <2>3, <2>4
<1>6. ASSUME NEW d \in Callers, (At(d, "delta") /\ Me(d).seen # None)'
      PROVE  (/\ Me(d).seen.until \in Nat /\ Me(d).seen.until <= now
              /\ Me(d).seen.calls = Aggregate(Me(d).period, Me(d).seen.until))'
  <2>1. PICK limit, p : limit = caller'[d].seen.until /\ p = caller'[d].period
    OBVIOUS
  <2>2. limit \in Nat /\ limit <= now /\ caller'[d].seen.calls = Aggregate(p, limit)
    BY <1>5, <1>6, <2>1 DEF Me
  <2>3. Aggregate(p, limit)' = Aggregate(p, limit)
    BY <1>1, <2>2, CountFinal
  <2>4. Aggregate(p, limit)' = Aggregate(Me(d).period, Me(d).seen.until)'
    BY <2>1 DEF Aggregate, Counted, Me
  <2> QED  BY <1>1, <1>2, <2>1, <2>2, <2>3, <2>4 DEF Me
<1> QED  BY <1>2, <1>4, <1>6 DEF SeenExact

LEMMA BoundKept ==
  ASSUME BoundInv, PromptCommit, IsFiniteSet(Callers), [Next]_vars
  PROVE  /\ (Live(Current) < Limit \/ Live(Current) + Cardinality(Unchecked) <= Most)'
         /\ OvershootBounded'
<1>1. /\ StepInv /\ StepInv' /\ CommitsNow /\ PastRows /\ PastRows' /\ SeenExact /\ now <= now'
      /\ now \in Nat /\ now' \in Nat /\ Current \in Periods /\ OvershootBounded
      /\ Limit \in Nat /\ Limit > 0
      /\ Live(Current) < Limit \/ Live(Current) + Cardinality(Unchecked) <= Most
  BY PastKept, StepKept, LimitAssumption DEF BoundInv, BudgetInv, StepInv, TypeOK, Current, Periods
<1>2. /\ Cardinality(Callers) \in Nat
      /\ IsFiniteSet(Unchecked) /\ Cardinality(Unchecked) \in Nat
      /\ Cardinality(Unchecked) <= Cardinality(Callers)
      /\ IsFiniteSet(Unchecked') /\ Cardinality(Unchecked') \in Nat
      /\ Cardinality(Unchecked') <= Cardinality(Callers)
  <2>1. Unchecked \in SUBSET Callers /\ Unchecked' \in SUBSET Callers
    BY DEF Unchecked
  <2> QED  BY <2>1, FS_Subset, FS_CardinalityType
<1>3. \A p : Live(p) \in Nat /\ Live(p)' \in Nat
  <2>1. \A p : IsFiniteSet(Counted(p)) /\ IsFiniteSet(Counted(p)')
    <3>1. \A p : Counted(p) \in SUBSET runs /\ Counted(p)' \in SUBSET runs'
      BY DEF Counted
    <3> QED  BY <1>1, <3>1, FS_Subset DEF StepInv, RowsOK
  <2> QED  BY <2>1, FS_CardinalityType DEF Live
<1>4. CASE Current' # Current
  <2>1. now' # now /\ runs' = runs
    BY <1>4, TimePasses DEF Current
  <2>2. \A r \in runs' : PeriodOf(r.at) # Current'
    <3>1. \A r \in runs : r.at \in Nat /\ r.at <= now
      BY <1>1 DEF StepInv, TypeOK, Rows, PastRows
    <3>2. PeriodOf(now) <= PeriodOf(now') /\ PeriodOf(now) \in Nat /\ PeriodOf(now') \in Nat
      BY <1>1, PeriodsGrow
    <3>3. \A r \in runs : PeriodOf(r.at) <= PeriodOf(now) /\ PeriodOf(r.at) \in Nat
      BY <1>1, <3>1, PeriodsGrow
    <3> QED  BY <1>4, <2>1, <3>2, <3>3 DEF Current
  <2>3. Live(Current)' = 0
    <3>1. Counted(Current)' = {}
      BY <2>2 DEF Counted
    <3> QED  BY <3>1, FS_EmptySet DEF Live
  <2>4. \A p \in Periods : Live(p)' = Live(p)
    BY <2>1 DEF Live, Counted
  <2> QED  BY <1>1, <2>3, <2>4 DEF OvershootBounded
<1>5. CASE Current' = Current
  <2>1. \A p : p # Current => Live(p)' = Live(p)
    BY <1>1, CountedStep DEF Live
  <2>2. (Live(Current) < Limit \/ Live(Current) + Cardinality(Unchecked) <= Most)'
    <3>1. CASE now' # now
      <4>1. Unchecked' = Unchecked /\ Live(Current)' = Live(Current)
        BY <1>5, <3>1, TimePasses DEF Unchecked, At, Me, Live, Counted
      <4> QED  BY <1>1, <4>1 DEF Most
    <3>2. ASSUME NEW c \in Callers, NEW row,
                 Counted(Current)' = Counted(Current) \cup {row},
                 c \in Unchecked, caller'[c].pc \in {"judge", "idle"}, now' = now
          PROVE  (Live(Current) < Limit \/ Live(Current) + Cardinality(Unchecked) <= Most)'
      <4>1. Live(Current)' <= Live(Current) + 1
        <5>1. IsFiniteSet(Counted(Current))
          BY <1>1, CountsAreNumbers
        <5>2. Cardinality(Counted(Current)) \in Nat
          BY <5>1, FS_CardinalityType
        <5>3. \/ Cardinality(Counted(Current) \cup {row}) = Cardinality(Counted(Current))
              \/ Cardinality(Counted(Current) \cup {row}) = Cardinality(Counted(Current)) + 1
          BY <5>1, FS_AddElement
        <5> QED  BY <1>5, <3>2, <5>2, <5>3 DEF Live
      <4>2. c \notin Unchecked'
        BY <3>2 DEF Unchecked, At
      <4>3. CASE Live(Current) < Limit
        <5>1. Unchecked' \in SUBSET (Callers \ {c})
          BY <4>2 DEF Unchecked
        <5>2. IsFiniteSet(Callers \ {c}) /\ Cardinality(Callers \ {c}) = Cardinality(Callers) - 1
          BY <3>2, FS_RemoveElement
        <5>3. Cardinality(Unchecked') <= Cardinality(Callers) - 1
          BY <5>1, <5>2, FS_Subset
        <5> QED  BY <1>1, <1>2, <1>3, <4>1, <4>3, <5>3 DEF Most
      <4>4. CASE Live(Current) >= Limit
        <5>1. \A d \in Callers : ~(At(d, "delta") /\ Me(d).period = Current /\ WithinLimit(d))
          <6>1. ASSUME NEW d \in Callers, At(d, "delta"), Me(d).period = Current
                PROVE  Usage(Me(d).period, Me(d).seen) = Live(Current)
            BY <1>1, <6>1, UsageExact DEF SeenExact
          <6> QED  BY <1>1, <1>3, <4>4, <6>1 DEF WithinLimit
        <5>2. Unchecked' \subseteq Unchecked
          BY <1>1, <3>2, <5>1, UncheckedStep
        <5>3. Unchecked' \in SUBSET (Unchecked \ {c})
          BY <4>2, <5>2
        <5>4. /\ IsFiniteSet(Unchecked \ {c})
              /\ Cardinality(Unchecked \ {c}) = Cardinality(Unchecked) - 1
          BY <1>2, <3>2, FS_RemoveElement
        <5>5. Cardinality(Unchecked') <= Cardinality(Unchecked) - 1
          BY <5>3, <5>4, FS_Subset
        <5> QED  BY <1>1, <1>2, <1>3, <4>1, <4>4, <5>5 DEF Most
      <4> QED  BY <1>1, <1>3, <4>3, <4>4
    <3>3. CASE now' = now /\ Counted(Current)' = Counted(Current)
      <4>1. Live(Current)' = Live(Current)
        BY <3>3 DEF Live
      <4>2. CASE Live(Current) < Limit
        BY <4>1, <4>2
      <4>3. CASE Live(Current) >= Limit
        <5>1. \A d \in Callers : ~(At(d, "delta") /\ Me(d).period = Current /\ WithinLimit(d))
          <6>1. ASSUME NEW d \in Callers, At(d, "delta"), Me(d).period = Current
                PROVE  Usage(Me(d).period, Me(d).seen) = Live(Current)
            BY <1>1, <6>1, UsageExact DEF SeenExact
          <6> QED  BY <1>1, <1>3, <4>3, <6>1 DEF WithinLimit
        <5>2. Unchecked' \in SUBSET Unchecked
          BY <1>1, <3>3, <5>1, UncheckedStep
        <5>3. Cardinality(Unchecked') <= Cardinality(Unchecked)
          BY <1>2, <5>2, FS_Subset
        <5> QED  BY <1>1, <1>2, <1>3, <4>1, <4>3, <5>3 DEF Most
      <4> QED  BY <1>1, <1>3, <4>2, <4>3
    <3>4. \/ Counted(Current)' = Counted(Current)
          \/ \E c \in Callers : \E row :
               /\ Counted(Current)' = Counted(Current) \cup {row}
               /\ c \in Unchecked /\ caller'[c].pc \in {"judge", "idle"}
      <4>1. PICK p : p = Current
        OBVIOUS
      <4>2. \/ Counted(p)' = Counted(p)
            \/ \E c \in Callers : \E row :
                 /\ Counted(p)' = Counted(p) \cup {row}
                 /\ c \in Unchecked /\ caller'[c].pc \in {"judge", "idle"}
        BY <1>1, CountedStep
      <4>3. Counted(p)' = Counted(Current)' /\ Counted(p) = Counted(Current)
        BY <1>5, <4>1 DEF Counted
      <4> QED  BY <4>2, <4>3
    <3> QED  BY <3>1, <3>2, <3>3, <3>4
  <2>3. Live(Current)' <= Most
    BY <1>1, <1>2, <1>3, <2>2 DEF Most
  <2>4. OvershootBounded'
    <3>1. ASSUME NEW p \in Periods  PROVE Live(p)' <= Most
      <4>1. CASE p = Current
        BY <1>5, <2>3, <4>1 DEF Live, Counted
      <4>2. CASE p # Current
        BY <1>1, <2>1, <4>2 DEF OvershootBounded, Most
      <4> QED  BY <4>1, <4>2
    <3> QED  BY <3>1 DEF OvershootBounded, Most
  <2> QED  BY <2>2, <2>4
<1> QED  BY <1>4, <1>5
LEMMA BoundInit ==
  ASSUME Init, IsFiniteSet(Callers)
  PROVE  BoundInv
<1>1. BudgetInv
  BY BudgetInit
<1>2. \A p : Live(p) = 0
  <2>1. \A p : Counted(p) = {}
    BY DEF Init, Counted
  <2> QED  BY <2>1, FS_EmptySet DEF Live
<1>3. Cardinality(Callers) \in Nat /\ Limit \in Nat /\ Limit > 0
  BY FS_CardinalityType, LimitAssumption
<1>4. PastRows /\ SeenExact
  BY DEF Init, PastRows, SeenExact, At, IdleCaller
<1>5. OvershootBounded
  BY <1>2, <1>3 DEF OvershootBounded
<1>6. Live(Current) < Limit
  BY <1>2, <1>3
<1> QED  BY <1>1, <1>4, <1>5, <1>6 DEF BoundInv

\* The hard limit with any number of callers: when rows are committed in the second
\* they are stamped with, no period ever holds more runs than its limit and one less
\* than there are callers, whatever the snapshots and the caches do in between.
THEOREM OvershootIsBounded ==
  ASSUME PromptCommit, IsFiniteSet(Callers)
  PROVE  Spec => []OvershootBounded
<1>1. Init => BoundInv
  BY BoundInit
<1>2. BoundInv /\ [Next]_vars => BoundInv'
  <2> SUFFICES ASSUME BoundInv, [Next]_vars  PROVE BoundInv'
    OBVIOUS
  <2>1. BudgetInv'
    BY StepKept, CommitsKept, CutoffsKept, WritesKept, NothingLostKept DEF BoundInv, BudgetInv
  <2> QED  BY <2>1, PastKept, BoundKept DEF BoundInv
<1>3. BoundInv => OvershootBounded
  BY DEF BoundInv
<1> QED  BY <1>1, <1>2, <1>3, PTL DEF Spec

=============================================================================
