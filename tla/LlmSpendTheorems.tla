-------------------------- MODULE LlmSpendTheorems ---------------------------
(***************************************************************************)
(* What holds of LlmSpend for every instance: the replays of golden runs,  *)
(* the sums that caps and prices rest on, the caps and the guard, and the  *)
(* prices of calls.  Each part has an inductive invariant over its own     *)
(* variables; the composition moves one part and leaves the others, so     *)
(* what holds of each part holds of it (EachSpendPartRunsAlone).           *)
(***************************************************************************)
EXTENDS LlmSpend, Sequences, FiniteSetTheorems, Functions, WellFoundedInduction, TLAPS

-----------------------------------------------------------------------------
(* Replays. *)

IsSeq(s) == s \in Seq({s[k] : k \in DOMAIN s})

\* What is appended to a sequence leaves a sequence.
LEMMA SeqOfAppend ==
  ASSUME NEW s, IsSeq(s), NEW x
  PROVE  /\ IsSeq(Append(s, x)) /\ Len(s) \in Nat /\ DOMAIN s = 1 .. Len(s)
         /\ Len(Append(s, x)) = Len(s) + 1 /\ DOMAIN Append(s, x) = 1 .. Len(s) + 1
         /\ Append(s, x)[Len(s) + 1] = x /\ \A k \in 1 .. Len(s) : Append(s, x)[k] = s[k]
<1> DEFINE S == {s[k] : k \in DOMAIN s} \cup {x}
           longer == Append(s, x)
<1>1. s \in Seq(S)
  BY DEF IsSeq
<1>2. Len(s) \in Nat /\ DOMAIN s = 1 .. Len(s)
  BY DEF IsSeq
<1> HIDE DEF S
<1>3. x \in S
  BY DEF S
<1>4. /\ longer \in Seq(S) /\ Len(longer) = Len(s) + 1 /\ DOMAIN longer = 1 .. Len(s) + 1
      /\ longer[Len(s) + 1] = x /\ \A k \in 1 .. Len(s) : longer[k] = s[k]
  BY <1>1, <1>2, <1>3
<1> HIDE DEF longer
<1>5. longer \in Seq({longer[k] : k \in DOMAIN longer})
  BY <1>4
<1> QED  BY <1>2, <1>4, <1>5 DEF IsSeq, longer

ReplayFields == {"pc", "reply", "score", "result"}

\* The gate of the evaluation lets the score through.
GatePassed(score, metric) ==
  score > 0 /\ config.gate # None => metric # None /\ metric >= config.gate

\* The row of a run tells what the result of its replay does.
Tells(row, result) ==
  IF result.error THEN row = None \/ row.score = None
  ELSE /\ row # None /\ row.status = "success" /\ row.score = result.score
       /\ GatePassed(result.score, row.metric)

\* A replay and its row.
RunOk(g, me, row) ==
  /\ DOMAIN me = ReplayFields
  /\ me.pc \in {"queued", "payload", "chat", "record", "score", "outcome", "over", "collected"}
  /\ me.pc # "queued" => g \in listed
  /\ me.pc = "record" => me.reply \in {"failed", "success"}
  /\ me.pc \in {"queued", "payload", "chat", "record"} => row = None
  /\ me.pc = "score" => row = [status |-> "success", metric |-> None, score |-> None]
  /\ me.pc = "outcome" => /\ row \in Replay!RowsOfRuns /\ row.status = "success" /\ row.score = None
                          /\ me.score \in Nat /\ GatePassed(me.score, row.metric)
  /\ me.pc = "over" => me.result.golden = g /\ Tells(row, me.result)

Collected == {g \in Golden : replay[g].pc = "collected"}

ReplayInv ==
  /\ config \in Compared
  /\ tagged \subseteq Golden /\ listed \subseteq Golden
  /\ DOMAIN replay = Golden /\ DOMAIN rows = Golden
  /\ \A g \in Golden : RunOk(g, replay[g], rows[g])
  /\ IsSeq(results)
  /\ \A k \in DOMAIN results :
       results[k].golden \in Collected /\ Tells(rows[results[k].golden], results[k])
  /\ \A g \in Collected : \E k \in DOMAIN results : results[k].golden = g
  /\ Len(results) = Cardinality(Collected)
  /\ DOMAIN job = {"status", "current"} /\ job.current = Len(results)
  /\ job.status = "none" => listed = {}
  /\ job.status = "succeeded" => listed = Collected

LEMMA ReplayStart ==
  ASSUME Replay!Init
  PROVE  ReplayInv
<1>1. /\ config \in Compared /\ tagged \subseteq Golden /\ listed = {} /\ results = <<>>
      /\ job = [status |-> "none", current |-> 0]
      /\ replay = [g \in Golden |-> Replay!NotStarted] /\ rows = [g \in Golden |-> None]
  BY DEF Replay!Init
<1>2. Collected = {}
  BY <1>1 DEF Collected, Replay!NotStarted
<1>3. Cardinality(Collected) = 0
  BY <1>2, FS_EmptySet
<1>4. \A g \in Golden : RunOk(g, replay[g], rows[g])
  BY <1>1 DEF RunOk, Replay!NotStarted, ReplayFields
<1>5. IsSeq(results) /\ Len(results) = 0 /\ DOMAIN results = {}
  BY <1>1 DEF IsSeq
<1> QED  BY <1>1, <1>2, <1>3, <1>4, <1>5 DEF ReplayInv

\* Only the replay of g moves, and is not collected.
LEMMA OneRunMoves ==
  ASSUME ReplayInv, NEW g \in listed, NEW it, NEW row,
         replay[g].pc # "collected", it.pc # "collected", RunOk(g, it, row),
         replay' = [replay EXCEPT ![g] = it],
         DOMAIN rows' = Golden, rows'[g] = row, \A h \in Golden \ {g} : rows'[h] = rows[h],
         config' = config, listed' = listed, results' = results, job' = job,
         tagged' = tagged
  PROVE  ReplayInv'
<1>1. g \in Golden
  BY DEF ReplayInv
<1>2. /\ DOMAIN replay' = Golden /\ DOMAIN rows' = Golden
      /\ replay'[g] = it /\ rows'[g] = row
      /\ \A h \in Golden : h # g => replay'[h] = replay[h] /\ rows'[h] = rows[h]
  BY <1>1 DEF ReplayInv
<1>3. Collected' = Collected /\ g \notin Collected
  BY <1>1, <1>2 DEF Collected
<1>4. \A h, me, r : RunOk(h, me, r) => RunOk(h, me, r)'
  BY DEF RunOk, Tells, GatePassed
<1>5. \A r, res : Tells(r, res) <=> Tells(r, res)'
  BY DEF Tells, GatePassed
<1>6. \A h \in Golden : RunOk(h, replay[h], rows[h])
  BY DEF ReplayInv
<1>7. \A h \in Golden : RunOk(h, replay[h], rows[h])'
  BY <1>2, <1>4, <1>6
<1>8. job.status # "none" /\ job.status # "succeeded"
  BY <1>3 DEF ReplayInv
<1>9. ASSUME NEW k \in DOMAIN results
      PROVE  results[k].golden \in Collected /\ Tells(rows'[results[k].golden], results[k])
  <2>1. /\ results[k].golden \in Collected
        /\ Tells(rows[results[k].golden], results[k])
    BY DEF ReplayInv
  <2>2. rows'[results[k].golden] = rows[results[k].golden]
    BY <1>2, <1>3, <2>1 DEF Collected
  <2> QED  BY <2>1, <2>2
<1>10. \A k \in DOMAIN results' :
         (results[k].golden \in Collected /\ Tells(rows[results[k].golden], results[k]))'
  BY <1>3, <1>5, <1>9
<1>11. \A h \in Golden : RunOk(h, replay[h], rows[h])'
  BY <1>7
<1> QED  BY <1>2, <1>3, <1>8, <1>10, <1>11 DEF ReplayInv

\* The golden set changes, the evaluation does not.
LEMMA GoldenMoves ==
  ASSUME ReplayInv, tagged' \subseteq Golden,
         UNCHANGED <<config, listed, replay, rows, results, job>>
  PROVE  ReplayInv'
<1>1. Collected' = Collected
  BY DEF Collected
<1>2. \A g, me, row : RunOk(g, me, row)' <=> RunOk(g, me, row)
  BY DEF RunOk, Tells, GatePassed
<1>3. \A row, result : Tells(row, result)' <=> Tells(row, result)
  BY DEF Tells, GatePassed
<1>4. \A g \in Golden : RunOk(g, replay[g], rows[g])'
  BY <1>2 DEF ReplayInv
<1> QED  BY <1>1, <1>3, <1>4 DEF ReplayInv

LEMMA GoldenEdits ==
  ASSUME ReplayInv, NEW g \in Golden,
         Replay!AddTag(g) \/ Replay!AddOutcome(g) \/ Replay!Remove(g) \/ Replay!Purge
  PROVE  ReplayInv'
<1>1. tagged' \subseteq Golden
  BY DEF ReplayInv, Replay!AddTag, Replay!AddOutcome, Replay!Remove, Replay!Purge
<1>2. UNCHANGED <<config, listed, replay, rows, results, job>>
  BY DEF Replay!AddTag, Replay!AddOutcome, Replay!Remove, Replay!Purge
<1> QED  BY <1>1, <1>2, GoldenMoves

\* What is listed is what is tagged then, and nothing is replayed before.
LEMMA ListGolden ==
  ASSUME ReplayInv, Replay!List
  PROVE  ReplayInv'
<1>1. /\ job.status = "none" /\ listed' = tagged /\ job' = [status |-> "running", current |-> 0]
      /\ config' = config /\ replay' = replay /\ rows' = rows /\ results' = results
      /\ tagged' = tagged
  BY DEF Replay!List, Replay!golden
<1>2. \A g \in Golden : replay[g].pc = "queued" /\ RunOk(g, replay[g], rows[g])
  BY <1>1 DEF ReplayInv, RunOk
<1>3. \A g \in Golden : RunOk(g, replay[g], rows[g])'
  BY <1>1, <1>2 DEF RunOk
<1>4. Collected = {} /\ Collected' = {}
  BY <1>1, <1>2 DEF Collected
<1>5. Len(results) = 0 /\ DOMAIN results = {}
  BY <1>4, FS_EmptySet, SeqOfAppend DEF ReplayInv
<1> QED  BY <1>1, <1>3, <1>4, <1>5 DEF ReplayInv

\* A replay that is under way.
LEMMA RunFacts ==
  ASSUME ReplayInv, NEW g \in Golden, NEW pc, Replay!At(g, pc)
  PROVE  g \in listed /\ replay[g].pc = pc /\ RunOk(g, replay[g], rows[g])
BY DEF ReplayInv, Replay!At

\* A replay that moves on, its row unchanged: Step(g, it).
LEMMA StepMoves ==
  ASSUME ReplayInv, NEW g \in listed, replay[g].pc # "collected",
         NEW it, Replay!Step(g, it), it.pc # "collected", RunOk(g, it, rows[g]),
         UNCHANGED <<config, listed, rows, results, job, tagged>>
  PROVE  ReplayInv'
BY OneRunMoves DEF ReplayInv, Replay!Step

\* Of a failure nothing is scored.
LEMMA OverFailed ==
  ASSUME NEW g, g \in listed, NEW recorded, NEW row, row = None \/ row.score = None,
         NEW it, it = [Replay!NotStarted EXCEPT !.pc = "over",
                         !.result = [golden |-> g, recorded |-> recorded, score |-> 0,
                                     error |-> TRUE, passed |-> ~TRUE /\ 0 >= Threshold]]
  PROVE  RunOk(g, it, row) /\ it.pc # "collected"
<1>1. /\ it.pc = "over" /\ DOMAIN it = ReplayFields
      /\ it.result.golden = g /\ it.result.error = TRUE
  BY DEF Replay!NotStarted, ReplayFields
<1> QED  BY <1>1 DEF RunOk, Tells

LEMMA Fails ==
  ASSUME ReplayInv, NEW g \in listed, replay[g].pc # "collected", Replay!Raised(g),
         rows[g] = None \/ rows[g].score = None,
         UNCHANGED <<config, listed, rows, results, job, tagged>>
  PROVE  ReplayInv'
<1> DEFINE it == [Replay!NotStarted EXCEPT !.pc = "over",
                    !.result = [golden |-> g, recorded |-> FALSE, score |-> 0,
                                error |-> TRUE, passed |-> ~TRUE /\ 0 >= Threshold]]
<1>1. Replay!Step(g, it)
  BY DEF Replay!Raised, Replay!Over
<1>2. RunOk(g, it, rows[g]) /\ it.pc # "collected"
  BY OverFailed
<1> HIDE DEF it
<1> QED  BY <1>1, <1>2, StepMoves

LEMMA TakeRun ==
  ASSUME ReplayInv, NEW g \in Golden, Replay!Take(g)
  PROVE  ReplayInv'
<1> DEFINE it == [Replay!NotStarted EXCEPT !.pc = "payload"]
<1>1. g \in listed /\ replay[g].pc = "queued" /\ RunOk(g, replay[g], rows[g])
  BY RunFacts DEF Replay!Take
<1>2. Replay!Step(g, it) /\ UNCHANGED <<config, listed, rows, results, job, tagged>>
  BY DEF Replay!Take, Replay!golden
<1>3. RunOk(g, it, rows[g]) /\ it.pc # "collected"
  BY <1>1 DEF RunOk, Replay!NotStarted, ReplayFields
<1> HIDE DEF it
<1> QED  BY <1>1, <1>2, <1>3, StepMoves

LEMMA ReadPayload ==
  ASSUME ReplayInv, NEW g \in Golden, Replay!ReadPayload(g)
  PROVE  ReplayInv'
<1> DEFINE it == [replay[g] EXCEPT !.pc = "chat"]
<1>1. g \in listed /\ replay[g].pc = "payload" /\ RunOk(g, replay[g], rows[g])
  BY RunFacts DEF Replay!ReadPayload
<1>2. /\ Replay!Step(g, it) \/ Replay!Raised(g)
      /\ UNCHANGED <<config, listed, rows, results, job, tagged>>
  BY DEF Replay!ReadPayload, Replay!golden
<1>3. RunOk(g, it, rows[g]) /\ it.pc # "collected" /\ rows[g] = None
  BY <1>1 DEF RunOk, ReplayFields
<1> HIDE DEF it
<1> QED  BY <1>1, <1>2, <1>3, StepMoves, Fails

LEMMA ChatRun ==
  ASSUME ReplayInv, NEW g \in Golden, Replay!Chat(g)
  PROVE  ReplayInv'
<1> DEFINE it(x) == [replay[g] EXCEPT !.pc = "record", !.reply = x]
<1>1. g \in listed /\ replay[g].pc = "chat" /\ RunOk(g, replay[g], rows[g])
  BY RunFacts DEF Replay!Chat
<1>2. /\ (\E x \in {"failed", "success"} : Replay!Step(g, it(x))) \/ Replay!Raised(g)
      /\ UNCHANGED <<config, listed, rows, results, job, tagged>>
  BY DEF Replay!Chat, Replay!golden
<1>3. \A x \in {"failed", "success"} : RunOk(g, it(x), rows[g]) /\ it(x).pc # "collected"
  BY <1>1 DEF RunOk, ReplayFields
<1>4. rows[g] = None
  BY <1>1 DEF RunOk
<1> HIDE DEF it
<1> QED  BY <1>1, <1>2, <1>3, <1>4, StepMoves, Fails

\* The row of a recorded replay.
LEMMA NewReplayRow ==
  ASSUME NEW status \in {"failed", "success"}, NEW metric \in Scores \cup {None},
         NEW score \in Nat \cup {None}
  PROVE  LET row == [status |-> status, metric |-> metric, score |-> score]
         IN row \in Replay!RowsOfRuns /\ row # None
BY ReplayAssumption DEF Replay!NoneAssumption, Replay!RowsOfRuns

LEMMA RecordRun ==
  ASSUME ReplayInv, NEW g \in Golden, Replay!Record(g)
  PROVE  ReplayInv'
<1> DEFINE reply == replay[g].reply
           row == [status |-> reply, metric |-> None, score |-> None]
           done == [Replay!NotStarted EXCEPT !.pc = "over",
                      !.result = [golden |-> g, recorded |-> TRUE, score |-> 0,
                                  error |-> TRUE, passed |-> ~TRUE /\ 0 >= Threshold]]
           on == [replay[g] EXCEPT !.pc = "score"]
<1>1. g \in listed /\ replay[g].pc = "record" /\ RunOk(g, replay[g], rows[g])
  BY RunFacts DEF Replay!Record
<1>2. reply \in {"failed", "success"} /\ rows[g] = None
  BY <1>1 DEF RunOk
<1>3. UNCHANGED <<config, listed, results, job, tagged>>
  BY DEF Replay!Record, Replay!golden
<1>4. \/ Replay!Raised(g) /\ rows' = rows
      \/ /\ rows' = [rows EXCEPT ![g] = row]
         /\ IF reply = "failed" THEN Replay!Step(g, done) ELSE Replay!Step(g, on)
  BY DEF Replay!Record, Replay!Over
<1>5. CASE Replay!Raised(g) /\ rows' = rows
  BY <1>1, <1>2, <1>3, <1>5, Fails
<1>6. CASE /\ rows' = [rows EXCEPT ![g] = row]
           /\ IF reply = "failed" THEN Replay!Step(g, done) ELSE Replay!Step(g, on)
  <2>1. row.score = None
    OBVIOUS
  <2>2. RunOk(g, done, row) /\ done.pc # "collected"
    BY <1>1, <2>1, OverFailed
  <2>3. reply # "failed" => RunOk(g, on, row) /\ on.pc # "collected"
    BY <1>1, <1>2 DEF RunOk, ReplayFields
  <2>4. \A h \in Golden \ {g} : rows'[h] = rows[h]
    BY <1>6 DEF ReplayInv
  <2>5. DOMAIN rows' = Golden /\ rows'[g] = row
    BY <1>6 DEF ReplayInv
  <2> HIDE DEF done, on, row
  <2>6. \A it : /\ Replay!Step(g, it) /\ RunOk(g, it, row) /\ it.pc # "collected"
                => ReplayInv'
    BY <1>1, <1>3, <2>4, <2>5, OneRunMoves DEF Replay!Step
  <2> QED  BY <1>6, <2>2, <2>3, <2>6
<1> QED  BY <1>4, <1>5, <1>6

\* The gate of the code lets through what it scores.
LEMMA GatedPasses ==
  ASSUME config \in Compared, NEW score \in Scores, NEW metric \in Scores \cup {None}
  PROVE  /\ Replay!Gated(score, metric) \in Nat
         /\ GatePassed(Replay!Gated(score, metric), metric)
<1>1. Scores \subseteq Nat /\ config.gate \in Nat \cup {None}
  BY ReplayAssumption DEF Replay!ScoreAssumption
<1>2. score \in Nat /\ (metric = None \/ metric \in Nat)
  BY <1>1
<1> QED  BY <1>1, <1>2 DEF Replay!Gated, GatePassed

LEMMA ScoreRun ==
  ASSUME ReplayInv, NEW g \in Golden, Replay!Score(g)
  PROVE  ReplayInv'
<1> DEFINE on(s) == [replay[g] EXCEPT !.pc = "outcome", !.score = s]
           row(m) == [rows[g] EXCEPT !.metric = m]
<1>1. g \in listed /\ replay[g].pc = "score" /\ RunOk(g, replay[g], rows[g])
  BY RunFacts DEF Replay!Score
<1>2. rows[g] = [status |-> "success", metric |-> None, score |-> None]
  BY <1>1 DEF RunOk
<1>3. UNCHANGED <<config, listed, results, job, tagged>>
  BY DEF Replay!Score, Replay!golden
<1>4. \/ Replay!Raised(g) /\ rows' = rows
      \/ \E score \in Scores, metric \in Scores \cup {None} :
           /\ rows' = [rows EXCEPT ![g] = row(metric)]
           /\ Replay!Step(g, on(Replay!Gated(score, metric)))
  <2>1. (IF config.compare = "diff" THEN Scores \cup {None} ELSE {None})
          \subseteq Scores \cup {None}
    OBVIOUS
  <2> QED  BY <2>1 DEF Replay!Score
<1>5. CASE Replay!Raised(g) /\ rows' = rows
  <2>1. rows[g].score = None
    BY <1>2
  <2> QED  BY <1>1, <1>3, <1>5, <2>1, Fails
<1>6. ASSUME NEW score \in Scores, NEW metric \in Scores \cup {None},
             rows' = [rows EXCEPT ![g] = row(metric)],
             Replay!Step(g, on(Replay!Gated(score, metric)))
      PROVE  ReplayInv'
  <2> DEFINE s == Replay!Gated(score, metric)
  <2>1. s \in Nat /\ GatePassed(s, metric)
    BY GatedPasses DEF ReplayInv
  <2>2. row(metric) = [status |-> "success", metric |-> metric, score |-> None]
    BY <1>2
  <2>3. row(metric) \in Replay!RowsOfRuns
    BY <2>2, NewReplayRow
  <2>4. DOMAIN replay[g] = ReplayFields
    BY <1>1 DEF RunOk
  <2> HIDE DEF s
  <2>5. RunOk(g, on(s), row(metric)) /\ on(s).pc # "collected"
    BY <1>1, <2>1, <2>2, <2>3, <2>4 DEF RunOk, ReplayFields
  <2>6. \A h \in Golden \ {g} : rows'[h] = rows[h]
    BY <1>6 DEF ReplayInv
  <2>7. DOMAIN rows' = Golden /\ rows'[g] = row(metric)
    BY <1>6 DEF ReplayInv
  <2>8. replay' = [replay EXCEPT ![g] = on(s)]
    BY <1>6 DEF Replay!Step, s
  <2> HIDE DEF on, row
  <2> QED  BY <1>1, <1>3, <2>5, <2>6, <2>7, <2>8, OneRunMoves
<1> QED  BY <1>4, <1>5, <1>6

LEMMA StoreOutcome ==
  ASSUME ReplayInv, NEW g \in Golden, Replay!StoreOutcome(g)
  PROVE  ReplayInv'
<1> DEFINE score == replay[g].score
           row == [rows[g] EXCEPT !.score = score]
           done == [Replay!NotStarted EXCEPT !.pc = "over",
                      !.result = [golden |-> g, recorded |-> TRUE, score |-> score,
                                  error |-> FALSE, passed |-> ~FALSE /\ score >= Threshold]]
<1>1. g \in listed /\ replay[g].pc = "outcome" /\ RunOk(g, replay[g], rows[g])
  BY RunFacts DEF Replay!StoreOutcome
<1>2. /\ rows[g] \in Replay!RowsOfRuns /\ rows[g].status = "success" /\ rows[g].score = None
      /\ score \in Nat /\ GatePassed(score, rows[g].metric)
  BY <1>1 DEF RunOk
<1>3. UNCHANGED <<config, listed, results, job, tagged>>
  BY DEF Replay!StoreOutcome, Replay!golden
<1>4. \/ Replay!Raised(g) /\ rows' = rows
      \/ rows' = [rows EXCEPT ![g] = row] /\ Replay!Step(g, done)
  BY DEF Replay!StoreOutcome, Replay!Over
<1>5. CASE Replay!Raised(g) /\ rows' = rows
  BY <1>1, <1>2, <1>3, <1>5, Fails
<1>6. CASE rows' = [rows EXCEPT ![g] = row] /\ Replay!Step(g, done)
  <2> HIDE DEF score
  <2>1. /\ row = [status |-> "success", metric |-> rows[g].metric, score |-> score]
        /\ rows[g].metric \in Scores \cup {None}
    BY <1>2 DEF Replay!RowsOfRuns
  <2>2. row # None /\ row.status = "success" /\ row.score = score /\ row.metric = rows[g].metric
    BY <1>2, <2>1, NewReplayRow
  <2> HIDE DEF row
  <2>3. RunOk(g, done, row) /\ done.pc # "collected"
    <3>1. GatePassed(score, row.metric)
      BY <1>2, <2>2
    <3>2. /\ done.pc = "over" /\ DOMAIN done = ReplayFields /\ done.result.golden = g
          /\ done.result.error = FALSE /\ done.result.score = score
      BY DEF Replay!NotStarted, ReplayFields
    <3> QED  BY <1>1, <2>2, <3>1, <3>2 DEF RunOk, Tells
  <2>4. \A h \in Golden \ {g} : rows'[h] = rows[h]
    BY <1>6 DEF ReplayInv
  <2>5. DOMAIN rows' = Golden /\ rows'[g] = row
    BY <1>6 DEF ReplayInv
  <2> HIDE DEF done
  <2> QED  BY <1>1, <1>3, <1>6, <2>3, <2>4, <2>5, OneRunMoves DEF Replay!Step
<1> QED  BY <1>4, <1>5, <1>6

\* A result is collected once, with what the row says.
LEMMA CollectRun ==
  ASSUME ReplayInv, NEW g \in Golden, Replay!Collect(g)
  PROVE  ReplayInv'
<1> DEFINE it == [Replay!NotStarted EXCEPT !.pc = "collected"]
           res == replay[g].result
           n == Len(results)
<1>1. g \in listed /\ replay[g].pc = "over" /\ RunOk(g, replay[g], rows[g])
  BY RunFacts DEF Replay!Collect
<1>2. res.golden = g /\ Tells(rows[g], res)
  BY <1>1 DEF RunOk
<1>3. /\ results' = Append(results, res) /\ job' = [job EXCEPT !.current = @ + 1]
      /\ replay' = [replay EXCEPT ![g] = it]
      /\ UNCHANGED <<config, listed, rows, tagged>>
  BY DEF Replay!Collect, Replay!Step, Replay!golden
<1>4. /\ DOMAIN replay' = Golden /\ replay'[g] = it
      /\ \A h \in Golden \ {g} : replay'[h] = replay[h]
  BY <1>3 DEF ReplayInv
<1>5. it.pc = "collected" /\ DOMAIN it = ReplayFields
  BY DEF Replay!NotStarted, ReplayFields
<1> HIDE DEF it, res
<1>6. g \notin Collected /\ Collected' = Collected \cup {g}
  BY <1>1, <1>4, <1>5 DEF Collected
<1>7. IsFiniteSet(Collected) /\ Cardinality(Collected') = Cardinality(Collected) + 1
  <2>1. IsFiniteSet(Golden)
    BY ReplayAssumption DEF Replay!RunAssumption, Replay!IsFiniteSet, IsFiniteSet
  <2>2. IsFiniteSet(Collected)
    BY <2>1, FS_Subset DEF Collected
  <2> QED  BY <1>6, <2>2, FS_AddElement
<1>8. /\ IsSeq(results') /\ n \in Nat /\ DOMAIN results = 1 .. n /\ Len(results') = n + 1
      /\ DOMAIN results' = 1 .. n + 1 /\ results'[n + 1] = res
      /\ \A k \in 1 .. n : results'[k] = results[k]
  BY <1>3, SeqOfAppend DEF ReplayInv
<1>9. \A h \in Golden : RunOk(h, replay[h], rows[h])'
  <2>1. \A h, me, row : RunOk(h, me, row)' <=> RunOk(h, me, row)
    BY <1>3 DEF RunOk, Tells, GatePassed
  <2>2. RunOk(g, it, rows[g])
    BY <1>1, <1>5 DEF RunOk
  <2>3. \A h \in Golden \ {g} : RunOk(h, replay'[h], rows'[h])
    BY <1>3, <1>4 DEF ReplayInv
  <2>4. RunOk(g, replay'[g], rows'[g])
    BY <1>3, <1>4, <2>2
  <2> QED  BY <2>1, <2>3, <2>4
<1>10. \A row, x : Tells(row, x)' <=> Tells(row, x)
  BY <1>3 DEF Tells, GatePassed
<1>11. \A k \in 1 .. n :
         results[k].golden \in Collected /\ Tells(rows[results[k].golden], results[k])
  BY <1>8 DEF ReplayInv
<1>12. \A k \in DOMAIN results' :
         results'[k].golden \in Collected' /\ Tells(rows'[results'[k].golden], results'[k])
  <2>1. \A k \in 1 .. n :
          results'[k].golden \in Collected' /\ Tells(rows'[results'[k].golden], results'[k])
    BY <1>3, <1>6, <1>8, <1>11
  <2>2. /\ results'[n + 1].golden \in Collected'
        /\ Tells(rows'[results'[n + 1].golden], results'[n + 1])
    BY <1>2, <1>3, <1>6, <1>8
  <2>3. \A k \in DOMAIN results' : k \in 1 .. n \/ k = n + 1
    BY <1>8
  <2> QED  BY <2>1, <2>2, <2>3
<1>13. \A h \in Collected' : \E k \in DOMAIN results' : results'[k].golden = h
  <2>1. \A h \in Collected : \E k \in 1 .. n : results[k].golden = h
    BY <1>8 DEF ReplayInv
  <2>2. \A k \in 1 .. n : k \in DOMAIN results'
    BY <1>8
  <2>3. n + 1 \in DOMAIN results'
    BY <1>8
  <2> QED  BY <1>2, <1>6, <1>8, <2>1, <2>2, <2>3
<1>14. /\ job'.current = Len(results') /\ DOMAIN job' = {"status", "current"}
       /\ job'.status = job.status
  BY <1>3, <1>8 DEF ReplayInv
<1>15. job.status # "none" /\ job.status # "succeeded"
  BY <1>1, <1>6 DEF ReplayInv
<1>16. Len(results') = Cardinality(Collected')
  BY <1>7, <1>8 DEF ReplayInv
<1>17. (\A k \in DOMAIN results :
          results[k].golden \in Collected /\ Tells(rows[results[k].golden], results[k]))'
  BY <1>10, <1>12
<1> QED  BY <1>3, <1>4, <1>8, <1>9, <1>13, <1>14, <1>15, <1>16, <1>17 DEF ReplayInv

\* The report is made once everything listed was collected.
LEMMA ReportJob ==
  ASSUME ReplayInv, Replay!Report
  PROVE  ReplayInv'
<1>1. /\ job.status = "running" /\ \A g \in listed : replay[g].pc = "collected"
      /\ job' = [job EXCEPT !.status = "succeeded"]
      /\ UNCHANGED <<config, listed, replay, rows, results, tagged>>
  BY DEF Replay!Report, Replay!At, Replay!golden
<1>2. Collected' = Collected
  BY <1>1 DEF Collected
<1>3. listed = Collected
  BY <1>1 DEF ReplayInv, Collected, RunOk
<1>4. \A g, me, row : RunOk(g, me, row)' <=> RunOk(g, me, row)
  BY <1>1 DEF RunOk, Tells, GatePassed
<1>5. \A row, result : Tells(row, result)' <=> Tells(row, result)
  BY <1>1 DEF Tells, GatePassed
<1>6. \A g \in Golden : RunOk(g, replay[g], rows[g])'
  BY <1>1, <1>4 DEF ReplayInv
<1>7. /\ DOMAIN job' = {"status", "current"} /\ job'.current = job.current
      /\ job'.status = "succeeded"
  BY <1>1 DEF ReplayInv
<1> QED  BY <1>1, <1>2, <1>3, <1>5, <1>6, <1>7 DEF ReplayInv

LEMMA ReplayStep ==
  ASSUME ReplayInv, [Replay!Next]_Replay!vars
  PROVE  ReplayInv'
<1>1. CASE UNCHANGED Replay!vars
  <2>1. tagged' \subseteq Golden /\ UNCHANGED <<config, listed, replay, rows, results, job>>
    BY <1>1 DEF Replay!vars, ReplayInv
  <2> QED  BY <2>1, GoldenMoves
<1>2. CASE Replay!List
  BY <1>2, ListGolden
<1>3. CASE Replay!Report
  BY <1>3, ReportJob
<1>4. CASE Replay!Purge
  <2>1. tagged' \subseteq Golden /\ UNCHANGED <<config, listed, replay, rows, results, job>>
    BY <1>4 DEF Replay!Purge, ReplayInv
  <2> QED  BY <2>1, GoldenMoves
<1>5. ASSUME NEW g \in Golden,
             \/ Replay!AddTag(g) \/ Replay!AddOutcome(g) \/ Replay!Remove(g)
             \/ Replay!Take(g) \/ Replay!ReadPayload(g) \/ Replay!Chat(g) \/ Replay!Record(g)
             \/ Replay!Score(g) \/ Replay!StoreOutcome(g) \/ Replay!Collect(g)
      PROVE  ReplayInv'
  BY <1>5, GoldenEdits, TakeRun, ReadPayload, ChatRun, RecordRun, ScoreRun, StoreOutcome,
     CollectRun
<1> QED  BY <1>1, <1>2, <1>3, <1>4, <1>5 DEF Replay!Next

LEMMA ReplaySound ==
  ASSUME ReplayInv
  PROVE  ReportMatchesRows
<1>1. \A S : Replay!Cardinality(S) = Cardinality(S)
  BY DEF Replay!Cardinality, Cardinality
<1> SUFFICES ASSUME job.status = "succeeded"
             PROVE  /\ {results[k].golden : k \in DOMAIN results} = listed
                    /\ Len(results) = Replay!Cardinality(listed) /\ job.current = Len(results)
                    /\ \A k \in DOMAIN results : Tells(rows[results[k].golden], results[k])
  BY DEF ReportMatchesRows, Replay!ReportMatchesRows, Tells, GatePassed
<1> QED  BY <1>1 DEF ReplayInv

-----------------------------------------------------------------------------
(* Sums: what SumFunctionOnSet adds up does not depend on the order. *)

Less == {ss \in Nat \X Nat : ss[1] < ss[2]}

\* Every set of numbers that is not empty has a least one.
LEMMA LeastNumber ==
  ASSUME NEW T \in SUBSET Nat, T # {}
  PROVE  \E m \in T : \A k \in T : m <= k
<1>1. IsWellFoundedOn(Less, Nat)
  BY NatLessThanWellFounded, Zenon DEF OpToRel, Less
<1>2. PICK m \in T : \A k \in T : ~(<<k, m>> \in Less)
  BY <1>1, WFMin, Zenon
<1>3. \A k \in T : k \in Nat /\ m \in Nat
  OBVIOUS
<1>4. \A k \in T : ~(k < m)
  BY <1>2, <1>3 DEF Less
<1> QED  BY <1>3, <1>4

\* The fold of SumFunctionOnSet: a chosen element and the sum of the others.
Chosen(s)     == CHOOSE x \in s : TRUE
Unfold(f, h, s) == IF s = {} THEN 0 ELSE f[Chosen(s)] + h[s \ {Chosen(s)}]
FoldOn(f, S)  == CHOOSE h : h = [s \in SUBSET S |-> Unfold(f, h, s)]

\* h is the fold as far as sets of n elements.
FoldsTo(f, S, h, n) ==
  /\ h = [s \in SUBSET S |-> h[s]]
  /\ \A s \in SUBSET S : Cardinality(s) <= n => h[s] = Unfold(f, h, s)

LEMMA ChosenIsOne ==
  ASSUME NEW s, IsFiniteSet(s), s # {}
  PROVE  /\ Chosen(s) \in s /\ IsFiniteSet(s \ {Chosen(s)})
         /\ Cardinality(s) \in Nat /\ Cardinality(s) > 0
         /\ Cardinality(s \ {Chosen(s)}) = Cardinality(s) - 1
<1>1. Chosen(s) \in s
  BY DEF Chosen
<1>2. Cardinality(s) \in Nat /\ Cardinality(s) # 0
  BY FS_CardinalityType, FS_EmptySet
<1> QED  BY <1>1, <1>2, FS_RemoveElement

LEMMA FoldsAll ==
  ASSUME NEW f, NEW S, IsFiniteSet(S)
  PROVE  \A n \in Nat : \E h : FoldsTo(f, S, h, n)
<1> DEFINE Bad == {n \in Nat : ~\E h : FoldsTo(f, S, h, n)}
<1> SUFFICES ASSUME Bad # {}
             PROVE  FALSE
  OBVIOUS
<1>1. PICK n \in Bad : \A k \in Bad : n <= k
  BY LeastNumber
<1>2. /\ n \in Nat /\ \A h : ~FoldsTo(f, S, h, n)
      /\ \A k \in Nat : k < n => \E h : FoldsTo(f, S, h, k)
  BY <1>1
<1>3. \A s \in SUBSET S : IsFiniteSet(s) /\ Cardinality(s) \in Nat
  BY FS_Subset, FS_CardinalityType
<1>4. CASE n = 0
  <2> DEFINE h == [s \in SUBSET S |-> 0]
  <2>1. \A s \in SUBSET S : Cardinality(s) <= 0 => s = {}
    BY <1>3, FS_EmptySet
  <2>2. \A s \in SUBSET S : Cardinality(s) <= 0 => h[s] = Unfold(f, h, s)
    BY <2>1 DEF Unfold
  <2>3. h = [s \in SUBSET S |-> h[s]]
    OBVIOUS
  <2> HIDE DEF h
  <2> QED  BY <1>2, <1>4, <2>2, <2>3 DEF FoldsTo
<1>5. CASE n # 0
  <2>1. n - 1 \in Nat /\ n - 1 < n
    BY <1>2, <1>5
  <2>2. PICK h : FoldsTo(f, S, h, n - 1)
    BY <1>2, <2>1
  <2> DEFINE g == [s \in SUBSET S |-> IF Cardinality(s) <= n - 1 THEN h[s] ELSE Unfold(f, h, s)]
  <2>3. g = [s \in SUBSET S |-> g[s]]
    OBVIOUS
  <2>4. \A s \in SUBSET S : g[s] = Unfold(f, h, s) \/ Cardinality(s) > n
    BY <1>3, <2>1, <2>2 DEF FoldsTo
  <2>5. \A s \in SUBSET S : Cardinality(s) <= n - 1 => g[s] = h[s]
    OBVIOUS
  <2> HIDE DEF g
  <2>6. ASSUME NEW s \in SUBSET S, Cardinality(s) <= n
        PROVE  g[s] = Unfold(f, g, s)
    <3>1. g[s] = Unfold(f, h, s)
      BY <1>2, <1>3, <2>4, <2>6
    <3>2. CASE s = {}
      BY <3>1, <3>2 DEF Unfold
    <3>3. CASE s # {}
      <4> DEFINE t == s \ {Chosen(s)}
      <4>1. t \in SUBSET S /\ Cardinality(t) <= n - 1
        BY <1>2, <1>3, <2>6, <3>3, ChosenIsOne
      <4>2. g[t] = h[t]
        BY <2>5, <4>1
      <4> QED  BY <3>1, <3>3, <4>2 DEF Unfold
    <3> QED  BY <3>2, <3>3
  <2> QED  BY <1>2, <2>3, <2>6 DEF FoldsTo
<1> QED  BY <1>4, <1>5

\* So the fold is what its definition says.
LEMMA FoldUnfolds ==
  ASSUME NEW f, NEW S, IsFiniteSet(S)
  PROVE  \A s \in SUBSET S : FoldOn(f, S)[s] = Unfold(f, FoldOn(f, S), s)
<1>1. Cardinality(S) \in Nat
  BY FS_CardinalityType
<1>2. PICK h : FoldsTo(f, S, h, Cardinality(S))
  BY <1>1, FoldsAll
<1>3. \A s \in SUBSET S : Cardinality(s) <= Cardinality(S)
  BY FS_Subset
<1>4. h = [s \in SUBSET S |-> Unfold(f, h, s)]
  BY <1>2, <1>3 DEF FoldsTo
<1>5. FoldOn(f, S) = [s \in SUBSET S |-> Unfold(f, FoldOn(f, S), s)]
  BY <1>4 DEF FoldOn
<1> QED  BY <1>5

LEMMA SumIsFold ==
  ASSUME NEW f, NEW S
  PROVE  SumFunctionOnSet(f, S) = FoldOn(f, S)[S]
BY DEF SumFunctionOnSet, FoldFunctionOnSet, MapThenFoldSet, FoldOn, Unfold, Chosen

Sum(f, S) == SumFunctionOnSet(f, S)

\* Two folds of functions that agree on S agree there.
LEMMA FoldsAgree ==
  ASSUME NEW f, NEW g, NEW S, IsFiniteSet(S), \A x \in S : f[x] = g[x],
         NEW a, \A s \in SUBSET S : a[s] = Unfold(f, a, s),
         NEW b, \A s \in SUBSET S : b[s] = Unfold(g, b, s)
  PROVE  \A s \in SUBSET S : a[s] = b[s]
<1> DEFINE Bad == {n \in Nat : \E s \in SUBSET S : Cardinality(s) = n /\ a[s] # b[s]}
<1>1. \A s \in SUBSET S : IsFiniteSet(s) /\ Cardinality(s) \in Nat
  BY FS_Subset, FS_CardinalityType
<1> SUFFICES ASSUME Bad # {}
             PROVE  FALSE
  BY <1>1
<1>2. PICK n \in Bad : \A k \in Bad : n <= k
  BY LeastNumber
<1>3. PICK s \in SUBSET S : Cardinality(s) = n /\ a[s] # b[s]
  BY <1>2
<1>4. CASE s = {}
  BY <1>3, <1>4 DEF Unfold
<1>5. CASE s # {}
  <2> DEFINE x == Chosen(s)
             t == s \ {x}
  <2>1. x \in S /\ t \in SUBSET S /\ Cardinality(t) \in Nat /\ Cardinality(t) < n
    BY <1>1, <1>3, <1>5, ChosenIsOne
  <2>2. a[t] = b[t]
    BY <1>2, <2>1
  <2>3. a[s] = f[x] + a[t] /\ b[s] = g[x] + b[t]
    BY <1>5 DEF Unfold
  <2> QED  BY <1>3, <2>1, <2>2, <2>3
<1> QED  BY <1>4, <1>5

\* One element is chosen, the others are summed.
LEMMA SumUnfolds ==
  ASSUME NEW f, NEW S, IsFiniteSet(S)
  PROVE  Sum(f, S) = IF S = {} THEN 0 ELSE f[Chosen(S)] + Sum(f, S \ {Chosen(S)})
<1>1. Sum(f, S) = Unfold(f, FoldOn(f, S), S)
  BY SumIsFold, FoldUnfolds DEF Sum
<1>2. ASSUME NEW t \in SUBSET S
      PROVE  FoldOn(f, S)[t] = Sum(f, t)
  <2>1. IsFiniteSet(t)
    BY FS_Subset
  <2>2. /\ \A s \in SUBSET t : FoldOn(f, S)[s] = Unfold(f, FoldOn(f, S), s)
        /\ \A s \in SUBSET t : FoldOn(f, t)[s] = Unfold(f, FoldOn(f, t), s)
    BY <2>1, FoldUnfolds
  <2>3. \A s \in SUBSET t : FoldOn(f, S)[s] = FoldOn(f, t)[s]
    BY <2>1, <2>2, FoldsAgree
  <2> QED  BY <2>3, SumIsFold DEF Sum
<1> QED  BY <1>1, <1>2 DEF Unfold

LEMMA SumAgrees ==
  ASSUME NEW f, NEW g, NEW S, IsFiniteSet(S), \A x \in S : f[x] = g[x]
  PROVE  Sum(f, S) = Sum(g, S)
<1>1. /\ \A s \in SUBSET S : FoldOn(f, S)[s] = Unfold(f, FoldOn(f, S), s)
      /\ \A s \in SUBSET S : FoldOn(g, S)[s] = Unfold(g, FoldOn(g, S), s)
  BY FoldUnfolds
<1>2. \A s \in SUBSET S : FoldOn(f, S)[s] = FoldOn(g, S)[s]
  BY <1>1, FoldsAgree
<1> QED  BY <1>2, SumIsFold DEF Sum

LEMMA SumIsNat ==
  ASSUME NEW f, NEW S, IsFiniteSet(S), \A x \in S : f[x] \in Nat
  PROVE  Sum(f, S) \in Nat
<1> DEFINE Bad == {n \in Nat : \E s \in SUBSET S : Cardinality(s) = n /\ Sum(f, s) \notin Nat}
<1>1. \A s \in SUBSET S : IsFiniteSet(s) /\ Cardinality(s) \in Nat
  BY FS_Subset, FS_CardinalityType
<1> SUFFICES ASSUME Bad # {}
             PROVE  FALSE
  BY <1>1
<1>2. PICK n \in Bad : \A k \in Bad : n <= k
  BY LeastNumber
<1>3. PICK s \in SUBSET S : Cardinality(s) = n /\ Sum(f, s) \notin Nat
  BY <1>2
<1>4. s # {}
  <2>1. s = {} => Sum(f, s) = 0
    BY <1>1, SumUnfolds
  <2> QED  BY <1>3, <2>1
<1> DEFINE x == Chosen(s)
           t == s \ {x}
<1>5. x \in S /\ t \in SUBSET S /\ Cardinality(t) \in Nat /\ Cardinality(t) < n
  BY <1>1, <1>3, <1>4, ChosenIsOne
<1>6. Sum(f, t) \in Nat
  BY <1>2, <1>5
<1>7. Sum(f, s) = f[x] + Sum(f, t)
  BY <1>1, <1>4, SumUnfolds
<1> QED  BY <1>3, <1>5, <1>6, <1>7

\* Any element may be taken first.
LEMMA SumTakes ==
  ASSUME NEW f, NEW S, IsFiniteSet(S), \A x \in S : f[x] \in Nat
  PROVE  \A y \in S : Sum(f, S) = f[y] + Sum(f, S \ {y})
<1> DEFINE Uneven(s) == \E y \in s : Sum(f, s) # f[y] + Sum(f, s \ {y})
           Bad == {n \in Nat : \E s \in SUBSET S : Cardinality(s) = n /\ Uneven(s)}
<1>1. \A s \in SUBSET S : IsFiniteSet(s) /\ Cardinality(s) \in Nat
  BY FS_Subset, FS_CardinalityType
<1> SUFFICES ASSUME Bad # {}
             PROVE  FALSE
  BY <1>1
<1>2. PICK n \in Bad : \A k \in Bad : n <= k
  BY LeastNumber
<1>3. PICK s \in SUBSET S : Cardinality(s) = n /\ Uneven(s)
  BY <1>2
<1>4. PICK y \in s : Sum(f, s) # f[y] + Sum(f, s \ {y})
  BY <1>3
<1> DEFINE x == Chosen(s)
           t == s \ {x}
           u == s \ {y}
           v == s \ {x, y}
<1>5. s # {} /\ x \in s /\ t \in SUBSET S /\ Cardinality(t) \in Nat /\ Cardinality(t) = n - 1
  BY <1>1, <1>3, ChosenIsOne
<1>6. Sum(f, s) = f[x] + Sum(f, t) /\ x # y
  BY <1>1, <1>4, <1>5, SumUnfolds
<1>7. u \in SUBSET S /\ Cardinality(u) \in Nat /\ Cardinality(u) = n - 1
  BY <1>1, <1>3, FS_RemoveElement
<1>8. ~Uneven(t) /\ ~Uneven(u)
  <2>1. n - 1 \in Nat /\ n - 1 < n /\ n - 1 \notin Bad
    BY <1>2, <1>5
  <2> HIDE DEF Uneven
  <2> QED  BY <1>5, <1>7, <2>1
<1>9. Sum(f, t) = f[y] + Sum(f, v)
  <2>1. y \in t /\ t \ {y} = v
    BY <1>6
  <2> QED  BY <1>8, <2>1
<1>10. Sum(f, u) = f[x] + Sum(f, v)
  <2>1. x \in u /\ u \ {x} = v
    BY <1>5, <1>6
  <2> QED  BY <1>8, <2>1
<1>11. Sum(f, v) \in Nat /\ f[x] \in Nat /\ f[y] \in Nat
  BY <1>1, <1>5, SumIsNat
<1> HIDE DEF x, t, u, v
<1> QED  BY <1>4, <1>6, <1>9, <1>10, <1>11 DEF u

\* A sum of nothing but zeros, and only that, is zero.
LEMMA SumOfZeros ==
  ASSUME NEW f, NEW S, IsFiniteSet(S), \A x \in S : f[x] \in Nat, Sum(f, S) = 0
  PROVE  \A x \in S : f[x] = 0
<1> TAKE x \in S
<1>1. Sum(f, S) = f[x] + Sum(f, S \ {x})
  BY SumTakes
<1>2. Sum(f, S \ {x}) \in Nat
  <2>1. IsFiniteSet(S \ {x})
    BY FS_RemoveElement
  <2> QED  BY <2>1, SumIsNat
<1> QED  BY <1>1, <1>2

-----------------------------------------------------------------------------
(* Caps and the guard. *)

CapFields  == {"id", "key", "cap", "enabled"}
ProcFields == {"pc", "desired", "view", "call", "rows", "todo", "looked", "over"}
RunFields  == {"id", "scopes", "day", "use", "blocked"}

\* The rows of the caps are numbered as they came.
TableOk ==
  /\ \E n \in Nat : Budget!Ids(budgets) = 1 .. n
  /\ \A r, s \in budgets : r.id = s.id => r = s
  /\ \A r \in budgets :
       DOMAIN r = CapFields /\ Rank[r.key.scope] \in Nat /\ r.cap.action \in {"warn", "block"}

RunsOk ==
  /\ day \in Nat /\ IsFiniteSet(spentRuns)
  /\ \A r \in spentRuns : /\ DOMAIN r = RunFields /\ r.day \in Nat
                          /\ \A i \in DOMAIN Budget!Dimensions : r.use[i] \in Nat

\* A sync wants finitely many caps; the rows it read are still there, changed perhaps.
Syncing(me) ==
  /\ me.pc \in {"sync", "write"} =>
       /\ IsFiniteSet(DOMAIN me.desired)
       /\ \A k \in DOMAIN me.desired :
            Rank[k.scope] \in Nat /\ me.desired[k].action \in {"warn", "block"}
  /\ me.pc = "write" => \A q \in me.view : \E r \in budgets : r.id = q.id /\ r.key = q.key

\* The guard has looked at what is not to do any more, and let it pass.
Guarding(me) ==
  /\ \A r, s \in me.rows : r.id = s.id => r = s
  /\ \A r \in me.rows : Rank[r.key.scope] \in Nat /\ r.cap.action \in {"warn", "block"}
  /\ me.todo \subseteq me.rows
  /\ me.pc \in {"check", "admitted"} =>
       /\ DOMAIN me.looked = Budget!Ids(me.rows \ me.todo)
       /\ \A r \in me.rows \ me.todo : r.cap.action = "block" => ~Budget!Breaks(me, r)
  /\ me.pc = "admitted" => me.todo = {}
  /\ me.pc = "blocked" =>
       \E r \in Budget!BlockRows(me) :
         /\ r.id = me.over.row
         /\ Budget!Exceeds(r, me.looked[r.id], me.call.projected, me.over.dimension)
         /\ \A s \in Budget!BlockRows(me) :
              Rank[s.key.scope] < Rank[r.key.scope] => ~Budget!Breaks(me, s)

ProcOk(me) == DOMAIN me = ProcFields /\ Syncing(me) /\ Guarding(me)

BudgetInv ==
  /\ TableOk /\ Budget!OneRowPerKey /\ Budget!SyncEnforced /\ RunsOk
  /\ proc = [p \in Procs |-> proc[p]] /\ \A p \in Procs : ProcOk(proc[p])

LEMMA IdleProcOk == ProcOk(Budget!IdleProc)
BY DEF ProcOk, Syncing, Guarding, Budget!IdleProc, ProcFields

LEMMA BudgetStart ==
  ASSUME Budget!Init
  PROVE  BudgetInv
<1>1. TableOk
  <2>1. 0 \in Nat /\ Budget!Ids(budgets) = 1 .. 0
    BY DEF Budget!Init, Budget!Ids
  <2> QED  BY <2>1 DEF TableOk, Budget!Init
<1>2. Budget!OneRowPerKey /\ Budget!SyncEnforced
  BY DEF Budget!OneRowPerKey, Budget!SyncEnforced, Budget!Init
<1>3. RunsOk
  BY FS_EmptySet DEF RunsOk, Budget!Init
<1> QED  BY <1>1, <1>2, <1>3, IdleProcOk DEF BudgetInv, Budget!Init

\* One process moves, the tables do not.
LEMMA OneProcMoves ==
  ASSUME BudgetInv, NEW p \in Procs, NEW it, ProcOk(it), Budget!Set(p, it),
         UNCHANGED <<budgets, spentRuns, day, synced>>
  PROVE  BudgetInv'
<1>1. proc' = [proc EXCEPT ![p] = it]
  BY DEF Budget!Set
<1>2. \A me : ProcOk(me)' <=> ProcOk(me)
  BY DEF ProcOk, Syncing, Guarding
<1>3. \A q \in Procs : ProcOk(proc[q])'
  BY <1>1, <1>2 DEF BudgetInv
<1>4. (TableOk /\ Budget!OneRowPerKey /\ Budget!SyncEnforced /\ RunsOk)'
  BY DEF BudgetInv, TableOk, Budget!OneRowPerKey, Budget!SyncEnforced, RunsOk, Budget!Enabled
<1> QED  BY <1>1, <1>3, <1>4 DEF BudgetInv

LEMMA SyncBegins ==
  ASSUME BudgetInv, NEW p \in Procs, Budget!SyncBegin(p)
  PROVE  BudgetInv'
<1>1. UNCHANGED <<budgets, spentRuns, day, synced>>
  BY DEF Budget!SyncBegin
<1>2. CASE proc' = proc
  <2>1. proc' = [proc EXCEPT ![p] = proc[p]]
    BY <1>2 DEF BudgetInv
  <2> QED  BY <1>1, <2>1, OneProcMoves DEF BudgetInv, Budget!Set
<1>3. ASSUME NEW doc \in Budget!Loaded,
             Budget!Set(p, [Budget!IdleProc EXCEPT !.pc = Budget!Flattened(doc).pc,
                                                   !.desired = Budget!Flattened(doc).desired])
      PROVE  BudgetInv'
  <2> DEFINE it == [Budget!IdleProc EXCEPT !.pc = Budget!Flattened(doc).pc,
                                           !.desired = Budget!Flattened(doc).desired]
  <2>1. /\ Budget!Flattened(doc).pc \in {"idle", "sync"}
        /\ Budget!Flattened(doc).pc = "sync" =>
             /\ Budget!Flattened(doc).desired = doc.caps
             /\ \A k \in DOMAIN doc.caps : doc.caps[k] # None
    BY DEF Budget!Flattened, Budget!Malformed
  <2>2. /\ IsFiniteSet(DOMAIN doc.caps)
        /\ \A k \in DOMAIN doc.caps :
             /\ Rank[k.scope] \in Nat
             /\ doc.caps[k] # None => doc.caps[k].action \in {"warn", "block"}
    BY BudgetAssumption DEF Budget!DocAssumption, Budget!Loaded, Budget!IsFiniteSet, IsFiniteSet
  <2>3. /\ DOMAIN it = ProcFields /\ it.pc = Budget!Flattened(doc).pc
        /\ it.desired = Budget!Flattened(doc).desired
        /\ it.rows = {} /\ it.todo = {}
    BY DEF Budget!IdleProc, ProcFields
  <2>4. ProcOk(it)
    <3> HIDE DEF it
    <3> QED  BY <2>1, <2>2, <2>3 DEF ProcOk, Syncing, Guarding
  <2> HIDE DEF it
  <2>5. Budget!Set(p, it)
    BY <1>3 DEF it
  <2> QED  BY <1>1, <2>4, <2>5, OneProcMoves
<1> QED  BY <1>2, <1>3 DEF Budget!SyncBegin

LEMMA SyncReads ==
  ASSUME BudgetInv, NEW p \in Procs, Budget!SyncRead(p)
  PROVE  BudgetInv'
<1> DEFINE me == proc[p]
           it == [me EXCEPT !.view = budgets, !.pc = "write"]
<1>1. /\ ProcOk(me) /\ me.pc = "sync" /\ Budget!Set(p, it)
      /\ UNCHANGED <<budgets, spentRuns, day, synced>>
  BY DEF BudgetInv, Budget!SyncRead, Budget!At
<1> HIDE DEF me
<1>2. /\ DOMAIN it = ProcFields /\ it.pc = "write" /\ it.view = budgets /\ it.desired = me.desired
      /\ it.rows = me.rows /\ it.todo = me.todo
  BY <1>1 DEF ProcOk, ProcFields
<1> HIDE DEF it
<1>3. ProcOk(it)
  BY <1>1, <1>2 DEF ProcOk, Syncing, Guarding
<1> QED  BY <1>1, <1>3, OneProcMoves

LEMMA CheckBegins ==
  ASSUME BudgetInv, NEW p \in Procs, Budget!CheckBegin(p)
  PROVE  BudgetInv'
<1>1. PICK call \in Guarded, matching \in SUBSET budgets :
        Budget!Set(p, [Budget!IdleProc EXCEPT !.call = call, !.rows = matching,
                                              !.todo = matching, !.pc = "check"])
  <2>1. \A scopes : Budget!Matching(scopes) \in SUBSET budgets
    BY DEF Budget!Matching
  <2>2. {} \in SUBSET budgets
    OBVIOUS
  <2> QED  BY <2>1, <2>2 DEF Budget!CheckBegin
<1> DEFINE it == [Budget!IdleProc EXCEPT !.call = call, !.rows = matching,
                                         !.todo = matching, !.pc = "check"]
<1>2. /\ DOMAIN it = ProcFields /\ it.pc = "check" /\ it.rows = matching /\ it.todo = matching
      /\ it.looked = <<>>
  BY DEF Budget!IdleProc, ProcFields
<1>3. Budget!Set(p, it) /\ UNCHANGED <<budgets, spentRuns, day, synced>>
  BY <1>1 DEF Budget!CheckBegin
<1> HIDE DEF it
<1>4. DOMAIN it.looked = Budget!Ids(it.rows \ it.todo)
  BY <1>2 DEF Budget!Ids
<1>5. ProcOk(it)
  BY <1>1, <1>2, <1>4 DEF ProcOk, Syncing, Guarding, BudgetInv, TableOk
<1> QED  BY <1>3, <1>5, OneProcMoves

\* The first of several is one of them.
LEMMA FirstIsOne ==
  ASSUME NEW over \in SUBSET {1, 2, 3}, over # {}
  PROVE  Budget!Min(over) \in over
<1>1. over \in SUBSET Nat
  OBVIOUS
<1>2. \E m \in over : \A k \in over : m <= k
  BY <1>1, LeastNumber
<1> QED  BY <1>2 DEF Budget!Min

\* A row is looked at: the row is the first of those to do.
LEMMA LooksAt ==
  ASSUME NEW me, ProcOk(me), me.pc = "check", NEW row \in me.todo, NEW spent,
         \A other \in me.todo \ {row} : Budget!Before(row, other),
         NEW it, it = Budget!Looked(me, row, spent, Budget!Over(row, spent, me.call.projected))
  PROVE  ProcOk(it)
<1> DEFINE over == Budget!Over(row, spent, me.call.projected)
           looked == Budget!Noted(me.looked, row.id, spent)
<1>1. /\ DOMAIN me = ProcFields /\ me.todo \subseteq me.rows
      /\ DOMAIN me.looked = Budget!Ids(me.rows \ me.todo)
      /\ \A r, s \in me.rows : r.id = s.id => r = s
      /\ \A r \in me.rows : Rank[r.key.scope] \in Nat /\ r.cap.action \in {"warn", "block"}
      /\ \A r \in me.rows \ me.todo : r.cap.action = "block" => ~Budget!Breaks(me, r)
  BY DEF ProcOk, Guarding
<1>2. /\ DOMAIN looked = DOMAIN me.looked \cup {row.id} /\ looked[row.id] = spent
      /\ \A j \in DOMAIN me.looked : j # row.id => looked[j] = me.looked[j]
  BY DEF Budget!Noted
<1>3. \A i : i \in over <=> /\ i \in DOMAIN Budget!Dimensions
                            /\ Budget!Exceeds(row, spent, me.call.projected, i)
  BY DEF Budget!Over
<1>4. \A r \in me.rows \ me.todo : r.id \in DOMAIN me.looked /\ r.id # row.id
  BY <1>1 DEF Budget!Ids
<1>5. DOMAIN looked = Budget!Ids(me.rows \ (me.todo \ {row}))
  BY <1>1, <1>2 DEF Budget!Ids
<1>6. it = IF row.cap.action = "warn" \/ over = {}
             THEN [me EXCEPT !.todo = @ \ {row}, !.looked = looked]
             ELSE [me EXCEPT !.pc = "blocked", !.looked = looked,
                             !.over = [row |-> row.id, dimension |-> Budget!Min(over)]]
  BY DEF Budget!Looked
<1> HIDE DEF looked, over
<1>7. CASE row.cap.action = "warn" \/ over = {}
  <2>1. it = [me EXCEPT !.todo = @ \ {row}, !.looked = looked]
    BY <1>6, <1>7
  <2>2. /\ DOMAIN it = ProcFields /\ it.pc = "check" /\ it.rows = me.rows
        /\ it.todo = me.todo \ {row} /\ it.looked = looked /\ it.call = me.call
    BY <1>1, <2>1 DEF ProcFields
  <2>3. ASSUME NEW r \in it.rows \ it.todo, r.cap.action = "block"
        PROVE  ~Budget!Breaks(it, r)
    <3>1. CASE r = row
      <4>1. over = {}
        BY <1>7, <2>3, <3>1
      <4>2. \A i \in DOMAIN Budget!Dimensions :
              ~Budget!Exceeds(r, it.looked[r.id], it.call.projected, i)
        BY <1>2, <1>3, <2>2, <3>1, <4>1
      <4> QED  BY <4>2 DEF Budget!Breaks
    <3>2. CASE r # row
      <4>1. r \in me.rows \ me.todo
        BY <2>2, <3>2
      <4>2. it.looked[r.id] = me.looked[r.id] /\ ~Budget!Breaks(me, r) /\ r.id \in DOMAIN me.looked
        BY <1>1, <1>2, <1>4, <2>2, <2>3, <4>1
      <4> QED  BY <2>2, <4>2 DEF Budget!Breaks
    <3> QED  BY <3>1, <3>2
  <2>4. Guarding(it)
    BY <1>1, <1>5, <2>2, <2>3 DEF Guarding
  <2>5. Syncing(it)
    BY <2>2 DEF Syncing
  <2> QED  BY <2>2, <2>4, <2>5 DEF ProcOk
<1>8. CASE ~(row.cap.action = "warn" \/ over = {})
  <2> DEFINE first == Budget!Min(over)
  <2>1. it = [me EXCEPT !.pc = "blocked", !.looked = looked,
                        !.over = [row |-> row.id, dimension |-> first]]
    BY <1>6, <1>8
  <2>2. /\ DOMAIN it = ProcFields /\ it.pc = "blocked" /\ it.rows = me.rows
        /\ it.todo = me.todo /\ it.looked = looked /\ it.call = me.call
        /\ it.over.row = row.id /\ it.over.dimension = first
    BY <1>1, <2>1 DEF ProcFields
  <2>3. first \in over
    <3>1. over \in SUBSET {1, 2, 3}
      BY <1>3 DEF Budget!Dimensions
    <3> QED  BY <1>8, <3>1, FirstIsOne
  <2> HIDE DEF first
  <2>4. ASSUME NEW s \in Budget!BlockRows(it), Rank[s.key.scope] < Rank[row.key.scope]
        PROVE  ~Budget!Breaks(it, s)
    <3>1. s \in me.rows /\ s.cap.action = "block"
      BY <2>2 DEF Budget!BlockRows
    <3>2. s # row /\ ~Budget!Before(row, s)
      BY <1>1, <2>4, <3>1 DEF Budget!Before
    <3>3. s \in me.rows \ me.todo
      BY <3>1, <3>2
    <3>4. it.looked[s.id] = me.looked[s.id] /\ ~Budget!Breaks(me, s) /\ s.id \in DOMAIN me.looked
      BY <1>1, <1>2, <1>4, <2>2, <3>1, <3>3
    <3> QED  BY <2>2, <3>4 DEF Budget!Breaks
  <2>5. Budget!Exceeds(row, it.looked[row.id], it.call.projected, it.over.dimension)
    BY <1>2, <1>3, <2>2, <2>3
  <2>6. row \in Budget!BlockRows(it)
    BY <1>1, <1>8, <2>2 DEF Budget!BlockRows
  <2>7. Guarding(it)
    BY <1>1, <2>2, <2>4, <2>5, <2>6 DEF Guarding
  <2>8. Syncing(it)
    BY <2>2 DEF Syncing
  <2> QED  BY <2>2, <2>7, <2>8 DEF ProcOk
<1> QED  BY <1>7, <1>8

LEMMA ChecksRow ==
  ASSUME BudgetInv, NEW p \in Procs, Budget!CheckRow(p)
  PROVE  BudgetInv'
<1> DEFINE me == proc[p]
           done == [me EXCEPT !.pc = "admitted"]
<1>1. /\ ProcOk(me) /\ me.pc = "check" /\ UNCHANGED <<budgets, spentRuns, day, synced>>
      /\ \/ me.todo = {} /\ Budget!Set(p, done)
         \/ \E row \in me.todo :
              /\ \A other \in me.todo \ {row} : Budget!Before(row, other)
              /\ Budget!Set(p, Budget!Looked(me, row, Budget!Spent(row.key),
                                 Budget!Over(row, Budget!Spent(row.key), me.call.projected)))
  BY DEF BudgetInv, Budget!CheckRow, Budget!At
<1> HIDE DEF me
<1>2. CASE me.todo = {} /\ Budget!Set(p, done)
  <2>1. /\ DOMAIN done = ProcFields /\ done.pc = "admitted" /\ done.rows = me.rows
        /\ done.todo = me.todo /\ done.looked = me.looked /\ done.call = me.call
    BY <1>1 DEF ProcOk, ProcFields
  <2> HIDE DEF done
  <2>2. \A r : Budget!Breaks(done, r) <=> Budget!Breaks(me, r)
    BY <2>1 DEF Budget!Breaks
  <2>3. ProcOk(done)
    BY <1>1, <1>2, <2>1, <2>2 DEF ProcOk, Syncing, Guarding
  <2> QED  BY <1>1, <1>2, <2>3, OneProcMoves
<1>3. ASSUME NEW row \in me.todo, \A other \in me.todo \ {row} : Budget!Before(row, other),
             Budget!Set(p, Budget!Looked(me, row, Budget!Spent(row.key),
                             Budget!Over(row, Budget!Spent(row.key), me.call.projected)))
      PROVE  BudgetInv'
  <2> DEFINE spent == Budget!Spent(row.key)
             it == Budget!Looked(me, row, spent, Budget!Over(row, spent, me.call.projected))
  <2>1. ProcOk(it)
    BY <1>1, <1>3, LooksAt
  <2>2. Budget!Set(p, it)
    BY <1>3
  <2> HIDE DEF it
  <2> QED  BY <1>1, <2>1, <2>2, OneProcMoves
<1> QED  BY <1>1, <1>2, <1>3

\* The caps are not written.
LEMMA CapsStay ==
  ASSUME BudgetInv, UNCHANGED <<budgets, synced>>, RunsOk',
         proc' = [p \in Procs |-> proc'[p]], \A p \in Procs : ProcOk(proc'[p])
  PROVE  BudgetInv'
<1>1. \A me : ProcOk(me)' <=> ProcOk(me)
  BY DEF ProcOk, Syncing, Guarding
<1>2. \A p \in Procs : ProcOk(proc[p])'
  BY <1>1
<1>3. (TableOk /\ Budget!OneRowPerKey /\ Budget!SyncEnforced)'
  BY DEF BudgetInv, TableOk, Budget!OneRowPerKey, Budget!SyncEnforced, Budget!Enabled
<1> QED  BY <1>2, <1>3 DEF BudgetInv

LEMMA RunIsAdded ==
  ASSUME BudgetInv, NEW p \in Procs, NEW scopes, NEW use, NEW blocked,
         \A i \in DOMAIN Budget!Dimensions : use[i] \in Nat,
         spentRuns' = spentRuns \cup {Budget!Run(scopes, use, blocked)},
         Budget!Set(p, Budget!IdleProc), UNCHANGED <<budgets, day, synced>>
  PROVE  BudgetInv'
<1> DEFINE run == Budget!Run(scopes, use, blocked)
<1>1. /\ DOMAIN run = RunFields /\ run.day = day /\ run.use = use
  BY DEF Budget!Run, RunFields
<1> HIDE DEF run
<1>2. RunsOk'
  <2>1. spentRuns' = spentRuns \cup {run}
    BY DEF run
  <2>2. IsFiniteSet(spentRuns')
    BY <2>1, FS_AddElement DEF BudgetInv, RunsOk
  <2>3. \A r \in spentRuns' : r \in spentRuns \/ r = run
    BY <2>1
  <2> QED  BY <1>1, <2>2, <2>3 DEF BudgetInv, RunsOk
<1>3. proc' = [proc EXCEPT ![p] = Budget!IdleProc]
  BY DEF Budget!Set
<1>4. proc' = [q \in Procs |-> proc'[q]] /\ \A q \in Procs : ProcOk(proc'[q])
  BY <1>3, IdleProcOk DEF BudgetInv
<1> QED  BY <1>2, <1>4, CapsStay

LEMMA RecordsRun ==
  ASSUME BudgetInv, NEW p \in Procs, Budget!Record(p) \/ Budget!RecordBlocked(p)
  PROVE  BudgetInv'
<1>1. CASE Budget!Record(p)
  <2>1. PICK use \in Spendings :
          spentRuns' = spentRuns \cup {Budget!Run(proc[p].call.scopes, use, FALSE)}
    BY <1>1 DEF Budget!Record
  <2>2. \A i \in DOMAIN Budget!Dimensions : use[i] \in Nat
    BY BudgetAssumption DEF Budget!UseAssumption
  <2> QED  BY <1>1, <2>1, <2>2, RunIsAdded DEF Budget!Record
<1>2. CASE Budget!RecordBlocked(p)
  <2>1. \A i \in DOMAIN Budget!Dimensions : <<0, 0, 1>>[i] \in Nat
    BY DEF Budget!Dimensions
  <2> QED  BY <1>2, <2>1, RunIsAdded DEF Budget!RecordBlocked
<1> QED  BY <1>1, <1>2

\* A run of a purged job, and any other.
Purged(r) == IF r.day + PurgeDays <= day THEN [r EXCEPT !.scopes = @ \ OfJob] ELSE r

LEMMA PurgeKeepsRuns ==
  ASSUME RunsOk, NEW r \in spentRuns
  PROVE  /\ DOMAIN Purged(r) = RunFields /\ Purged(r).day = r.day /\ Purged(r).use = r.use
         /\ Purged(r).blocked = r.blocked
BY DEF RunsOk, Purged, RunFields

LEMMA PurgesJobs ==
  ASSUME BudgetInv, Budget!PurgeJobs
  PROVE  BudgetInv'
<1>1. spentRuns' = {Purged(r) : r \in spentRuns}
  BY DEF Budget!PurgeJobs, Purged
<1>2. IsFiniteSet(spentRuns')
  <2> DEFINE f == [r \in spentRuns |-> Purged(r)]
  <2>1. f \in Surjection(spentRuns, spentRuns')
    BY <1>1 DEF Surjection
  <2>2. IsFiniteSet(spentRuns)
    BY DEF BudgetInv, RunsOk
  <2> HIDE DEF f
  <2> QED  BY <2>1, <2>2, FS_Surjection
<1>3. day' = day /\ \A r \in spentRuns' : \E s \in spentRuns : r = Purged(s)
  BY <1>1 DEF Budget!PurgeJobs
<1>4. RunsOk'
  BY <1>2, <1>3, PurgeKeepsRuns DEF BudgetInv, RunsOk
<1> QED  BY <1>4, CapsStay DEF BudgetInv, Budget!PurgeJobs

LEMMA DayEnds ==
  ASSUME BudgetInv, Budget!NextDay
  PROVE  BudgetInv'
<1>1. RunsOk'
  BY DEF BudgetInv, RunsOk, Budget!NextDay
<1> QED  BY <1>1, CapsStay DEF BudgetInv, Budget!NextDay

LEMMA SameFiniteness == \A S : /\ Budget!Cardinality(S) = Cardinality(S)
                               /\ Budget!IsFiniteSet(S) <=> IsFiniteSet(S)
BY DEF Budget!Cardinality, Cardinality, Budget!IsFiniteSet, IsFiniteSet

\* A numbered table has as many rows as its last number.
LEMMA TableCount ==
  ASSUME TableOk, NEW n \in Nat, Budget!Ids(budgets) = 1 .. n
  PROVE  Budget!Cardinality(budgets) = n
<1> DEFINE f == [r \in budgets |-> r.id]
<1>1. f \in Surjection(budgets, 1 .. n)
  BY DEF Surjection, Budget!Ids
<1>2. f \in Injection(budgets, 1 .. n)
  BY DEF Injection, IsInjective, TableOk, Budget!Ids
<1>3. IsFiniteSet(1 .. n) /\ Cardinality(1 .. n) = n
  BY FS_Interval
<1> HIDE DEF f
<1>4. Cardinality(budgets) = Cardinality(1 .. n)
  BY <1>1, <1>2, <1>3, FS_Injection
<1> QED  BY <1>3, <1>4, SameFiniteness

\* SetToSeq lists each element once.
LEMMA ListsOnce ==
  ASSUME NEW S, IsFiniteSet(S)
  PROVE  LET order == Budget!SetToSeq(S)
         IN /\ order \in [1 .. Cardinality(S) -> S]
            /\ DOMAIN order = 1 .. Cardinality(S) /\ Cardinality(S) \in Nat
            /\ \A i \in DOMAIN order : order[i] \in S
            /\ \A x \in S : \E i \in DOMAIN order : order[i] = x
            /\ \A i, j \in DOMAIN order : order[i] = order[j] => i = j
<1> DEFINE n == Cardinality(S)
           order == Budget!SetToSeq(S)
<1>1. n \in Nat /\ ExistsBijection(1 .. n, S)
  BY FS_CardinalityType
<1>2. \E f \in [1 .. n -> S] : Budget!IsInjective(f)
  BY <1>1 DEF ExistsBijection, Bijection, Injection, IsInjective, Budget!IsInjective
<1>3. order \in [1 .. n -> S] /\ Budget!IsInjective(order)
  BY <1>2, SameFiniteness DEF Budget!SetToSeq
<1> HIDE DEF order
<1>4. order \in Injection(1 .. n, S)
  BY <1>3 DEF Budget!IsInjective, IsInjective, Injection
<1>5. IsFiniteSet(1 .. n) /\ Cardinality(1 .. n) = n
  BY <1>1, FS_Interval
<1>6. order \in Surjection(1 .. n, S)
  BY <1>4, <1>5, FS_Injection
<1>7. /\ DOMAIN order = 1 .. n /\ \A i \in DOMAIN order : order[i] \in S
      /\ \A x \in S : \E i \in DOMAIN order : order[i] = x
      /\ \A i, j \in DOMAIN order : order[i] = order[j] => i = j
  BY <1>3, <1>6 DEF Surjection, Budget!IsInjective
<1> QED  BY <1>1, <1>3, <1>7 DEF order

\* What a sync makes of a row, and what it adds.
Old(r, view, desired, pick) == Budget!Synced(r, pick, Budget!Dropped(view, desired), desired)
Unread(view, desired) == DOMAIN desired \ Budget!Known(view)
Added(view, desired)  == Budget!NewRows(Unread(view, desired), desired)

\* A sync that writes.
Writes(view, desired, pick) ==
  /\ IsFiniteSet(DOMAIN desired)
  /\ \A k \in DOMAIN desired : Rank[k.scope] \in Nat /\ desired[k].action \in {"warn", "block"}
  /\ \A q \in view : \E r \in budgets : r.id = q.id /\ r.key = q.key
  /\ ~Budget!Conflicts(Unread(view, desired))
  /\ pick \in Budget!Picks(view, desired)
  /\ budgets' = {Old(r, view, desired, pick) : r \in budgets} \cup Added(view, desired)

\* The rows that were there: same key, the wanted cap if picked, disabled if dropped.
Resynced(r, s, view, desired, pick) ==
  /\ DOMAIN s = CapFields /\ s.id = r.id /\ s.key = r.key
  /\ s.cap.action \in {"warn", "block"}
  /\ r.id \in Budget!Ids(pick) => s.enabled = TRUE /\ s.cap = desired[r.key]
  /\ r.id \notin Budget!Ids(pick) /\ r.id \in Budget!Ids(Budget!Dropped(view, desired)) =>
       s.enabled = FALSE
  /\ r.id \notin Budget!Ids(pick) /\ r.id \notin Budget!Ids(Budget!Dropped(view, desired)) =>
       s = r

LEMMA SyncsOld ==
  ASSUME TableOk, NEW view, NEW desired, NEW pick, Writes(view, desired, pick)
  PROVE  \A r \in budgets : /\ Old(r, view, desired, pick) \in budgets'
                            /\ Resynced(r, Old(r, view, desired, pick), view, desired, pick)
<1> TAKE r \in budgets
<1> DEFINE dropped == Budget!Dropped(view, desired)
           s == Old(r, view, desired, pick)
<1>1. DOMAIN r = CapFields /\ r.cap.action \in {"warn", "block"}
  BY DEF TableOk
<1>2. s \in budgets'
  BY DEF Writes
<1>3. s = IF r.id \in Budget!Ids(pick) THEN [r EXCEPT !.cap = desired[r.key], !.enabled = TRUE]
          ELSE IF r.id \in Budget!Ids(dropped) THEN [r EXCEPT !.enabled = FALSE] ELSE r
  BY DEF Old, Budget!Synced
<1>4. r.id \in Budget!Ids(pick) => r.key \in DOMAIN desired
  <2> SUFFICES ASSUME r.id \in Budget!Ids(pick)
               PROVE  r.key \in DOMAIN desired
    OBVIOUS
  <2>1. PICK q \in pick : q.id = r.id
    BY DEF Budget!Ids
  <2>2. q \in view /\ q.key \in DOMAIN desired
    BY DEF Writes, Budget!Picks
  <2>3. PICK t \in budgets : t.id = q.id /\ t.key = q.key
    BY <2>2 DEF Writes
  <2>4. t = r
    BY <2>1, <2>3 DEF TableOk
  <2> QED  BY <2>2, <2>3, <2>4
<1>5. r.key \in DOMAIN desired => desired[r.key].action \in {"warn", "block"}
  BY DEF Writes
<1> HIDE DEF s, dropped
<1>6. /\ DOMAIN s = CapFields /\ s.id = r.id /\ s.key = r.key
      /\ s.cap.action \in {"warn", "block"}
      /\ r.id \in Budget!Ids(pick) => s.enabled = TRUE /\ s.cap = desired[r.key]
      /\ r.id \notin Budget!Ids(pick) /\ r.id \in Budget!Ids(dropped) => s.enabled = FALSE
      /\ r.id \notin Budget!Ids(pick) /\ r.id \notin Budget!Ids(dropped) => s = r
  BY <1>1, <1>3, <1>4, <1>5 DEF CapFields
<1> QED  BY <1>2, <1>6 DEF s, dropped, Resynced

\* The rows that are added: one for each wanted key that was not read.
LEMMA SyncsNew ==
  ASSUME TableOk, NEW n \in Nat, Budget!Ids(budgets) = 1 .. n,
         NEW view, NEW desired, NEW pick, Writes(view, desired, pick)
  PROVE  /\ Cardinality(Unread(view, desired)) \in Nat
         /\ Budget!Ids(Added(view, desired)) = n + 1 .. n + Cardinality(Unread(view, desired))
         /\ \A r, s \in Added(view, desired) : r.id = s.id \/ r.key = s.key => r = s
         /\ \A r \in Added(view, desired) :
              /\ DOMAIN r = CapFields /\ r.key \in Unread(view, desired) /\ r.enabled = TRUE
              /\ r.cap = desired[r.key]
         /\ {r.key : r \in Added(view, desired)} = Unread(view, desired)
         /\ Added(view, desired) \subseteq budgets'
<1> DEFINE keys == Unread(view, desired)
           added == Added(view, desired)
           order == Budget!SetToSeq(keys)
           m == Cardinality(keys)
           row(i) == [id |-> n + i, key |-> order[i], cap |-> desired[order[i]], enabled |-> TRUE]
<1>1. IsFiniteSet(keys)
  BY FS_Subset DEF Writes, Unread
<1>2. /\ DOMAIN order = 1 .. m /\ m \in Nat
      /\ \A i \in DOMAIN order : order[i] \in keys
      /\ \A x \in keys : \E i \in DOMAIN order : order[i] = x
      /\ \A i, j \in DOMAIN order : order[i] = order[j] => i = j
  BY <1>1, ListsOnce
<1>3. added = {row(i) : i \in 1 .. m}
  <2>1. Budget!Cardinality(budgets) = n
    BY TableCount
  <2>2. added = {[id |-> Budget!Cardinality(budgets) + i, key |-> order[i],
                  cap |-> desired[order[i]], enabled |-> TRUE] : i \in DOMAIN order}
    BY DEF Added, Budget!NewRows
  <2> HIDE DEF order, added
  <2> QED  BY <1>2, <2>1, <2>2
<1>4. added \subseteq budgets'
  BY DEF Writes
<1> HIDE DEF added, keys, order, m
<1>5. \A i : row(i).id = n + i /\ row(i).key = order[i] /\ row(i).cap = desired[order[i]]
             /\ row(i).enabled = TRUE /\ DOMAIN row(i) = CapFields
  BY DEF CapFields
<1> HIDE DEF row
<1>6. Budget!Ids(added) = n + 1 .. n + m
  <2>1. \A i \in 1 .. m : n + i \in n + 1 .. n + m
    BY <1>2
  <2>2. \A j \in n + 1 .. n + m : j - n \in 1 .. m /\ n + (j - n) = j
    BY <1>2
  <2> QED  BY <1>3, <1>5, <2>1, <2>2 DEF Budget!Ids
<1>7. \A r, s \in added : r.id = s.id \/ r.key = s.key => r = s
  <2>1. \A i, j \in 1 .. m : n + i = n + j => i = j
    BY <1>2
  <2> QED  BY <1>2, <1>3, <1>5, <2>1
<1>8. \A r \in added : /\ DOMAIN r = CapFields /\ r.key \in keys /\ r.enabled = TRUE
                       /\ r.cap = desired[r.key]
  BY <1>2, <1>3, <1>5
<1>9. \A k \in keys : \E r \in added : r.key = k
  BY <1>2, <1>3, <1>5
<1>10. {r.key : r \in added} = keys
  BY <1>8, <1>9
<1> QED  BY <1>2, <1>4, <1>6, <1>7, <1>8, <1>10 DEF added, keys, m

\* Every row after a sync was there or is added.
LEMMA OldOrNew ==
  ASSUME NEW view, NEW desired, NEW pick, Writes(view, desired, pick), NEW t \in budgets'
  PROVE  \/ \E r \in budgets : t = Old(r, view, desired, pick)
         \/ t \in Added(view, desired)
BY DEF Writes

\* A sync keeps the numbering, and no row changes its key.
LEMMA SyncKeepsTable ==
  ASSUME TableOk, NEW view, NEW desired, NEW pick, Writes(view, desired, pick)
  PROVE  /\ TableOk'
         /\ \A r \in budgets : \E t \in budgets' : t.id = r.id /\ t.key = r.key
<1> DEFINE dropped == Budget!Dropped(view, desired)
           added == Added(view, desired)
           old(r) == Old(r, view, desired, pick)
<1>1. PICK n \in Nat : Budget!Ids(budgets) = 1 .. n
  BY DEF TableOk
<1>2. \A r \in budgets : /\ old(r) \in budgets' /\ DOMAIN old(r) = CapFields /\ old(r).id = r.id
                         /\ old(r).key = r.key /\ old(r).cap.action \in {"warn", "block"}
  <2>1. \A r \in budgets : /\ Old(r, view, desired, pick) \in budgets'
                           /\ Resynced(r, Old(r, view, desired, pick), view, desired, pick)
    BY SyncsOld
  <2> QED  BY <2>1 DEF Resynced
<1> DEFINE m == Cardinality(Unread(view, desired))
<1>3. m \in Nat /\ Budget!Ids(added) = n + 1 .. n + m
  BY <1>1, SyncsNew
<1>4. /\ \A r, s \in added : r.id = s.id => r = s
      /\ \A r \in added : DOMAIN r = CapFields /\ r.key \in DOMAIN desired /\ r.cap = desired[r.key]
      /\ added \subseteq budgets'
  BY <1>1, SyncsNew DEF Unread
<1>5. \A t \in budgets' : (\E r \in budgets : t = old(r)) \/ t \in added
  BY OldOrNew
<1> HIDE DEF old, added, dropped, m
<1>6. \A r \in budgets : r.id \in 1 .. n
  BY <1>1 DEF Budget!Ids
<1>7. \A r \in added : r.id \in n + 1 .. n + m
  BY <1>3 DEF Budget!Ids
<1>8. \A t, u \in budgets' : t.id = u.id => t = u
  <2>1. \A i \in 1 .. n : i \notin n + 1 .. n + m
    BY <1>1, <1>3
  <2>2. \A r, s \in budgets : r.id = s.id => r = s
    BY DEF TableOk
  <2> QED  BY <1>2, <1>4, <1>5, <1>6, <1>7, <2>1, <2>2
<1>9. Budget!Ids(budgets') = 1 .. n + m
  <2>1. \A i \in 1 .. n + m : i \in 1 .. n \/ i \in n + 1 .. n + m
    BY <1>1, <1>3
  <2>2. \A i : i \in 1 .. n \/ i \in n + 1 .. n + m => i \in 1 .. n + m
    BY <1>1, <1>3
  <2>3. \A i \in 1 .. n : \E t \in budgets' : t.id = i
    <3>1. \A i \in 1 .. n : \E r \in budgets : r.id = i
      BY <1>1 DEF Budget!Ids
    <3> QED  BY <1>2, <3>1
  <2>4. \A i \in n + 1 .. n + m : \E t \in budgets' : t.id = i
    <3>1. \A i \in n + 1 .. n + m : \E r \in added : r.id = i
      BY <1>3 DEF Budget!Ids
    <3> QED  BY <1>4, <3>1
  <2>5. \A t \in budgets' : t.id \in 1 .. n + m
    BY <1>2, <1>5, <1>6, <1>7, <2>2
  <2> QED  BY <2>1, <2>3, <2>4, <2>5 DEF Budget!Ids
<1>10. \A t \in budgets' : /\ DOMAIN t = CapFields /\ Rank[t.key.scope] \in Nat
                           /\ t.cap.action \in {"warn", "block"}
  <2>1. \A r \in budgets : Rank[r.key.scope] \in Nat
    BY DEF TableOk
  <2>2. \A k \in DOMAIN desired : Rank[k.scope] \in Nat /\ desired[k].action \in {"warn", "block"}
    BY DEF Writes
  <2> QED  BY <1>2, <1>4, <1>5, <2>1, <2>2
<1>11. n + m \in Nat
  BY <1>1, <1>3
<1>12. TableOk'
  BY <1>8, <1>9, <1>10, <1>11 DEF TableOk, Budget!Ids
<1> QED  BY <1>2, <1>12

\* A scope with a value gets no second row.
LEMMA SyncKeepsOne ==
  ASSUME TableOk, Budget!OneRowPerKey, NEW view, NEW desired, NEW pick, Writes(view, desired, pick)
  PROVE  Budget!OneRowPerKey'
<1> DEFINE dropped == Budget!Dropped(view, desired)
           keys == Unread(view, desired)
           added == Added(view, desired)
           old(r) == Old(r, view, desired, pick)
<1>1. PICK n \in Nat : Budget!Ids(budgets) = 1 .. n
  BY DEF TableOk
<1>2. \A r \in budgets : old(r).key = r.key
  <2>1. \A r \in budgets : /\ Old(r, view, desired, pick) \in budgets'
                           /\ Resynced(r, Old(r, view, desired, pick), view, desired, pick)
    BY SyncsOld
  <2> QED  BY <2>1 DEF Resynced
<1>3. /\ \A r, s \in added : r.key = s.key => r = s
      /\ \A r \in added : r.key \in keys
  BY <1>1, SyncsNew
<1>4. \A t \in budgets' : (\E r \in budgets : t = old(r)) \/ t \in added
  BY OldOrNew
<1>5. \A k \in keys : k.scope # Global => \A r \in budgets : r.key # k
  BY DEF Writes, Budget!Conflicts, Budget!Known, Unread
<1> HIDE DEF old, added, dropped, keys
<1>6. \A r, s \in budgets : r.key = s.key /\ r.key.scope # Global => r = s
  BY DEF Budget!OneRowPerKey
<1>7. \A t, u \in budgets' : t.key = u.key /\ t.key.scope # Global => t = u
  BY <1>2, <1>3, <1>4, <1>5, <1>6
<1> QED  BY <1>7 DEF Budget!OneRowPerKey

\* The wanted caps that rows of a table put in force.
Granted(table, wanted) ==
  {k \in DOMAIN wanted : \E t \in table : t.enabled = TRUE /\ t.key = k /\ t.cap = wanted[k]}

\* What a sync wants is enabled after it,
LEMMA SyncEnables ==
  ASSUME TableOk, NEW view, NEW desired, NEW pick, Writes(view, desired, pick)
  PROVE  DOMAIN desired \subseteq Granted(budgets', desired)
<1> SUFFICES ASSUME NEW k \in DOMAIN desired
             PROVE  \E t \in budgets' : t.enabled = TRUE /\ t.key = k /\ t.cap = desired[k]
  BY DEF Granted
<1> DEFINE dropped == Budget!Dropped(view, desired)
           keys == Unread(view, desired)
           added == Added(view, desired)
           old(r) == Old(r, view, desired, pick)
<1>1. PICK n \in Nat : Budget!Ids(budgets) = 1 .. n
  BY DEF TableOk
<1>2. \A r \in budgets :
        /\ old(r) \in budgets' /\ old(r).key = r.key
        /\ r.id \in Budget!Ids(pick) => old(r).enabled = TRUE /\ old(r).cap = desired[r.key]
  <2>1. \A r \in budgets : /\ Old(r, view, desired, pick) \in budgets'
                           /\ Resynced(r, Old(r, view, desired, pick), view, desired, pick)
    BY SyncsOld
  <2> QED  BY <2>1 DEF Resynced
<1>3. /\ \A r \in added : r.enabled = TRUE /\ r.cap = desired[r.key]
      /\ \A j \in keys : \E r \in added : r.key = j
      /\ added \subseteq budgets'
  <2>1. \A r \in added : r.enabled = TRUE /\ r.cap = desired[r.key]
    BY <1>1, SyncsNew
  <2>2. {r.key : r \in added} = keys
    BY <1>1, SyncsNew
  <2>3. added \subseteq budgets'
    BY <1>1, SyncsNew
  <2> QED  BY <2>1, <2>2, <2>3
<1> HIDE DEF old, added, dropped
<1>4. CASE k \in Budget!Known(view)
  <2>1. PICK q \in pick : q.key = k
    <3>1. Budget!Cardinality({r \in pick : r.key = k}) = 1
      BY <1>4 DEF Writes, Budget!Picks
    <3>2. {r \in pick : r.key = k} # {}
      BY <3>1, SameFiniteness, FS_EmptySet
    <3> QED  BY <3>2
  <2>2. q \in view
    BY DEF Writes, Budget!Picks
  <2>3. PICK r \in budgets : r.id = q.id /\ r.key = q.key
    BY <2>2 DEF Writes
  <2>4. r.id \in Budget!Ids(pick)
    BY <2>3 DEF Budget!Ids
  <2> QED  BY <1>2, <2>1, <2>3, <2>4
<1>5. CASE k \notin Budget!Known(view)
  BY <1>3, <1>5 DEF Unread
<1> QED  BY <1>4, <1>5

\* and nothing else is, if nobody wrote since it read.
LEMMA SyncDisables ==
  ASSUME TableOk, NEW desired, NEW pick, Writes(budgets, desired, pick), DOMAIN desired # {}
  PROVE  \A t \in budgets' : t.enabled => t.key \in DOMAIN desired
<1> DEFINE dropped == Budget!Dropped(budgets, desired)
           keys == Unread(budgets, desired)
           added == Added(budgets, desired)
           old(r) == Old(r, budgets, desired, pick)
<1>1. PICK n \in Nat : Budget!Ids(budgets) = 1 .. n
  BY DEF TableOk
<1>2. \A r \in added : r.key \in keys
  BY <1>1, SyncsNew
<1>3. \A t \in budgets' : (\E r \in budgets : t = old(r)) \/ t \in added
  BY OldOrNew
<1>4. ASSUME NEW r \in budgets, old(r).enabled
      PROVE  old(r).key \in DOMAIN desired
  <2>1. /\ old(r).key = r.key
        /\ r.id \notin Budget!Ids(pick) /\ r.id \in Budget!Ids(dropped) => old(r).enabled = FALSE
        /\ r.id \notin Budget!Ids(pick) /\ r.id \notin Budget!Ids(dropped) => old(r) = r
      <3>1. \A q \in budgets : Resynced(q, Old(q, budgets, desired, pick), budgets, desired, pick)
      BY SyncsOld
    <3> QED  BY <3>1 DEF Resynced
  <2>2. r.id \in Budget!Ids(pick) => r.key \in DOMAIN desired
    BY DEF Writes, Budget!Picks, Budget!Ids, TableOk
  <2>3. r.enabled /\ r.key \notin DOMAIN desired => r \in dropped
    BY DEF Budget!Dropped
  <2>4. r \in dropped => r.id \in Budget!Ids(dropped)
    BY DEF Budget!Ids
  <2> HIDE DEF old, dropped
  <2> QED  BY <1>4, <2>1, <2>2, <2>3, <2>4
<1> HIDE DEF old, added, dropped
<1> QED  BY <1>2, <1>3, <1>4 DEF keys, Unread

\* SyncWrite writes unless the unique key refuses.
LEMMA WriteFacts ==
  ASSUME BudgetInv, NEW p \in Procs, Budget!SyncWrite(p)
  PROVE  /\ Budget!Set(p, Budget!IdleProc) /\ UNCHANGED <<spentRuns, day>>
         /\ \/ UNCHANGED <<budgets, synced>>
            \/ \E pick \in SUBSET proc[p].view :
                 /\ Writes(proc[p].view, proc[p].desired, pick)
                 /\ synced' = IF proc[p].view = budgets /\ DOMAIN proc[p].desired # {}
                              THEN proc[p].desired ELSE <<>>
<1> DEFINE view == proc[p].view
           desired == proc[p].desired
<1>1. proc[p].pc = "write" /\ ProcOk(proc[p])
  BY DEF Budget!SyncWrite, Budget!At, BudgetInv
<1>2. /\ IsFiniteSet(DOMAIN desired)
      /\ \A k \in DOMAIN desired : Rank[k.scope] \in Nat /\ desired[k].action \in {"warn", "block"}
      /\ \A q \in view : \E r \in budgets : r.id = q.id /\ r.key = q.key
  BY <1>1 DEF ProcOk, Syncing
<1>3. Budget!Set(p, Budget!IdleProc) /\ UNCHANGED <<spentRuns, day>>
  BY DEF Budget!SyncWrite
<1>4. CASE Budget!Conflicts(Unread(view, desired))
  BY <1>3, <1>4 DEF Budget!SyncWrite, Unread
<1>5. CASE ~Budget!Conflicts(Unread(view, desired))
  <2>1. PICK pick \in Budget!Picks(view, desired) :
          /\ budgets' = {Old(r, view, desired, pick) : r \in budgets} \cup Added(view, desired)
          /\ synced' = IF view = budgets /\ DOMAIN desired # {} THEN desired ELSE <<>>
    BY <1>5 DEF Budget!SyncWrite, Old, Added, Unread
  <2>2. pick \in SUBSET view
    BY DEF Budget!Picks
  <2>3. Writes(view, desired, pick)
    BY <1>2, <1>5, <2>1 DEF Writes
  <2> QED  BY <1>3, <2>1, <2>2, <2>3
<1> QED  BY <1>4, <1>5

\* What was wanted is in force.
Enforced(table, wanted) ==
  DOMAIN wanted # {} =>
    /\ \A r \in table : r.enabled => r.key \in DOMAIN wanted
    /\ \A k \in DOMAIN wanted : \E r \in table : r.enabled /\ r.key = k /\ r.cap = wanted[k]

LEMMA EnforcedIs == Budget!SyncEnforced <=> Enforced(budgets, synced)
<1>1. {r.key : r \in Budget!Enabled} = DOMAIN synced <=>
        /\ \A r \in budgets : r.enabled => r.key \in DOMAIN synced
        /\ \A k \in DOMAIN synced : \E r \in budgets : r.enabled /\ r.key = k
  BY DEF Budget!Enabled
<1>2. \A r : r \in Budget!Enabled <=> r \in budgets /\ r.enabled
  BY DEF Budget!Enabled
<1> QED  BY <1>1, <1>2 DEF Budget!SyncEnforced, Enforced

LEMMA EnforcedIsThen == Budget!SyncEnforced' <=> Enforced(budgets', synced')
<1>1. {r.key : r \in Budget!Enabled'} = DOMAIN synced' <=>
        /\ \A r \in budgets' : r.enabled => r.key \in DOMAIN synced'
        /\ \A k \in DOMAIN synced' : \E r \in budgets' : r.enabled /\ r.key = k
  BY DEF Budget!Enabled
<1>2. \A r : r \in Budget!Enabled' <=> r \in budgets' /\ r.enabled
  BY DEF Budget!Enabled
<1> QED  BY <1>1, <1>2 DEF Budget!SyncEnforced, Enforced

LEMMA SyncWrites ==
  ASSUME BudgetInv, NEW p \in Procs, Budget!SyncWrite(p)
  PROVE  BudgetInv'
<1> DEFINE view == proc[p].view
           desired == proc[p].desired
<1>1. Budget!Set(p, Budget!IdleProc) /\ UNCHANGED <<spentRuns, day>>
  BY WriteFacts
<1>2. CASE UNCHANGED <<budgets, synced>>
  BY <1>1, <1>2, IdleProcOk, OneProcMoves
<1>3. ASSUME NEW pick \in SUBSET view, Writes(view, desired, pick),
             synced' = IF view = budgets /\ DOMAIN desired # {} THEN desired ELSE <<>>
      PROVE  BudgetInv'
  <2>1. TableOk /\ Budget!OneRowPerKey
    BY DEF BudgetInv
  <2>2. TableOk' /\ \A r \in budgets : \E t \in budgets' : t.id = r.id /\ t.key = r.key
    BY <1>3, <2>1, SyncKeepsTable
  <2>3. Budget!OneRowPerKey'
    BY <1>3, <2>1, SyncKeepsOne
  <2>4. Enforced(budgets', synced')
    <3>1. CASE view = budgets /\ DOMAIN desired # {}
      <4>1. synced' = desired /\ Writes(budgets, desired, pick)
        BY <1>3, <3>1
      <4>2. \A t \in budgets' : t.enabled => t.key \in DOMAIN desired
        BY <2>1, <3>1, <4>1, SyncDisables
      <4>3. \A k \in DOMAIN desired : \E t \in budgets' :
              t.enabled = TRUE /\ t.key = k /\ t.cap = desired[k]
        <5>1. DOMAIN desired \subseteq Granted(budgets', desired)
          BY <1>3, <2>1, SyncEnables
        <5> QED  BY <5>1 DEF Granted
      <4> QED  BY <4>1, <4>2, <4>3 DEF Enforced
    <3>2. CASE ~(view = budgets /\ DOMAIN desired # {})
      <4>1. synced' = <<>>
        BY <1>3, <3>2
      <4> QED  BY <4>1 DEF Enforced
    <3> QED  BY <3>1, <3>2
  <2>5. Budget!SyncEnforced'
    BY <2>4, EnforcedIsThen
  <2>6. RunsOk'
    BY <1>1 DEF BudgetInv, RunsOk
  <2>7. proc' = [proc EXCEPT ![p] = Budget!IdleProc]
    BY <1>1 DEF Budget!Set
  <2>8. \A me : ProcOk(me) => ProcOk(me)'
    <3>1. \A me : Guarding(me) => Guarding(me)'
      BY DEF Guarding
    <3>2. \A me : Syncing(me) => Syncing(me)'
      BY <2>2 DEF Syncing
    <3> QED  BY <3>1, <3>2 DEF ProcOk
  <2>9. /\ proc' = [q \in Procs |-> proc'[q]] /\ \A q \in Procs : ProcOk(proc[q])'
    <3>1. \A q \in Procs : ProcOk(proc[q])
      BY DEF BudgetInv
    <3>2. /\ proc' = [q \in Procs |-> proc'[q]] 
          /\ \A q \in Procs : proc'[q] = proc[q] \/ proc'[q] = Budget!IdleProc
      BY <2>7 DEF BudgetInv
    <3> QED  BY <2>8, <3>1, <3>2, IdleProcOk
  <2> QED  BY <2>2, <2>3, <2>5, <2>6, <2>9 DEF BudgetInv
<1> QED  BY <1>2, <1>3, WriteFacts

LEMMA BudgetStep ==
  ASSUME BudgetInv, [Budget!Next]_Budget!vars
  PROVE  BudgetInv'
<1>1. CASE UNCHANGED Budget!vars
  <2>1. RunsOk'
    BY <1>1 DEF BudgetInv, RunsOk, Budget!vars
  <2> QED  BY <1>1, <2>1, CapsStay DEF BudgetInv, Budget!vars
<1>2. ASSUME NEW p \in Procs,
             \/ Budget!SyncBegin(p) \/ Budget!SyncRead(p) \/ Budget!SyncWrite(p)
             \/ Budget!CheckBegin(p) \/ Budget!CheckRow(p)
             \/ Budget!Record(p) \/ Budget!RecordBlocked(p)
      PROVE  BudgetInv'
  BY <1>2, SyncBegins, SyncReads, SyncWrites, CheckBegins, ChecksRow, RecordsRun
<1>3. CASE Budget!PurgeJobs
  BY <1>3, PurgesJobs
<1>4. CASE Budget!NextDay
  BY <1>4, DayEnds
<1> QED  BY <1>1, <1>2, <1>3, <1>4 DEF Budget!Next

LEMMA BudgetSound ==
  ASSUME BudgetInv
  PROVE  CapsAreInForce
<1>1. ASSUME NEW p \in Procs
      PROVE  LET me == proc[p]
             IN /\ Budget!At(p, "admitted") =>
                     /\ DOMAIN me.looked = Budget!Ids(me.rows)
                     /\ ~ \E r \in Budget!BlockRows(me) : Budget!Breaks(me, r)
                /\ Budget!At(p, "blocked") =>
                     \E r \in Budget!BlockRows(me) :
                       /\ r.id = me.over.row
                       /\ Budget!Exceeds(r, me.looked[r.id], me.call.projected, me.over.dimension)
                       /\ \A s \in Budget!BlockRows(me) :
                            Rank[s.key.scope] < Rank[r.key.scope] => ~Budget!Breaks(me, s)
  <2> DEFINE me == proc[p]
  <2>1. Guarding(me)
    BY DEF BudgetInv, ProcOk
  <2> HIDE DEF me
  <2>2. me.pc = "admitted" => /\ DOMAIN me.looked = Budget!Ids(me.rows)
                              /\ ~ \E r \in Budget!BlockRows(me) : Budget!Breaks(me, r)
    <3> SUFFICES ASSUME me.pc = "admitted"
                 PROVE  /\ DOMAIN me.looked = Budget!Ids(me.rows)
                        /\ ~ \E r \in Budget!BlockRows(me) : Budget!Breaks(me, r)
      OBVIOUS
    <3>1. me.rows \ me.todo = me.rows
      BY <2>1 DEF Guarding
    <3> QED  BY <2>1, <3>1 DEF Guarding, Budget!BlockRows
  <2> QED  BY <2>1, <2>2 DEF Budget!At, Guarding, me
<1> QED  BY <1>1 DEF CapsAreInForce, Budget!CapsAreInForce, Budget!VerdictSound, BudgetInv

\* A sync never drops every cap.
LEMMA NeverUncaps ==
  ASSUME BudgetInv, [Budget!Next]_Budget!vars, Budget!Enabled # {}
  PROVE  Budget!Enabled' # {}
<1>1. CASE UNCHANGED budgets
  BY <1>1 DEF Budget!Enabled
<1>2. ASSUME NEW p \in Procs, Budget!SyncWrite(p)
      PROVE  Budget!Enabled' # {}
  <2> DEFINE view == proc[p].view
             desired == proc[p].desired
  <2>1. CASE UNCHANGED budgets
    BY <2>1 DEF Budget!Enabled
  <2>2. ASSUME NEW pick \in SUBSET view, Writes(view, desired, pick)
        PROVE  Budget!Enabled' # {}
    <3>1. TableOk
      BY DEF BudgetInv
    <3>2. CASE DOMAIN desired = {}
      <4>1. PICK r \in budgets : r.enabled
        BY DEF Budget!Enabled
      <4>2. /\ Old(r, view, desired, pick) \in budgets'
            /\ Resynced(r, Old(r, view, desired, pick), view, desired, pick)
        BY <2>2, <3>1, SyncsOld
      <4>3. pick = {} /\ Budget!Dropped(view, desired) = {}
        BY <2>2, <3>2 DEF Writes, Budget!Picks, Budget!Dropped
      <4>4. Old(r, view, desired, pick) = r
        BY <4>2, <4>3 DEF Resynced, Budget!Ids
      <4> QED  BY <4>1, <4>2, <4>4 DEF Budget!Enabled
    <3>3. CASE DOMAIN desired # {}
      <4>1. DOMAIN desired \subseteq Granted(budgets', desired)
        BY <2>2, <3>1, SyncEnables
      <4>2. PICK t \in budgets' : t.enabled = TRUE
        BY <3>3, <4>1 DEF Granted
      <4> QED  BY <4>2 DEF Budget!Enabled
    <3> QED  BY <3>2, <3>3
  <2> QED  BY <1>2, <2>1, <2>2, WriteFacts
<1> QED  BY <1>1, <1>2 DEF Budget!Next, Budget!vars, Budget!SyncBegin, Budget!SyncRead,
     Budget!CheckBegin, Budget!CheckRow, Budget!Record, Budget!RecordBlocked, Budget!PurgeJobs,
     Budget!NextDay

\* Days that are a month apart are of different months.
LEMMA MonthsPass ==
  ASSUME NEW a \in Nat, NEW b \in Nat, NEW d \in Nat \ {0}, a + d <= b
  PROVE  a \div d # b \div d
<1> DEFINE q == a \div d
           r == b \div d
<1>1. q \in Int /\ r \in Int /\ a < d * q + d /\ d * r <= b /\ b < d * r + d /\ d * q <= a
  OBVIOUS
<1> HIDE DEF q, r
<1>2. q # r
  BY <1>1
<1> QED  BY <1>2 DEF q, r

\* A run that a purge may touch is of a period that is over.
LEMMA PurgedIsPast ==
  ASSUME RunsOk, NEW r \in spentRuns, r.day + PurgeDays <= day, NEW period
  PROVE  Budget!PeriodOf(period, r.day) # Budget!PeriodOf(period, day)
<1>1. /\ r.day \in Nat /\ day \in Nat
      /\ DaysPerMonth \in Nat \ {0} /\ PurgeDays \in Nat /\ PurgeDays >= DaysPerMonth
  BY BudgetAssumption DEF RunsOk, Budget!PurgeAssumption
<1>2. r.day + DaysPerMonth <= day /\ r.day # day
  BY <1>1
<1> QED  BY <1>1, <1>2, MonthsPass DEF Budget!PeriodOf

\* What runs spent, added up.
Used(group, i) == Sum([r \in group |-> r.use[i]], group)

\* The runs of a budget are runs, with usage that adds up.
LEMMA CountedAreRuns ==
  ASSUME RunsOk, NEW key
  PROVE  /\ IsFiniteSet(Budget!Counted(key))
         /\ \A r \in Budget!Counted(key) : \A i \in DOMAIN Budget!Dimensions : r.use[i] \in Nat
<1>1. Budget!Counted(key) \subseteq spentRuns
  BY DEF Budget!Counted
<1>2. IsFiniteSet(Budget!Counted(key))
  BY <1>1, FS_Subset DEF RunsOk
<1> QED  BY <1>1, <1>2 DEF RunsOk

\* One run more.
LEMMA UsedGrows ==
  ASSUME NEW S, NEW run, NEW i, IsFiniteSet(S), run \notin S, run.use[i] \in Nat,
         \A r \in S : r.use[i] \in Nat
  PROVE  Used(S, i) \in Nat /\ Used(S \cup {run}, i) = run.use[i] + Used(S, i)
<1> DEFINE more == S \cup {run}
           f == [r \in S |-> r.use[i]]
           g == [r \in more |-> r.use[i]]
<1>1. IsFiniteSet(more) /\ run \in more /\ more \ {run} = S
  BY FS_AddElement
<1>2. /\ \A r \in S : f[r] \in Nat /\ g[r] = f[r]
      /\ \A r \in more : g[r] \in Nat
      /\ g[run] = run.use[i]
  OBVIOUS
<1>3. Used(S, i) = Sum(f, S) /\ Used(more, i) = Sum(g, more)
  BY DEF Used
<1> HIDE DEF f, g, more
<1>4. Sum(g, more) = g[run] + Sum(g, more \ {run})
  BY <1>1, <1>2, SumTakes
<1>5. Sum(g, S) = Sum(f, S)
  BY <1>2, SumAgrees
<1>6. Sum(f, S) \in Nat
  BY <1>2, SumIsNat
<1> QED  BY <1>1, <1>2, <1>3, <1>4, <1>5, <1>6 DEF more

\* What was counted before the next step and what is after it.
Before(key) == Budget!Counted(key)
After(key)  ==
  {r \in spentRuns' :
     /\ Budget!Covers(key.scope, r.scopes) /\ ~r.blocked
     /\ Budget!PeriodOf(key.period, r.day) = Budget!PeriodOf(key.period, day')}

LEMMA SpentAfter ==
  ASSUME NEW key
  PROVE  /\ Budget!Spent(key)' = [i \in DOMAIN Budget!Dimensions |-> Used(After(key), i)]
         /\ Budget!Spent(key) = [i \in DOMAIN Budget!Dimensions |-> Used(Before(key), i)]
<1>1. Budget!Counted(key)' = After(key)
  BY DEF Budget!Counted, After, Budget!Covers, Budget!PeriodOf
<1>2. /\ Budget!Spent(key)' = [i \in DOMAIN Budget!Dimensions |->
                                Budget!SumFunction([r \in Budget!Counted(key)' |-> r.use[i]])]
      /\ Budget!Spent(key) = [i \in DOMAIN Budget!Dimensions |->
                                Budget!SumFunction([r \in Budget!Counted(key) |-> r.use[i]])]
  BY DEF Budget!Spent, Budget!Dimensions
<1>3. \A group, i : Budget!SumFunction([r \in group |-> r.use[i]]) = Used(group, i)
  BY DEF Used, Sum, Budget!SumFunction, Budget!SumFunctionOnSet, Budget!FoldFunctionOnSet,
         Budget!MapThenFoldSet, SumFunctionOnSet, FoldFunctionOnSet, MapThenFoldSet
<1> QED  BY <1>1, <1>2, <1>3 DEF Before

\* Spent, before and after a step.
Grows(key) ==
  \/ Budget!Spent(key)' = Budget!Spent(key)
  \/ /\ \A i \in DOMAIN Budget!Dimensions : Budget!Spent(key)'[i] >= Budget!Spent(key)[i]
     /\ \E p \in Procs : Budget!At(p, "admitted") /\ Budget!At(p, "idle")'

LEMMA SameCounted ==
  ASSUME NEW key, After(key) = Before(key)
  PROVE  Grows(key)
BY SpentAfter DEF Grows

LEMMA RecordedCounts ==
  ASSUME BudgetInv, NEW p \in Procs, Budget!Record(p), spentRuns' # spentRuns, NEW key
  PROVE  Grows(key)
<1>1. PICK use \in Spendings :
        spentRuns' = spentRuns \cup {Budget!Run(proc[p].call.scopes, use, FALSE)}
  BY DEF Budget!Record
<1> DEFINE run == Budget!Run(proc[p].call.scopes, use, FALSE)
<1>2. run \notin spentRuns /\ spentRuns' = spentRuns \cup {run} /\ day' = day
  BY <1>1 DEF Budget!Record
<1>3. run.use = use /\ \A i \in DOMAIN Budget!Dimensions : use[i] \in Nat
  BY BudgetAssumption DEF Budget!UseAssumption, Budget!Run
<1>4. Budget!At(p, "admitted") /\ Budget!At(p, "idle")'
  BY DEF Budget!Record, Budget!At, Budget!Set, Budget!IdleProc, BudgetInv
<1> HIDE DEF run
<1>5. After(key) = Before(key) \/ After(key) = Before(key) \cup {run}
  BY <1>2 DEF After, Before, Budget!Counted
<1>6. CASE After(key) = Before(key)
  BY <1>6, SameCounted
<1>7. CASE After(key) = Before(key) \cup {run}
  <2>1. run \notin Before(key)
    BY <1>2 DEF Before, Budget!Counted
  <2>2. RunsOk
    BY DEF BudgetInv
  <2>3. /\ IsFiniteSet(Before(key))
        /\ \A r \in Before(key) : \A i \in DOMAIN Budget!Dimensions : r.use[i] \in Nat
    BY <2>2, CountedAreRuns DEF Before
  <2>4. ASSUME NEW i \in DOMAIN Budget!Dimensions
        PROVE  Used(After(key), i) >= Used(Before(key), i)
    <3>1. run.use[i] \in Nat /\ \A r \in Before(key) : r.use[i] \in Nat
      BY <1>3, <2>3
    <3>2. /\ Used(Before(key), i) \in Nat
          /\ Used(Before(key) \cup {run}, i) = run.use[i] + Used(Before(key), i)
      BY <2>1, <2>3, <3>1, UsedGrows
    <3> QED  BY <1>7, <3>1, <3>2
  <2>5. \A i \in DOMAIN Budget!Dimensions : Budget!Spent(key)'[i] >= Budget!Spent(key)[i]
    BY <2>4, SpentAfter
  <2> QED  BY <1>4, <2>5 DEF Grows
<1> QED  BY <1>5, <1>6, <1>7

LEMMA StoppedDoesNot ==
  ASSUME NEW p \in Procs, Budget!RecordBlocked(p), NEW key
  PROVE  Grows(key)
<1> DEFINE run == Budget!Run(proc[p].call.scopes, <<0, 0, 1>>, TRUE)
<1>1. spentRuns' = spentRuns \cup {run} /\ day' = day
  BY DEF Budget!RecordBlocked
<1>2. run.blocked = TRUE
  BY DEF Budget!Run
<1> HIDE DEF run
<1>3. After(key) = Before(key)
  BY <1>1, <1>2 DEF After, Before, Budget!Counted
<1> QED  BY <1>3, SameCounted

LEMMA PurgedIsKept ==
  ASSUME BudgetInv, Budget!PurgeJobs, NEW key
  PROVE  Grows(key)
<1>1. spentRuns' = {Purged(r) : r \in spentRuns} /\ day' = day
  BY DEF Budget!PurgeJobs, Purged
<1>2. \A r \in spentRuns : Purged(r).day = r.day
  BY PurgeKeepsRuns DEF BudgetInv
<1>3. \A r \in spentRuns : Budget!PeriodOf(key.period, r.day) = Budget!PeriodOf(key.period, day)
                             => Purged(r) = r
  BY PurgedIsPast DEF BudgetInv, Purged
<1>4. After(key) = Before(key)
  <2>1. \A r \in After(key) : r \in Before(key)
    BY <1>1, <1>2, <1>3 DEF After, Before, Budget!Counted
  <2>2. \A r \in Before(key) : r \in After(key)
    BY <1>1, <1>3 DEF After, Before, Budget!Counted
  <2> QED  BY <2>1, <2>2
<1> QED  BY <1>4, SameCounted

\* Spend is what was called.
LEMMA SpendGrows ==
  ASSUME BudgetInv, [Budget!Next]_Budget!vars, spentRuns' # spentRuns, NEW b \in budgets
  PROVE  Grows(b.key)
BY RecordedCounts, StoppedDoesNot, PurgedIsKept DEF Budget!Next, Budget!vars, Budget!SyncBegin,
   Budget!SyncRead, Budget!SyncWrite, Budget!CheckBegin, Budget!CheckRow, Budget!NextDay

-----------------------------------------------------------------------------
(* Prices. *)

Listed       == Listable \X Prices
CallerFields == {"pc", "model", "row", "found", "projected", "warned"}

RatesOk ==
  /\ time \in Nat
  /\ \A r \in rates : r.from \in Nat /\ r.price \in Prices
  /\ registered \in [Pricing!Providers -> Seq(Listed)]

PricedOk == IsSeq(pricedRuns) /\ \A i \in DOMAIN pricedRuns : pricedRuns[i].cost \in Nat

\* A run of a model that was free.
WasFree(m) == \E i \in DOMAIN pricedRuns :
                pricedRuns[i].model = m /\ pricedRuns[i].ok /\ pricedRuns[i].cost = 0

PricerOk(me) ==
  /\ DOMAIN me = CallerFields
  /\ me.pc = "upsert" => me.row.from \in Nat /\ me.row.price \in Prices
  /\ 0 \notin Prices /\ Pricing!Silent(me) => WasFree(me.model)

PricingInv ==
  /\ RatesOk /\ PricedOk
  /\ pricer = [c \in Pricers |-> pricer[c]] /\ \A c \in Pricers : PricerOk(pricer[c])

LEMMA PricesAreNat == Prices \subseteq Nat /\ None \notin Nat
BY PricingAssumption DEF Pricing!PriceAssumption, Pricing!NoneAssumption

LEMMA IdlePricerOk == PricerOk(Pricing!IdleCaller)
BY DEF PricerOk, Pricing!IdleCaller, CallerFields, Pricing!Silent

LEMMA PricingStart ==
  ASSUME Pricing!Init
  PROVE  PricingInv
<1>1. RatesOk
  BY DEF RatesOk, Pricing!Init
<1>2. PricedOk
  BY DEF PricedOk, IsSeq, Pricing!Init
<1> QED  BY <1>1, <1>2, IdlePricerOk DEF PricingInv, Pricing!Init

\* The rate in effect is a rate, and its price a price.
LEMMA RateIsPrice ==
  ASSUME RatesOk, NEW m
  PROVE  Pricing!GetEffective(m) \in Prices \cup {None}
<1> DEFINE today == Pricing!DayOf(time)
           inForce == Pricing!InEffect(m)
<1>1. today \in Nat
  BY DEF RatesOk, Pricing!DayOf
<1>2. \A r \in inForce : r.from \in Nat /\ r.from <= today /\ r.price \in Prices
  BY DEF RatesOk, Pricing!InEffect
<1>3. Pricing!GetEffective(m) =
        IF inForce = {} THEN None
        ELSE (CHOOSE r \in inForce : \A s \in inForce : r.from >= s.from).price
  BY DEF Pricing!GetEffective
<1> HIDE DEF inForce, today
<1>4. CASE inForce = {}
  BY <1>3, <1>4
<1>5. CASE inForce # {}
  <2> DEFINE ages == {today - r.from : r \in inForce}
  <2>1. ages \in SUBSET Nat /\ ages # {}
    BY <1>1, <1>2, <1>5
  <2>2. PICK least \in ages : \A k \in ages : least <= k
    BY <2>1, LeastNumber
  <2>3. PICK r \in inForce : least = today - r.from
    BY <2>2
  <2>4. \A s \in inForce : r.from >= s.from
    BY <1>1, <1>2, <2>2, <2>3
  <2> QED  BY <1>2, <1>3, <1>5, <2>4
<1> QED  BY <1>4, <1>5

\* The first of several places is one of them.
LEMMA FirstIsPlace ==
  ASSUME NEW places, \A at \in places : at[1] \in Nat /\ at[2] \in Nat, places # {}
  PROVE  Pricing!First(places) \in places
<1> DEFINE tables == {at[1] : at \in places}
<1>1. tables \in SUBSET Nat /\ tables # {}
  OBVIOUS
<1>2. PICK t \in tables : \A u \in tables : t <= u
  BY <1>1, LeastNumber
<1> DEFINE lines == {at[2] : at \in {x \in places : x[1] = t}}
<1>3. lines \in SUBSET Nat /\ lines # {}
  BY <1>2
<1>4. PICK l \in lines : \A k \in lines : l <= k
  BY <1>3, LeastNumber
<1>5. PICK at \in places : at[1] = t /\ at[2] = l
  BY <1>4
<1>6. \A other \in places : at[1] < other[1] \/ (at[1] = other[1] /\ at[2] <= other[2])
  <2> TAKE other \in places
  <2>1. other[1] \in tables /\ at[1] <= other[1]
    BY <1>2, <1>5
  <2>2. other[1] = t => other[2] \in lines
    OBVIOUS
  <2>3. other[1] = t => at[2] <= other[2]
    BY <1>4, <1>5, <2>2
  <2> QED  BY <1>5, <2>1, <2>3
<1> QED  BY <1>6 DEF Pricing!First

\* A table of prices.
IsTable(table) == DOMAIN table \subseteq Nat /\ \A i \in DOMAIN table : table[i][2] \in Prices

Tables == {registered[p] : p \in Pricing!Providers} \cup {Shipped[p] : p \in Pricing!Providers}

LEMMA TablesAreTables ==
  ASSUME RatesOk
  PROVE  \A table \in Tables : IsTable(table)
<1>1. \A p \in Pricing!Providers : IsTable(Shipped[p])
  BY PricingAssumption DEF Pricing!PriceAssumption, IsTable
<1>2. \A p \in Pricing!Providers : IsTable(registered[p])
  BY DEF RatesOk, IsTable, Listed
<1> QED  BY <1>1, <1>2 DEF Tables

LEMMA AllProviders ==
  \E n \in Nat : Pricing!SetToSeq(Pricing!Providers) \in [1 .. n -> Pricing!Providers]
<1> DEFINE S == Pricing!Providers
           all == Pricing!SetToSeq(S)
<1>1. IsFiniteSet(S)
  BY PricingAssumption DEF Pricing!PriceAssumption, Pricing!IsFiniteSet, IsFiniteSet
<1>2. all = Budget!SetToSeq(S)
  BY DEF Pricing!SetToSeq, Budget!SetToSeq, Pricing!Cardinality, Budget!Cardinality,
         Pricing!IsInjective, Budget!IsInjective
<1>3. Budget!SetToSeq(S) \in [1 .. Cardinality(S) -> S] /\ Cardinality(S) \in Nat
  BY <1>1, ListsOnce
<1> QED  BY <1>2, <1>3

LEMMA TablesForAreTables ==
  ASSUME RatesOk, NEW m
  PROVE  Pricing!TablesFor(m) \in Seq(Tables)
<1>1. CASE Pricing!Normalized(m) \in Pricing!Providers
  <2> DEFINE p == Pricing!Normalized(m)
  <2>1. registered[p] \in Tables /\ Shipped[p] \in Tables
    BY <1>1 DEF Tables
  <2>2. Pricing!TablesFor(m) = <<registered[p], Shipped[p]>>
    BY <1>1 DEF Pricing!TablesFor
  <2> HIDE DEF p
  <2> QED  BY <2>1, <2>2
<1>2. CASE Pricing!Normalized(m) \notin Pricing!Providers
  <2> DEFINE all == Pricing!SetToSeq(Pricing!Providers)
             own == [i \in DOMAIN all |-> registered[all[i]]]
             shipped == [i \in DOMAIN all |-> Shipped[all[i]]]
  <2>1. PICK n \in Nat : all \in [1 .. n -> Pricing!Providers]
    BY AllProviders
  <2>2. Pricing!TablesFor(m) = own \o shipped
    BY <1>2 DEF Pricing!TablesFor
  <2> HIDE DEF all
  <2>3. own \in Seq(Tables) /\ shipped \in Seq(Tables)
    BY <2>1 DEF Tables
  <2> HIDE DEF own, shipped
  <2> QED  BY <2>2, <2>3
<1> QED  BY <1>1, <1>2

\* What the price list says is a price of it.
LEMMA ListedIsPrice ==
  ASSUME RatesOk, NEW m
  PROVE  Pricing!GetRates(m) \in Prices \cup {None}
<1> DEFINE tables == Pricing!TablesFor(m)
           places == Pricing!Matches(m)
           at == Pricing!First(places)
<1>1. tables \in Seq(Tables) /\ \A table \in Tables : IsTable(table)
  BY TablesForAreTables, TablesAreTables
<1>2. \A it \in places : it[1] \in DOMAIN tables /\ it[2] \in DOMAIN tables[it[1]]
  BY DEF Pricing!Matches
<1>3. Pricing!GetRates(m) = IF places = {} THEN None ELSE tables[at[1]][at[2]][2]
  BY DEF Pricing!GetRates
<1> HIDE DEF tables, places
<1>4. \A t \in DOMAIN tables : t \in Nat /\ IsTable(tables[t])
  BY <1>1
<1>5. CASE places = {}
  BY <1>3, <1>5
<1>6. CASE places # {}
  <2>1. \A it \in places : it[1] \in Nat /\ it[2] \in Nat
    BY <1>2, <1>4 DEF IsTable
  <2>2. at \in places
    BY <1>6, <2>1, FirstIsPlace
  <2> HIDE DEF at
  <2> QED  BY <1>2, <1>3, <1>4, <1>6, <2>2 DEF IsTable
<1> QED  BY <1>5, <1>6

\* A mean of nothing is a mean of runs that were free.
LEMMA MeanOfFree ==
  ASSUME PricedOk, NEW m, Pricing!RecentMean(m) = 0
  PROVE  WasFree(m)
<1> DEFINE recent == {i \in DOMAIN pricedRuns : /\ pricedRuns[i].model = m /\ pricedRuns[i].ok
                                                /\ pricedRuns[i].at + 2 >= time}
           n   == Pricing!Cardinality(recent)
           f   == [i \in recent |-> pricedRuns[i].cost]
           sum == Pricing!SumFunction(f)
<1>1. Pricing!RecentMean(m) = IF recent = {} THEN None ELSE (sum + n - 1) \div n
  BY DEF Pricing!RecentMean
<1>2. sum = Sum(f, recent) /\ n = Cardinality(recent)
  BY DEF Sum, Pricing!SumFunction, Pricing!SumFunctionOnSet, Pricing!FoldFunctionOnSet,
         Pricing!MapThenFoldSet, SumFunctionOnSet, FoldFunctionOnSet, MapThenFoldSet,
         Pricing!Cardinality, Cardinality
<1>3. /\ \A i \in recent : f[i] \in Nat /\ f[i] = pricedRuns[i].cost
      /\ \A i \in recent : i \in DOMAIN pricedRuns /\ pricedRuns[i].model = m /\ pricedRuns[i].ok
      /\ recent \subseteq 1 .. Len(pricedRuns) /\ Len(pricedRuns) \in Nat
  BY DEF PricedOk, IsSeq
<1> HIDE DEF recent, f, sum, n
<1>4. recent # {}
  BY <1>1, PricesAreNat
<1>5. IsFiniteSet(recent)
  <2>1. IsFiniteSet(1 .. Len(pricedRuns))
    BY <1>3, FS_Interval
  <2> QED  BY <1>3, <2>1, FS_Subset
<1>6. n \in Nat \ {0}
  BY <1>2, <1>4, <1>5, FS_CardinalityType, FS_EmptySet
<1>7. sum \in Nat
  BY <1>2, <1>3, <1>5, SumIsNat
<1>8. sum = 0
  <2>1. (sum + n - 1) \div n = 0
    BY <1>1, <1>4
  <2>2. sum + n - 1 < n
    <3> DEFINE up == sum + n - 1
    <3>1. up \in Nat /\ up \div n = 0
      BY <1>6, <1>7, <2>1
    <3> HIDE DEF up
    <3>2. up < n
      BY <1>6, <3>1
    <3> QED  BY <3>2 DEF up
  <2> QED  BY <1>6, <1>7, <2>2
<1>9. \A i \in recent : f[i] = 0
  BY <1>2, <1>3, <1>5, <1>8, SumOfZeros
<1> QED  BY <1>3, <1>4, <1>9 DEF WasFree

\* One caller moves, the prices and runs do not.
LEMMA OnePricerMoves ==
  ASSUME PricingInv, NEW c \in Pricers, NEW it, PricerOk(it), Pricing!Set(c, it),
         UNCHANGED <<rates, registered, pricedRuns, time>>
  PROVE  PricingInv'
<1>1. pricer' = [pricer EXCEPT ![c] = it]
  BY DEF Pricing!Set
<1>2. \A me : PricerOk(me)' <=> PricerOk(me)
  BY DEF PricerOk, WasFree, Pricing!Silent
<1>3. \A d \in Pricers : PricerOk(pricer[d])'
  BY <1>1, <1>2 DEF PricingInv
<1>4. RatesOk' /\ PricedOk'
  BY DEF PricingInv, RatesOk, PricedOk
<1> QED  BY <1>1, <1>3, <1>4 DEF PricingInv

LEMMA UpsertReads ==
  ASSUME PricingInv, NEW c \in Pricers, Pricing!UpsertRead(c)
  PROVE  PricingInv'
<1>1. PICK row \in [model : Sold, from : {Pricing!DayOf(time)}, to : {None, Pricing!DayOf(time)},
                    price : Prices], found \in BOOLEAN :
        Pricing!Set(c, [Pricing!IdleCaller EXCEPT !.pc = "upsert", !.row = row, !.found = found])
  BY Zenon DEF Pricing!UpsertRead
<1> DEFINE it == [Pricing!IdleCaller EXCEPT !.pc = "upsert", !.row = row, !.found = found]
<1>2. DOMAIN it = CallerFields /\ it.pc = "upsert" /\ it.row = row
  BY DEF Pricing!IdleCaller, CallerFields
<1>3. Pricing!Set(c, it)
  BY <1>1
<1> HIDE DEF it
<1>4. row.from \in Nat /\ row.price \in Prices
  BY <1>1 DEF PricingInv, RatesOk, Pricing!DayOf
<1>5. PricerOk(it)
  BY <1>2, <1>4 DEF PricerOk, Pricing!Silent
<1> QED  BY <1>3, <1>5, OnePricerMoves DEF Pricing!UpsertRead

\* The runs stay, the rates are written.
LEMMA RatesMove ==
  ASSUME PricingInv, RatesOk', UNCHANGED pricedRuns,
         pricer' = [c \in Pricers |-> pricer'[c]], \A c \in Pricers : PricerOk(pricer'[c])
  PROVE  PricingInv'
<1>1. \A me : PricerOk(me)' <=> PricerOk(me)
  BY DEF PricerOk, WasFree, Pricing!Silent
<1>2. \A c \in Pricers : PricerOk(pricer[c])'
  BY <1>1
<1>3. PricedOk'
  BY DEF PricingInv, PricedOk
<1> QED  BY <1>2, <1>3 DEF PricingInv

LEMMA UpsertWrites ==
  ASSUME PricingInv, NEW c \in Pricers, Pricing!UpsertWrite(c)
  PROVE  PricingInv'
<1>1. pricer[c].row.from \in Nat /\ pricer[c].row.price \in Prices
  BY DEF PricingInv, PricerOk, Pricing!UpsertWrite
<1>2. /\ rates' \subseteq rates \cup {pricer[c].row} /\ UNCHANGED <<registered, pricedRuns, time>>
      /\ pricer' = [pricer EXCEPT ![c] = Pricing!IdleCaller]
  BY DEF Pricing!UpsertWrite, Pricing!Set
<1>3. RatesOk'
  BY <1>1, <1>2 DEF PricingInv, RatesOk
<1>4. pricer' = [d \in Pricers |-> pricer'[d]] /\ \A d \in Pricers : PricerOk(pricer'[d])
  BY <1>2, IdlePricerOk DEF PricingInv
<1> QED  BY <1>2, <1>3, <1>4, RatesMove

\* A price registered again keeps its place.
LEMMA RegisteredIsListed ==
  ASSUME NEW table \in Seq(Listed), NEW prefix \in Listable, NEW price \in Prices
  PROVE  Pricing!Registered(table, prefix, price) \in Seq(Listed)
<1>1. <<prefix, price>> \in Listed
  BY DEF Listed
<1>2. Append(table, <<prefix, price>>) \in Seq(Listed)
  BY <1>1
<1>3. [i \in DOMAIN table |-> IF table[i][1] = prefix THEN <<prefix, price>> ELSE table[i]]
        \in Seq(Listed)
  <2>1. PICK n \in Nat : table \in [1 .. n -> Listed]
    OBVIOUS
  <2>2. [i \in 1 .. n |-> IF table[i][1] = prefix THEN <<prefix, price>> ELSE table[i]]
          \in [1 .. n -> Listed]
    BY <1>1, <2>1
  <2>3. DOMAIN table = 1 .. n
    BY <2>1
  <2> QED  BY <2>2, <2>3
<1> QED  BY <1>2, <1>3 DEF Pricing!Registered

LEMMA RegistersOne ==
  ASSUME PricingInv, Pricing!Register
  PROVE  PricingInv'
<1>1. PICK p \in Pricing!Providers, prefix \in Listable, price \in Prices :
        registered' = [registered EXCEPT ![p] = Pricing!Registered(@, prefix, price)]
  BY DEF Pricing!Register
<1>2. registered' \in [Pricing!Providers -> Seq(Listed)]
  BY <1>1, RegisteredIsListed DEF PricingInv, RatesOk
<1>3. RatesOk'
  BY <1>2 DEF PricingInv, RatesOk, Pricing!Register, Pricing!Providers
<1> QED  BY <1>3, RatesMove DEF PricingInv, Pricing!Register

LEMMA TimePasses ==
  ASSUME PricingInv, Pricing!Tick
  PROVE  PricingInv'
<1>1. RatesOk'
  BY DEF PricingInv, RatesOk, Pricing!Tick, Pricing!Providers
<1> QED  BY <1>1, RatesMove DEF PricingInv, Pricing!Tick

LEMMA CallBegins ==
  ASSUME PricingInv, NEW c \in Pricers, Pricing!Begin(c)
  PROVE  PricingInv'
<1>1. PICK m \in Sold : Pricing!Set(c, [Pricing!IdleCaller EXCEPT !.pc = "rate", !.model = m])
  BY DEF Pricing!Begin
<1> DEFINE it == [Pricing!IdleCaller EXCEPT !.pc = "rate", !.model = m]
<1>2. DOMAIN it = CallerFields /\ it.pc = "rate"
  BY DEF Pricing!IdleCaller, CallerFields
<1>3. Pricing!Set(c, it)
  BY <1>1
<1> HIDE DEF it
<1>4. PricerOk(it)
  BY <1>2 DEF PricerOk, Pricing!Silent
<1> QED  BY <1>3, <1>4, OnePricerMoves DEF Pricing!Begin

\* A source gives a price, or the next one is asked.
LEMMA SourceIsAsked ==
  ASSUME PricingInv, NEW c \in Pricers,
         NEW price \in Prices \cup {None}, NEW next \in {"list", "mean"},
         Pricing!Set(c, Pricing!Projected(pricer[c], price, next)),
         UNCHANGED <<rates, registered, pricedRuns, time>>
  PROVE  PricingInv'
<1> DEFINE me == pricer[c]
           it == Pricing!Projected(me, price, next)
<1>1. DOMAIN me = CallerFields
  BY DEF PricingInv, PricerOk
<1> HIDE DEF me
<1>2. /\ DOMAIN it = CallerFields /\ it.pc \in {"list", "mean", "chat"}
      /\ it.pc = "chat" => it.projected = price /\ price # None
  BY <1>1 DEF Pricing!Projected, CallerFields
<1> HIDE DEF it
<1>3. PricerOk(it)
  BY <1>2 DEF PricerOk, Pricing!Silent
<1>4. Pricing!Set(c, it)
  BY DEF it, me
<1> QED  BY <1>3, <1>4, OnePricerMoves

LEMMA MeanIsRead ==
  ASSUME PricingInv, NEW c \in Pricers, Pricing!ReadMean(c)
  PROVE  PricingInv'
<1> DEFINE me == pricer[c]
           mean == Pricing!RecentMean(me.model)
           it == IF mean # None THEN Pricing!Projected(me, mean, None)
                 ELSE [me EXCEPT !.pc = "chat", !.projected = 0, !.warned = TRUE]
<1>1. DOMAIN me = CallerFields /\ PricedOk
  BY DEF PricingInv, PricerOk
<1>2. Pricing!Set(c, it)
  BY DEF Pricing!ReadMean
<1>3. mean = 0 => WasFree(me.model)
  BY <1>1, MeanOfFree
<1> HIDE DEF me, mean
<1>4. /\ DOMAIN it = CallerFields /\ it.pc = "chat" /\ it.model = me.model
      /\ mean # None => it.projected = mean
      /\ mean = None => it.warned = TRUE
  BY <1>1 DEF Pricing!Projected, CallerFields
<1> HIDE DEF it
<1>5. PricerOk(it)
  BY <1>3, <1>4 DEF PricerOk, Pricing!Silent
<1> QED  BY <1>2, <1>5, OnePricerMoves DEF Pricing!ReadMean

LEMMA CallIsRecorded ==
  ASSUME PricingInv, NEW c \in Pricers, Pricing!Record(c)
  PROVE  PricingInv'
<1> DEFINE m == pricer[c].model
<1>1. Pricing!EstimateCost(m) \in Nat
  BY ListedIsPrice, PricesAreNat DEF PricingInv, Pricing!EstimateCost
<1>2. PICK ok \in BOOLEAN, cost \in Prices \cup {Pricing!EstimateCost(m)} :
        pricedRuns' = Append(pricedRuns, [model |-> m, cost |-> IF ok THEN cost ELSE 0,
                                          ok |-> ok, at |-> time])
  BY Zenon DEF Pricing!Record
<1> DEFINE run == [model |-> m, cost |-> IF ok THEN cost ELSE 0, ok |-> ok, at |-> time]
           n == Len(pricedRuns)
<1>3. run.cost \in Nat
  BY <1>1, PricesAreNat
<1> HIDE DEF run, m
<1>4. pricedRuns' = Append(pricedRuns, run) /\ PricedOk
  BY <1>2 DEF run, PricingInv
<1>5. /\ IsSeq(pricedRuns') /\ n \in Nat /\ DOMAIN pricedRuns = 1 .. n
      /\ DOMAIN pricedRuns' = 1 .. n + 1
      /\ pricedRuns'[n + 1] = run /\ \A i \in 1 .. n : pricedRuns'[i] = pricedRuns[i]
  BY <1>4, SeqOfAppend DEF PricedOk
<1>6. PricedOk'
  <2>1. \A i \in 1 .. n + 1 : i \in 1 .. n \/ i = n + 1
    BY <1>5
  <2> QED  BY <1>3, <1>4, <1>5, <2>1 DEF PricedOk
<1>7. \A i \in DOMAIN pricedRuns : i \in DOMAIN pricedRuns' /\ pricedRuns'[i] = pricedRuns[i]
  <2>1. \A i \in 1 .. n : i \in 1 .. n + 1
    BY <1>5
  <2> QED  BY <1>5, <2>1
<1>8. \A me : PricerOk(me) => PricerOk(me)'
  BY <1>7 DEF PricerOk, WasFree, Pricing!Silent
<1>9. pricer' = [pricer EXCEPT ![c] = Pricing!IdleCaller] /\ UNCHANGED <<rates, registered, time>>
  BY DEF Pricing!Record, Pricing!Set
<1>10. \A d \in Pricers : PricerOk(pricer[d])'
  BY <1>8, <1>9, IdlePricerOk DEF PricingInv
<1>11. RatesOk'
  BY <1>9 DEF PricingInv, RatesOk, Pricing!Providers
<1> QED  BY <1>6, <1>9, <1>10, <1>11 DEF PricingInv

LEMMA PricingStep ==
  ASSUME PricingInv, [Pricing!Next]_Pricing!priceVars
  PROVE  PricingInv'
<1>1. CASE UNCHANGED Pricing!priceVars
  BY <1>1, RatesMove DEF PricingInv, RatesOk, Pricing!priceVars, Pricing!Providers
<1>2. ASSUME NEW c \in Pricers, Pricing!ReadRate(c)
      PROVE  PricingInv'
  BY <1>2, RateIsPrice, SourceIsAsked DEF Pricing!ReadRate, PricingInv
<1>3. ASSUME NEW c \in Pricers, Pricing!ReadList(c)
      PROVE  PricingInv'
  BY <1>3, ListedIsPrice, SourceIsAsked DEF Pricing!ReadList, Pricing!PriceCall, PricingInv
<1>4. ASSUME NEW c \in Pricers, \/ Pricing!UpsertRead(c) \/ Pricing!UpsertWrite(c)
                                \/ Pricing!Begin(c) \/ Pricing!ReadMean(c) \/ Pricing!Record(c)
      PROVE  PricingInv'
  BY <1>4, UpsertReads, UpsertWrites, CallBegins, MeanIsRead, CallIsRecorded
<1>5. CASE Pricing!Register
  BY <1>5, RegistersOne
<1>6. CASE Pricing!Tick
  BY <1>6, TimePasses
<1> QED  BY <1>1, <1>2, <1>3, <1>4, <1>5, <1>6 DEF Pricing!Next

LEMMA PricingSound ==
  ASSUME PricingInv
  PROVE  ZeroIsWarnedOf
BY DEF PricingInv, PricerOk, WasFree, ZeroIsWarnedOf, Pricing!ZeroIsWarnedOf

-----------------------------------------------------------------------------
\* A behaviour of the composition is one of each part, whether that part is exercised or not.
THEOREM EachSpendPartRunsAlone ==
  SpendSpec => Spec /\ Budget!Spec /\ Pricing!Spec /\ Replay!Spec
<1>1. SpendInit => Init /\ Budget!Init /\ Pricing!Init /\ Replay!Init
  BY DEF SpendInit
<1>2. [SpendNext]_spendVars => /\ [Next]_vars /\ [Budget!Next]_Budget!vars
                               /\ [Pricing!Next]_Pricing!priceVars /\ [Replay!Next]_Replay!vars
  BY DEF SpendNext, spendVars, budgetVars, pricingVars, replayVars, Budget!vars,
         Pricing!priceVars, Replay!vars
<1> QED  BY <1>1, <1>2, PTL DEF SpendSpec, Spec, Budget!Spec, Pricing!Spec, Replay!Spec

\* sync_from_yaml (budget/config.py) and BudgetGuard.check (budget/check.py): until the next write,
\* the caps that a sync nobody wrote across found in budgets.yaml are the rows in force, one for a
\* scope with a value and a period; a call is let pass only if no blocking row breaks on any
\* dimension, and stopped only for one that does, the broadest such scope.
THEOREM CapsStayInForce ==
  SpendSpec => []CapsAreInForce
<1>1. Budget!Init => BudgetInv
  BY BudgetStart
<1>2. BudgetInv => CapsAreInForce
  BY BudgetSound
<1>3. BudgetInv /\ [Budget!Next]_Budget!vars => BudgetInv'
  BY BudgetStep
<1> QED  BY <1>1, <1>2, <1>3, EachSpendPartRunsAlone, PTL DEF Budget!Spec

\* A sync never leaves the process without a cap if it had one (budget/repo.py), and what the
\* runs of a period count against a cap only grows, by calls that were let pass: not by a call
\* that was stopped, nor by a purge of the jobs (budget/audit.py, jobs/retention.py).
THEOREM SpendStaysCapped ==
  SpendSpec => SpendIsCapped
<1>1. Budget!Init => BudgetInv
  BY BudgetStart
<1>2. BudgetInv /\ [Budget!Next]_Budget!vars => BudgetInv'
  BY BudgetStep
<1>3. BudgetInv /\ [Budget!Next]_Budget!vars =>
        [Budget!Enabled # {} => Budget!Enabled' # {}]_Budget!vars
  BY NeverUncaps
<1>4. BudgetInv /\ [Budget!Next]_Budget!vars =>
        [spentRuns' # spentRuns =>
           \A b \in budgets :
             Budget!PeriodOf(b.key.period, day') = Budget!PeriodOf(b.key.period, day) =>
               LET before == Budget!Spent(b.key)
                   after  == Budget!Spent(b.key)'
               IN \/ after = before
                  \/ /\ \A i \in DOMAIN Budget!Dimensions : after[i] >= before[i]
                     /\ \E p \in Procs : Budget!At(p, "admitted") /\ Budget!At(p, "idle")'
        ]_Budget!vars
  BY SpendGrows DEF Grows
<1>5. Budget!Spec => Budget!NeverUncapped
  BY <1>1, <1>2, <1>3, PTL DEF Budget!Spec, Budget!NeverUncapped
<1>6. Budget!Spec => Budget!SpendIsCalls
  BY <1>1, <1>2, <1>4, PTL DEF Budget!Spec, Budget!SpendIsCalls
<1> QED  BY <1>5, <1>6, EachSpendPartRunsAlone, PTL DEF SpendIsCapped, Budget!SpendIsCapped

\* project_cost (budget/check.py): where no price is 0, a call is projected to cost nothing, and
\* nobody is warned, only if its model ran for nothing before.
THEOREM ZeroStaysWarnedOf ==
  SpendSpec => []ZeroIsWarnedOf
<1>1. Pricing!Init => PricingInv
  BY PricingStart
<1>2. PricingInv => ZeroIsWarnedOf
  BY PricingSound
<1>3. PricingInv /\ [Pricing!Next]_Pricing!priceVars => PricingInv'
  BY PricingStep
<1> QED  BY <1>1, <1>2, <1>3, EachSpendPartRunsAlone, PTL DEF Pricing!Spec

\* replay_golden (eval/replay.py): the report of a job that succeeded has one result for each
\* golden run that was listed, and says of it what its row does, however the runs, their payloads
\* and tags changed while they were made again.
THEOREM ReportsMatchRows ==
  SpendSpec => []ReportMatchesRows
<1>1. Replay!Init => ReplayInv
  BY ReplayStart
<1>2. ReplayInv => ReportMatchesRows
  BY ReplaySound
<1>3. ReplayInv /\ [Replay!Next]_Replay!vars => ReplayInv'
  BY ReplayStep
<1> QED  BY <1>1, <1>2, <1>3, EachSpendPartRunsAlone, PTL DEF Replay!Spec
=============================================================================
