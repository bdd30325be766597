----------------------------- MODULE EvalReplay -----------------------------
(***************************************************************************)
(* One evaluation (eval/_runner.py): the golden runs of a version are      *)
(* listed, replayed by a pool, recorded, compared or judged, gated and     *)
(* scored, while operators add and remove golden runs (eval/_golden.py)    *)
(* and payloads are purged (llm/tracking/purge.py).  A replay's row is     *)
(* named by the golden run it replays.                                     *)
(***************************************************************************)
EXTENDS Naturals, Sequences, FiniteSets

CONSTANTS
  Runs,        \* recorded runs that may be golden
  Configs,     \* [compare, gate, width]: compare is "diff" or "judge", gate the least value of the
               \* gated metric, None without a gate
  Scores, Threshold,
  Payloads,    \* "dict" or "list": the parsed_output; "raw": none, but the response parses
  Flagged,     \* runs with a failed status or validation
  MaxEdits,    \* bound on golden-set edits and purges
  None

\* The row of a replay.
RowsOfRuns ==
  [status : {"failed", "success"}, metric : Scores \cup {None}, score : Nat \cup {None}]

RunAssumption   == IsFiniteSet(Runs)
ScoreAssumption == Scores \subseteq Nat /\ \A c \in Configs : c.gate \in Nat \cup {None}
NoneAssumption  == None \notin Nat \cup RowsOfRuns

VARIABLES
  config,
  payload,     \* [Runs -> Payloads, or None once purged]
  tagged,      \* runs with the tag eval:<version>
  approved,    \* runs with a golden_approved outcome
  adding,      \* runs between the two transactions of add()
  listed,      \* what the evaluation replays
  replay,      \* [Runs -> pc and what the replay has so far]
  rows,        \* [Runs -> the row of the replay, its metric and its eval_score, or None]
  results,
  job,         \* [status, current] of the eval_replay job
  edits

vars == <<config, payload, tagged, approved, adding, listed, replay, rows, results, job, edits>>

NotStarted == [pc |-> "queued", reply |-> None, score |-> 0, result |-> None]

Init ==
  /\ config \in Configs
  /\ payload \in [Runs -> Payloads]
  /\ tagged \in SUBSET Runs /\ approved = tagged /\ adding = {}
  /\ listed = {} /\ replay = [g \in Runs |-> NotStarted]
  /\ rows = [g \in Runs |-> None]
  /\ results = <<>>
  /\ job = [status |-> "none", current |-> 0] /\ edits = 0

golden == <<payload, tagged, approved, adding, edits>>
At(g, pc) == g \in listed /\ replay[g].pc = pc

-----------------------------------------------------------------------------
(* The golden set. *)

\* The tag is committed before the outcome is.
AddTag(g) ==
  /\ edits < MaxEdits /\ edits' = edits + 1
  /\ tagged' = tagged \cup {g} /\ adding' = adding \cup {g}
  /\ UNCHANGED <<config, payload, approved, listed, replay, rows, results, job>>

AddOutcome(g) ==
  /\ g \in adding
  /\ approved' = approved \cup {g} /\ adding' = adding \ {g}
  /\ UNCHANGED <<config, payload, tagged, listed, replay, rows, results, job, edits>>

\* The outcome stays as history.
Remove(g) ==
  /\ g \in tagged \ adding /\ edits < MaxEdits /\ edits' = edits + 1
  /\ tagged' = tagged \ {g}
  /\ UNCHANGED <<config, payload, approved, adding, listed, replay, rows, results, job>>

Members == tagged \cap approved

Purgeable(keepFlagged) == Runs \ (Members \cup (IF keepFlagged THEN Flagged ELSE {}))

Purge ==
  /\ edits < MaxEdits /\ edits' = edits + 1
  /\ \E keepFlagged \in BOOLEAN :
       payload' = [g \in Runs |-> IF g \in Purgeable(keepFlagged) THEN None ELSE payload[g]]
  /\ UNCHANGED <<config, tagged, approved, adding, listed, replay, rows, results, job>>

-----------------------------------------------------------------------------
(* The evaluation. *)

\* No golden run is an error before the job exists.
List ==
  /\ job.status = "none" /\ tagged # {}
  /\ listed' = tagged
  /\ job' = [status |-> "running", current |-> 0]
  /\ UNCHANGED <<config, replay, rows, results, golden>>

Step(g, me) == replay' = [replay EXCEPT ![g] = me]

\* The replay of g is over.  Whatever was raised gives run_id -1, recorded before or not.
Over(g, score, error, recorded) ==
  Step(g, [NotStarted EXCEPT !.pc = "over",
             !.result = [golden |-> g, recorded |-> recorded, score |-> score, error |-> error,
                         passed |-> ~error /\ score >= Threshold]])

Raised(g) == Over(g, 0, TRUE, FALSE)

InPool == {g \in listed : replay[g].pc \notin {"queued", "over", "collected"}}

Take(g) ==
  /\ At(g, "queued") /\ Cardinality(InPool) < config.width
  /\ Step(g, [NotStarted EXCEPT !.pc = "payload"])
  /\ UNCHANGED <<config, listed, rows, results, job, golden>>

\* A structured comparison needs a dict, parsed again from the response if none was stored.
Comparable(p) == p # None /\ (config.compare = "diff" => p \in {"dict", "raw"})

ReadPayload(g) ==
  /\ At(g, "payload")
  /\ IF Comparable(payload[g]) THEN Step(g, [replay[g] EXCEPT !.pc = "chat"])
                               ELSE Raised(g)
  /\ UNCHANGED <<config, listed, rows, results, job, golden>>

\* No client or model raises before anything is recorded; the client's failure is recorded.
Chat(g) ==
  /\ At(g, "chat")
  /\ \/ Raised(g)
     \/ \E reply \in {"failed", "success"} :
          Step(g, [replay[g] EXCEPT !.pc = "record", !.reply = reply])
  /\ UNCHANGED <<config, listed, rows, results, job, golden>>

Record(g) ==
  /\ At(g, "record")
  /\ \/ Raised(g) /\ UNCHANGED rows
     \/ /\ rows' =
             [rows EXCEPT ![g] = [status |-> replay[g].reply, metric |-> None, score |-> None]]
        /\ IF replay[g].reply = "failed" THEN Over(g, 0, TRUE, TRUE)
           ELSE Step(g, [replay[g] EXCEPT !.pc = "score"])
  /\ UNCHANGED <<config, listed, results, job, golden>>

\* Faulty variant: a gate on a metric that nobody recorded passes.
GateOpen(score, metric) ==
  IF config.gate # None /\ metric # None /\ metric < config.gate THEN 0 ELSE score

\* A gate without its metric fails.
Gated(score, metric) ==
  IF config.gate # None /\ (metric = None \/ metric < config.gate) THEN 0 ELSE score

\* A comparator may give metrics with its score, or raise; a judge gives a score, 0 when its call
\* fails, and raises when it is not configured.
Score(g) ==
  /\ At(g, "score")
  /\ \/ Raised(g) /\ UNCHANGED rows
     \/ \E score \in Scores :
        \E metric \in (IF config.compare = "diff" THEN Scores \cup {None} ELSE {None}) :
          /\ rows' = [rows EXCEPT ![g].metric = metric]
          /\ Step(g, [replay[g] EXCEPT !.pc = "outcome", !.score = Gated(score, metric)])
  /\ UNCHANGED <<config, listed, results, job, golden>>

\* Faulty variant: a failure to store the score is only a warning.
KeepsScore(g) ==
  /\ At(g, "outcome")
  /\ \/ Over(g, replay[g].score, FALSE, TRUE) /\ UNCHANGED rows
     \/ /\ rows' = [rows EXCEPT ![g].score = replay[g].score]
        /\ Over(g, replay[g].score, FALSE, TRUE)
  /\ UNCHANGED <<config, listed, results, job, golden>>

StoreOutcome(g) ==
  /\ At(g, "outcome")
  /\ \/ Raised(g) /\ UNCHANGED rows
     \/ /\ rows' = [rows EXCEPT ![g].score = replay[g].score]
        /\ Over(g, replay[g].score, FALSE, TRUE)
  /\ UNCHANGED <<config, listed, results, job, golden>>

\* Results come as replays end, in any order.
Collect(g) ==
  /\ At(g, "over")
  /\ results' = Append(results, replay[g].result)
  /\ job' = [job EXCEPT !.current = @ + 1]
  /\ Step(g, [NotStarted EXCEPT !.pc = "collected"])
  /\ UNCHANGED <<config, listed, rows, golden>>

Report ==
  /\ job.status = "running" /\ \A g \in listed : At(g, "collected")
  /\ job' = [job EXCEPT !.status = "succeeded"]
  /\ UNCHANGED <<config, listed, replay, rows, results, golden>>

Next ==
  \/ List \/ Report \/ Purge
  \/ \E g \in Runs : \/ AddTag(g) \/ AddOutcome(g) \/ Remove(g)
                     \/ Take(g) \/ ReadPayload(g) \/ Chat(g) \/ Record(g)
                     \/ Score(g) \/ StoreOutcome(g) \/ Collect(g)

Spec == Init /\ [][Next]_vars

-----------------------------------------------------------------------------
\* The report and the tables tell the same: a result per listed golden run; what passed was
\* recorded as a success, its gate was satisfied by a stored metric, and its score is the
\* eval_score that comparisons will read; a result with an error has no eval_score, so no
\* comparison pairs it.
ReportMatchesRows ==
  job.status = "succeeded" =>
    /\ {results[k].golden : k \in DOMAIN results} = listed
    /\ Len(results) = Cardinality(listed) /\ job.current = Len(results)
    /\ \A k \in DOMAIN results :
         LET r == results[k]
             row == rows[r.golden]
         IN IF r.error THEN row = None \/ row.score = None
            ELSE /\ row # None /\ row.status = "success" /\ row.score = r.score
                 /\ r.score > 0 /\ config.gate # None => row.metric # None /\ row.metric >= config.gate

\* eval/_report.py: run_id is -1 "if the call failed before recording".
MinusOneIsUnrecorded ==
  \A k \in DOMAIN results : rows[results[k].golden] # None => results[k].recorded

\* llm/tracking/purge.py: "Golden-set members are always kept" (their payloads, to replay from).
MembersKeepPayload == \A g \in Members : payload[g] # None

=============================================================================
