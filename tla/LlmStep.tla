------------------------------ MODULE LlmStep -------------------------------
(***************************************************************************)
(* llm_step (llm/step.py): cache lookup, budget gate, tracked call, parse  *)
(* and validation, cache store, by several callers at once; beside them    *)
(* the snapshot refresh of the budget (budget/snapshot_job.py), cache      *)
(* invalidation and time.                                                  *)
(*                                                                         *)
(* One blocking budget on the number of calls stands for all budgets and   *)
(* dimensions: they are checked one after the other in the same way.       *)
(***************************************************************************)
EXTENDS Naturals, FiniteSets

CONSTANTS
  Callers, Refreshers,
  Keys,           \* input hashes of one agent
  Options,        \* how steps may be called: cache, validate, on_truncation
  Replies,        \* what the client may do
  OnRecordError,  \* "raise" or "warn"
  Limit,          \* limit_calls of the budget
  PeriodTicks,    \* length of a budget period
  Ttl,            \* ttl_seconds of the cache, 0 for none
  PromptCommit,   \* TRUE: the clock does not move between an INSERT and its commit
  None,
  MaxTime, MaxSteps, MaxFaults, MaxInvalidations   \* bounds

AllOptions == [cache : BOOLEAN, validate : BOOLEAN, onTruncation : {"warn", "fail"}]

ASSUME OptionAssumption == Options \subseteq AllOptions /\ OnRecordError \in {"raise", "warn"}
ASSUME ReplyAssumption  == Replies \subseteq {"good", "bad", "cut", "error"}
ASSUME LimitAssumption  == Limit \in Nat \ {0} /\ PeriodTicks \in Nat \ {0} /\ Ttl \in Nat
ASSUME CommitAssumption == PromptCommit \in BOOLEAN
ASSUME BoundAssumption  == {MaxTime, MaxSteps, MaxFaults, MaxInvalidations} \subseteq Nat

\* "good" is complete and valid, "bad" fails validation, "cut" was cut at the token
\* limit and still parses; "error" is a client that raises.
Responses == {"good", "bad", "cut"}
Statuses  == {"success", "failed", "cache_hit", "budget_blocked"}

\* What a lookup hands to the caller (CacheHit).
Hits == [entry : Nat, source : Nat, response : Responses]

\* A row of the cache.
Entries == [id : Nat, source : Nat, response : Responses, expires : Nat \cup {None}, hits : Nat]

ASSUME NoneAssumption ==
  None \notin Nat \cup Keys \cup AllOptions \cup Responses \cup {"error"} \cup Hits \cup Entries

VARIABLES
  now,
  runs,       \* committed rows of llm_runs
  entry,      \* llm_cache_entries, by input hash
  snapshot,   \* llm_budget_snapshots, by period
  caller, refresher,
  lost,       \* steps whose row could not be written (history, for the properties)
  count

vars == <<now, runs, entry, snapshot, caller, refresher, lost, count>>

PeriodOf(t) == t \div PeriodTicks
Periods     == {PeriodOf(t) : t \in 0..MaxTime}

Pcs == {"idle", "lookup", "hit", "link", "snapshot", "delta", "blocked", "chat",
        "insert", "commit", "judge", "store"}
Outcomes == {"ok", "invalid", "hit", "blocked", "raised", "db_error"}

Rows  == [id : Nat, step : Nat, status : Statuses, at : Nat, key : Keys,
          response : Responses \cup {None}, entry : Nat \cup {None}]
Snapshots == [calls : Nat, until : Nat]

IdleCaller == [pc |-> "idle", step |-> 0, key |-> None, options |-> None, hit |-> None,
               seen |-> None, period |-> 0, reply |-> None, at |-> 0, run |-> None,
               outcome |-> None]
IdleRefresher == [pc |-> "idle", period |-> 0, cutoff |-> 0, calls |-> 0]

At(c, pc)   == caller[c].pc = pc
Goto(c, pc) == caller' = [caller EXCEPT ![c].pc = pc]
Me(c)       == caller[c]

-----------------------------------------------------------------------------
(* What the budget counts (budget/_aggregate.py, current_usage). *)

Counted(p)          == {r \in runs : PeriodOf(r.at) = p /\ r.status \in {"success", "failed"}}
Aggregate(p, limit) == Cardinality({r \in Counted(p) : r.at < limit})
Live(p)             == Cardinality(Counted(p))

\* Faulty variant: exclusive, so that a run at the cutoff is in neither half.
DeltaExclusive(p, since) == Cardinality({r \in Counted(p) : r.at > since})

Delta(p, since)     == Cardinality({r \in Counted(p) : r.at >= since})

Usage(p, seen) == IF seen = None THEN Live(p) ELSE seen.calls + Delta(p, seen.until)

-----------------------------------------------------------------------------
Init ==
  /\ now = 0
  /\ runs = {}
  /\ entry = [k \in Keys |-> None]
  /\ snapshot = [p \in Periods |-> None]
  /\ caller = [c \in Callers |-> IdleCaller]
  /\ refresher = [f \in Refreshers |-> IdleRefresher]
  /\ lost = {}
  /\ count = [x \in {"step", "fault", "invalidation", "entry"} |-> 0]

Raised(c) == Me(c).reply = "error"

\* The caller has its answer, or an exception.
Finish(c, outcome) ==
  caller' = [caller EXCEPT ![c] = [IdleCaller EXCEPT
               !.step = Me(c).step, !.outcome = outcome,
               !.hit = IF outcome = "hit" THEN Me(c).hit ELSE None,
               !.reply = IF Raised(c) THEN "error" ELSE None]]

Row(c, status, at, response) ==
  [id |-> Cardinality(runs) + 1, step |-> Me(c).step, status |-> status, at |-> at,
   key |-> Me(c).key, response |-> response, entry |-> None]

\* A statement fails: the transaction is rolled back.
Fault == count["fault"] < MaxFaults /\ count' = [count EXCEPT !["fault"] = @ + 1]

Begin(c) ==
  /\ At(c, "idle") /\ count["step"] < MaxSteps
  /\ count' = [count EXCEPT !["step"] = @ + 1]
  /\ \E k \in Keys, o \in Options :
       caller' = [caller EXCEPT ![c] = [IdleCaller EXCEPT
                    !.step = count["step"] + 1, !.key = k, !.options = o,
                    !.pc = IF o.cache THEN "lookup" ELSE "snapshot"]]
  /\ UNCHANGED <<now, runs, entry, snapshot, refresher, lost>>

-----------------------------------------------------------------------------
(* The cache. *)

Unexpired(e) == e.expires = None \/ e.expires > now

Lookup(c) ==
  /\ At(c, "lookup")
  /\ LET e == entry[Me(c).key] IN
     caller' = [caller EXCEPT
       ![c].pc  = IF e # None /\ Unexpired(e) THEN "hit" ELSE "snapshot",
       ![c].hit = IF e # None /\ Unexpired(e)
                    THEN [entry |-> e.id, source |-> e.source, response |-> e.response]
                    ELSE None]
  /\ UNCHANGED <<now, runs, entry, snapshot, refresher, lost, count>>

\* record_cache_hit, first transaction: the run row.
RecordHit(c) ==
  /\ At(c, "hit")
  /\ \/ /\ runs' = runs \cup {Row(c, "cache_hit", now, None)}
        /\ caller' = [caller EXCEPT ![c].pc = "link", ![c].run = Cardinality(runs) + 1]
        /\ UNCHANGED <<lost, count>>
     \/ /\ Fault
        /\ lost' = lost \cup {Me(c).step}
        /\ Finish(c, "db_error")
        /\ UNCHANGED runs
  /\ UNCHANGED <<now, entry, snapshot, refresher>>

\* Faulty variant: the status of the row instead of the outcome.
HitOutcomeStatus(c) ==
  IF Me(c).options.validate /\ Me(c).hit.response = "bad" THEN "invalid" ELSE "cache_hit"

\* Re-parsing and re-validating the stored text.
HitOutcome(c) ==
  IF Me(c).options.validate /\ Me(c).hit.response = "bad" THEN "invalid" ELSE "hit"

Linked(c) == {IF r.id = Me(c).run THEN [r EXCEPT !.entry = Me(c).hit.entry] ELSE r : r \in runs}

\* Faulty variant: bumped by key, whatever entry is there now.
BumpedByKey(c) ==
  [k \in Keys |-> IF entry[k] # None /\ k = Me(c).key
                    THEN [entry[k] EXCEPT !.hits = @ + 1] ELSE entry[k]]

Bumped(c) ==
  [k \in Keys |-> IF entry[k] # None /\ entry[k].id = Me(c).hit.entry
                    THEN [entry[k] EXCEPT !.hits = @ + 1] ELSE entry[k]]

\* Second transaction: the link, the tags, and the entry's counter, if the entry is
\* still there.
LinkHit(c) ==
  /\ At(c, "link")
  /\ \/ /\ runs' = Linked(c)
        /\ entry' = Bumped(c)
        /\ Finish(c, HitOutcome(c))
        /\ UNCHANGED count
     \/ Fault /\ Finish(c, "db_error") /\ UNCHANGED <<runs, entry>>
  /\ UNCHANGED <<now, snapshot, refresher, lost>>

Expiry == IF Ttl = 0 THEN None ELSE now + Ttl

\* What a conflict overwrites: not the id, not the counters.
Refreshed(e, c) == [e EXCEPT !.source = Me(c).run, !.response = Me(c).reply, !.expires = Expiry]

\* ExactCacheRepo.store: an upsert; a conflicting row keeps its id and counters.
Store(c) ==
  /\ At(c, "store")
  /\ \/ /\ LET e == entry[Me(c).key] IN
             IF e # None
               THEN /\ entry' = [entry EXCEPT ![Me(c).key] = Refreshed(e, c)]
                    /\ UNCHANGED count
               ELSE /\ entry' = [entry EXCEPT ![Me(c).key] =
                         [id |-> count["entry"] + 1, source |-> Me(c).run,
                          response |-> Me(c).reply, expires |-> Expiry, hits |-> 0]]
                    /\ count' = [count EXCEPT !["entry"] = @ + 1]
        /\ Finish(c, "ok")
     \/ Fault /\ Finish(c, "db_error") /\ UNCHANGED entry
  /\ UNCHANGED <<now, runs, snapshot, refresher, lost>>

\* by_agent, by_model, by_run: the entries of some keys are deleted.
Invalidate ==
  /\ count["invalidation"] < MaxInvalidations
  /\ count' = [count EXCEPT !["invalidation"] = @ + 1]
  /\ \E gone \in SUBSET Keys \ {{}} :
       entry' = [k \in Keys |-> IF k \in gone THEN None ELSE entry[k]]
  /\ UNCHANGED <<now, runs, snapshot, caller, refresher, lost>>

PurgeExpired ==
  /\ \E k \in Keys : entry[k] # None /\ ~Unexpired(entry[k])
  /\ entry' = [k \in Keys |-> IF entry[k] # None /\ ~Unexpired(entry[k]) THEN None ELSE entry[k]]
  /\ UNCHANGED <<now, runs, snapshot, caller, refresher, lost, count>>

-----------------------------------------------------------------------------
(* The budget gate. *)

\* current_usage: the clock and the snapshot of its period ...
CheckSnapshot(c) ==
  /\ At(c, "snapshot")
  /\ caller' = [caller EXCEPT ![c].pc = "delta", ![c].period = PeriodOf(now),
                              ![c].seen = snapshot[PeriodOf(now)]]
  /\ UNCHANGED <<now, runs, entry, snapshot, refresher, lost, count>>

WithinLimit(c) == Usage(Me(c).period, Me(c).seen) + 1 <= Limit

\* ... then, in a transaction of its own, the live delta, and the verdict.
CheckDelta(c) ==
  /\ At(c, "delta")
  /\ Goto(c, IF WithinLimit(c) THEN "chat" ELSE "blocked")
  /\ UNCHANGED <<now, runs, entry, snapshot, refresher, lost, count>>

\* record_blocked_run; the caller gets CostBudgetExceeded, or the database's error.
RecordBlocked(c) ==
  /\ At(c, "blocked")
  /\ \/ /\ runs' = runs \cup {Row(c, "budget_blocked", now, None)}
        /\ Finish(c, "blocked")
        /\ UNCHANGED <<lost, count>>
     \/ /\ Fault
        /\ lost' = lost \cup {Me(c).step}
        /\ Finish(c, "db_error")
        /\ UNCHANGED runs
  /\ UNCHANGED <<now, entry, snapshot, refresher>>

-----------------------------------------------------------------------------
(* The tracked call. *)

\* client.chat returns, or raises.
Chat(c) ==
  /\ At(c, "chat")
  /\ \E reply \in Replies :
       caller' = [caller EXCEPT ![c].pc = "insert", ![c].reply = reply]
  /\ UNCHANGED <<now, runs, entry, snapshot, refresher, lost, count>>

\* record: the row is stamped when it is inserted ...
RecordInsert(c) ==
  /\ At(c, "insert")
  /\ caller' = [caller EXCEPT ![c].pc = "commit", ![c].at = now]
  /\ UNCHANGED <<now, runs, entry, snapshot, refresher, lost, count>>

CallRow(c) == Row(c, IF Raised(c) THEN "failed" ELSE "success", Me(c).at,
                  IF Raised(c) THEN None ELSE Me(c).reply)

\* Faulty variant: the failure path records, and then the success path as well.
CommittedTwice(c) == runs \cup {CallRow(c), [CallRow(c) EXCEPT !.id = @ + 1, !.status = "success"]}

Committed(c) == runs \cup {CallRow(c)}

\* Faulty variant: raised, whatever on_record_error says.
UnrecordedRaises(c) == Finish(c, "db_error")

\* A record that failed is raised, instead of the client's error if there was one, or
\* logged.
Unrecorded(c) ==
  IF OnRecordError = "raise" THEN Finish(c, "db_error")
  ELSE IF Raised(c) THEN Finish(c, "raised") ELSE Goto(c, "judge")

\* ... and seen by others when the transaction commits.
RecordCommit(c) ==
  /\ At(c, "commit")
  /\ \/ /\ runs' = Committed(c)
        /\ IF Raised(c)
             THEN Finish(c, "raised")
             ELSE caller' = [caller EXCEPT ![c].pc = "judge", ![c].run = Cardinality(runs) + 1]
        /\ UNCHANGED <<lost, count>>
     \/ /\ Fault
        /\ lost' = lost \cup {Me(c).step}
        /\ Unrecorded(c)
        /\ UNCHANGED runs
  /\ UNCHANGED <<now, entry, snapshot, refresher>>

Truncated(c) == Me(c).reply = "cut"

\* Faulty variant: the pipeline's verdict is ignored.
RejectedTruncated(c) ==
  Me(c).options.validate /\ Truncated(c) /\ Me(c).options.onTruncation = "fail"

Rejected(c) ==
  /\ Me(c).options.validate
  /\ Me(c).reply = "bad" \/ (Truncated(c) /\ Me(c).options.onTruncation = "fail")

\* Faulty variant: a truncated response that validated is stored.
MayStoreTruncated(c) == Me(c).options.cache /\ Me(c).run # None

\* A response is stored if a run was recorded and it is not known to be truncated.
MayStore(c) == Me(c).options.cache /\ Me(c).run # None /\ ~Truncated(c)

Judge(c) ==
  /\ At(c, "judge")
  /\ IF Rejected(c) THEN Finish(c, "invalid")
     ELSE IF MayStore(c) THEN Goto(c, "store") ELSE Finish(c, "ok")
  /\ UNCHANGED <<now, runs, entry, snapshot, refresher, lost, count>>

-----------------------------------------------------------------------------
(* refresh_snapshots, by the loops of several processes. *)

Working(f, pc) == refresher[f].pc = pc

RefreshBegin(f) ==
  /\ Working(f, "idle")
  /\ refresher' = [refresher EXCEPT ![f].pc = "cutoff", ![f].period = PeriodOf(now)]
  /\ UNCHANGED <<now, runs, entry, snapshot, caller, lost, count>>

\* db_now.
RefreshCutoff(f) ==
  /\ Working(f, "cutoff")
  /\ refresher' = [refresher EXCEPT ![f].pc = "aggregate", ![f].cutoff = now]
  /\ UNCHANGED <<now, runs, entry, snapshot, caller, lost, count>>

RefreshAggregate(f) ==
  /\ Working(f, "aggregate")
  /\ refresher' = [refresher EXCEPT ![f].pc = "write",
                     ![f].calls = Aggregate(refresher[f].period, refresher[f].cutoff)]
  /\ UNCHANGED <<now, runs, entry, snapshot, caller, lost, count>>

\* Faulty variant: last_updated is stamped at the time of writing.
StampedNow(f) == [calls |-> refresher[f].calls, until |-> now]

Stamped(f) == [calls |-> refresher[f].calls, until |-> refresher[f].cutoff]

\* BudgetSnapshotRepo.upsert: both columns at once; the last writer wins.
RefreshWrite(f) ==
  /\ Working(f, "write")
  /\ snapshot' = [snapshot EXCEPT ![refresher[f].period] = Stamped(f)]
  /\ refresher' = [refresher EXCEPT ![f] = IdleRefresher]
  /\ UNCHANGED <<now, runs, entry, caller, lost, count>>

\* _tick swallows any failure, a lost race for the INSERT of a new row among them.
RefreshFail(f) ==
  /\ ~Working(f, "idle")
  /\ refresher' = [refresher EXCEPT ![f] = IdleRefresher]
  /\ UNCHANGED <<now, runs, entry, snapshot, caller, lost, count>>

-----------------------------------------------------------------------------
Tick ==
  /\ now < MaxTime
  /\ PromptCommit => \A c \in Callers : ~At(c, "commit")
  /\ now' = now + 1
  /\ UNCHANGED <<runs, entry, snapshot, caller, refresher, lost, count>>

Step(c) ==
  \/ Lookup(c) \/ RecordHit(c) \/ LinkHit(c) \/ Store(c)
  \/ CheckSnapshot(c) \/ CheckDelta(c) \/ RecordBlocked(c)
  \/ Chat(c) \/ RecordInsert(c) \/ RecordCommit(c) \/ Judge(c)

Refresh(f) == \/ RefreshBegin(f) \/ RefreshCutoff(f) \/ RefreshAggregate(f)
              \/ RefreshWrite(f) \/ RefreshFail(f)

Next ==
  \/ \E c \in Callers : Begin(c) \/ Step(c)
  \/ \E f \in Refreshers : Refresh(f)
  \/ Invalidate \/ PurgeExpired \/ Tick

Spec == Init /\ [][Next]_vars

-----------------------------------------------------------------------------
(* Properties. *)

CallerType ==
  [pc : Pcs, step : Nat, key : Keys \cup {None}, options : AllOptions \cup {None},
   hit : Hits \cup {None},
   seen : Snapshots \cup {None}, period : Periods \cup {0},
   reply : Responses \cup {"error", None}, at : Nat, run : Nat \cup {None},
   outcome : Outcomes \cup {None}]

RefresherType ==
  [pc : {"idle", "cutoff", "aggregate", "write"}, period : Periods \cup {0},
   cutoff : Nat, calls : Nat]

TypeOK ==
  /\ now \in 0..MaxTime
  /\ runs \subseteq Rows
  /\ entry \in [Keys -> Entries \cup {None}]
  /\ snapshot \in [Periods -> Snapshots \cup {None}]
  /\ caller \in [Callers -> CallerType]
  /\ refresher \in [Refreshers -> RefresherType]
  /\ lost \subseteq Nat
  /\ count \in [{"step", "fault", "invalidation", "entry"} -> Nat]

\* "Every run falls in exactly one half": what a snapshot counts are exactly the runs
\* below its cutoff, whoever wrote it and whatever was recorded meanwhile.
NothingLost ==
  \A p \in Periods : snapshot[p] # None => snapshot[p].calls = Aggregate(p, snapshot[p].until)

\* A hard limit is passed only by calls that were checked at the same time: by one
\* less than there are callers, in every period, with any refresh in between.
OvershootBounded == \A p \in Periods : Live(p) <= Limit + (Cardinality(Callers) - 1)

RowsOf(n) == {r \in runs : r.step = n}

StatusesOf(outcome) ==
  CASE outcome \in {"ok"}  -> {"success"}
    [] outcome = "invalid" -> {"success", "cache_hit"}
    [] outcome = "hit"     -> {"cache_hit"}
    [] outcome = "blocked" -> {"budget_blocked"}
    [] outcome = "raised"  -> {"failed"}
    [] OTHER               -> Statuses

\* A step leaves one row, of the status that fits its outcome, unless the row could not
\* be written; a hit's row is linked to the entry it was answered from.
OneRowPerStep ==
  /\ \A r, s \in runs : r.step = s.step => r = s
  /\ \A c \in Callers :
       At(c, "idle") /\ Me(c).outcome # None /\ Me(c).step \notin lost =>
         \E r \in RowsOf(Me(c).step) :
           /\ r.status \in StatusesOf(Me(c).outcome)
           /\ Me(c).outcome = "hit" => r.entry = Me(c).hit.entry

\* A cached answer is the recorded response of a successful run for the same input,
\* never one known to be truncated.
CachedFromRun ==
  \A k \in Keys : entry[k] # None =>
    /\ entry[k].response # "cut"
    /\ \E r \in runs : /\ r.id = entry[k].source
                       /\ r.status = "success" /\ r.key = k
                       /\ r.response = entry[k].response

\* If every step validates, nothing invalid is ever cached or served from the cache.
CachedIsValid ==
  (\A o \in Options : o.cache => o.validate) =>
    /\ \A k \in Keys : entry[k] # None => entry[k].response = "good"
    /\ \A c \in Callers : Me(c).hit # None => Me(c).hit.response = "good"

\* The hit counter of an entry is the number of hits linked to it, also when the entry
\* was deleted, stored again or refreshed between a lookup and its record.
HitsExact ==
  \A k \in Keys : entry[k] # None =>
    entry[k].hits = Cardinality({r \in runs : r.entry = entry[k].id})

\* "failed rows on client errors (then re-raise)": the caller of a step whose client
\* raised gets the client's error, also when its row cannot be written; with "raise"
\* the database's error takes its place.
ClientErrorSurfaces ==
  OnRecordError = "warn" =>
    \A c \in Callers : At(c, "idle") /\ Me(c).reply = "error" => Me(c).outcome = "raised"

\* A step leaves one row, also when the recording of it fails, and never hides the client's error.
StepsAreRecorded == OneRowPerStep /\ ClientErrorSurfaces

\* What the cache holds and gives: stored from a run, valid, and its hits counted exactly.
CacheIsSound == HitsExact /\ CachedFromRun /\ CachedIsValid
=============================================================================
