------------------------------ MODULE Budgets -------------------------------
(***************************************************************************)
(* Budgets from configuration to verdict: budgets.yaml synced into         *)
(* llm_budgets (budget/config.py, budget/repo.py), the guard over all      *)
(* matching scopes and dimensions (budget/check.py), and the rows of       *)
(* stopped calls (budget/audit.py).                                        *)
(*                                                                         *)
(* A sync reads and writes in one transaction: here it reads the table in  *)
(* one step and writes in another, as under repeatable reads.  "Spent" is  *)
(* the sum over the runs a scope covers: LlmStep shows what the snapshot   *)
(* and the delta behind it make of that sum, ReloadCache what a load does. *)
(***************************************************************************)
EXTENDS Naturals, Sequences, SequencesExt, FiniteSets, FiniteSetsExt, Functions

CONSTANTS
  Procs,
  Global,         \* the scope without a value
  Scopes,         \* the scopes with one
  Rank,           \* [scopes -> 0 .. 4]: global, agent, job_kind, job_id, tag
  OfJob,          \* the scopes that go through the row of the job
  Docs,           \* what the file may hold
  Calls,          \* [scopes, projected]
  Uses,           \* what a recorded call may turn out to have used
  DaysPerMonth, PurgeDays,
  MaxDay, MaxRuns, MaxSyncs,   \* bounds
  None

DocAssumption ==
  \A doc \in Docs :
    /\ IsFiniteSet(DOMAIN doc.caps)
    /\ \A k \in DOMAIN doc.caps :
         /\ Rank[k.scope] \in Nat
         /\ doc.caps[k] # None => doc.caps[k].action \in {"warn", "block"}

Dimensions == <<"usd", "tokens", "calls">>
Periods    == {"daily", "monthly"}

UseAssumption == \A use \in Uses : \A i \in DOMAIN Dimensions : use[i] \in Nat

\* Jobs are kept for a month at least.
PurgeAssumption == DaysPerMonth \in Nat \ {0} /\ PurgeDays \in Nat /\ PurgeDays >= DaysPerMonth

VARIABLES
  budgets,   \* llm_budgets: [id, key, cap, enabled]
  runs,      \* llm_runs: [id, scopes, day, use, blocked]
  day,
  proc,
  syncs,     \* syncs begun
  synced     \* what the last write of a sync wanted, if nobody wrote since it read (history)

vars == <<budgets, runs, day, proc, syncs, synced>>

IdleProc == [pc |-> "idle", desired |-> <<>>, view |-> {}, call |-> None,
             rows |-> {}, todo |-> {}, looked |-> <<>>, over |-> None]

Init ==
  /\ budgets = {} /\ runs = {} /\ day = 0
  /\ proc = [p \in Procs |-> IdleProc]
  /\ syncs = 0 /\ synced = <<>>

At(p, pc)  == proc[p].pc = pc
Set(p, me) == proc' = [proc EXCEPT ![p] = me]

-----------------------------------------------------------------------------
(* Configuration: a document is "absent", "broken" or "parsed"; its caps map *)
(* keys to [limit, action], or to None for a block that is malformed.        *)

\* What a load may give: the document served so far or the one in the file by now, edited at any
\* time.  It fails on a broken file with nothing served; an absent file is a document of no caps.
Loaded == {doc \in Docs : doc.state # "broken"}

Malformed(doc) == \E k \in DOMAIN doc.caps : doc.caps[k] = None

\* A malformed block anywhere refuses the whole document: nothing is written.
Flattened(doc) ==
  IF Malformed(doc) THEN [pc |-> "idle", desired |-> <<>>]
  ELSE [pc |-> "sync", desired |-> doc.caps]

SyncBegin(p) ==
  /\ At(p, "idle") /\ syncs < MaxSyncs
  /\ syncs' = syncs + 1
  /\ \/ (\E doc \in Docs : doc.state = "broken") /\ UNCHANGED proc
     \/ \E doc \in Loaded :
          LET f == Flattened(doc)
          IN Set(p, [IdleProc EXCEPT !.pc = f.pc, !.desired = f.desired])
  /\ UNCHANGED <<budgets, runs, day, synced>>

SyncRead(p) ==
  /\ At(p, "sync")
  /\ Set(p, [proc[p] EXCEPT !.view = budgets, !.pc = "write"])
  /\ UNCHANGED <<budgets, runs, day, syncs, synced>>

Known(view) == {r.key : r \in view}

\* Faulty variant: the table has no unique key.
NeverConflicts(keys) == FALSE

\* The unique key does not hold for rows without a value: NULL differs from NULL.
Conflicts(keys) == \E k \in keys : k.scope # Global /\ k \in Known(budgets)

\* Rows to update: for each wanted key the row that fetchone() happens to give.
Picks(view, desired) ==
  {pick \in SUBSET view : /\ \A r \in pick : r.key \in DOMAIN desired
                          /\ \A k \in Known(view) \cap DOMAIN desired :
                               Cardinality({r \in pick : r.key = k}) = 1}

NewRows(keys, desired) ==
  LET order == SetToSeq(keys)
  IN {[id |-> Cardinality(budgets) + i, key |-> order[i], cap |-> desired[order[i]],
       enabled |-> TRUE] : i \in DOMAIN order}

\* Faulty variant: an empty configuration disables like any other.
DropsAll(view, desired) == {r \in view : r.enabled /\ r.key \notin DOMAIN desired}

\* Faulty variant: rows are matched by scope, not by scope and period.
DropsScopes(view, desired) ==
  IF DOMAIN desired = {} THEN {}
  ELSE {r \in view : r.enabled /\ r.key.scope \notin {k.scope : k \in DOMAIN desired}}

\* The enabled rows that are not wanted any more; none if nothing at all is wanted.
Dropped(view, desired) ==
  IF DOMAIN desired = {} THEN {}
  ELSE {r \in view : r.enabled /\ r.key \notin DOMAIN desired}

Ids(rows) == {r.id : r \in rows}

Synced(r, pick, dropped, desired) ==
  IF r.id \in Ids(pick) THEN [r EXCEPT !.cap = desired[r.key], !.enabled = TRUE]
  ELSE IF r.id \in Ids(dropped) THEN [r EXCEPT !.enabled = FALSE]
  ELSE r

SyncWrite(p) ==
  LET view == proc[p].view
      desired == proc[p].desired
      new == DOMAIN desired \ Known(view)
  IN /\ At(p, "write")
     /\ Set(p, IdleProc)
     /\ IF Conflicts(new)
          THEN UNCHANGED <<budgets, synced>>
          ELSE \E pick \in Picks(view, desired) :
                 /\ budgets' = {Synced(r, pick, Dropped(view, desired), desired) : r \in budgets}
                                 \cup NewRows(new, desired)
                 /\ synced' = IF view = budgets /\ DOMAIN desired # {} THEN desired ELSE <<>>
     /\ UNCHANGED <<runs, day, syncs>>

-----------------------------------------------------------------------------
(* Usage and the guard. *)

PeriodOf(period, d) == IF period = "daily" THEN d ELSE d \div DaysPerMonth

Covers(scope, scopes) == scope = Global \/ scope \in scopes

\* Faulty variant: a call that was stopped counts as a call.
CountsBlocked(key) ==
  {r \in runs : Covers(key.scope, r.scopes) /\ PeriodOf(key.period, r.day) = PeriodOf(key.period, day)}

Counted(key) ==
  {r \in runs : /\ Covers(key.scope, r.scopes) /\ ~r.blocked
                /\ PeriodOf(key.period, r.day) = PeriodOf(key.period, day)}

Spent(key) ==
  [i \in DOMAIN Dimensions |-> SumFunction([r \in Counted(key) |-> r.use[i]])]

Matching(scopes) == {r \in budgets : r.enabled /\ Covers(r.key.scope, scopes)}

\* global, agent, job_kind, job_id, tag; the periods of a scope by name; equals as they come.
Before(r, s) ==
  \/ Rank[r.key.scope] < Rank[s.key.scope]
  \/ /\ Rank[r.key.scope] = Rank[s.key.scope]
     /\ \/ r.key.period = "daily" /\ s.key.period = "monthly"
        \/ r.key.period = s.key.period /\ r.id < s.id

\* An override and the kill switch pass before any row is read.
CheckBegin(p) ==
  /\ At(p, "idle") /\ Cardinality(runs) < MaxRuns
  /\ \E call \in Calls, unguarded \in BOOLEAN :
       LET rows == IF unguarded THEN {} ELSE Matching(call.scopes)
       IN Set(p, [IdleProc EXCEPT !.call = call, !.rows = rows,
                                  !.todo = rows, !.pc = "check"])
  /\ UNCHANGED <<budgets, runs, day, syncs, synced>>

Exceeds(row, spent, projected, i) ==
  row.cap.limit[i] # None /\ spent[i] + projected[i] > row.cap.limit[i]

\* Faulty variant: the first dimension with a limit decides.
FirstLimitOnly(row, spent, projected) ==
  {i \in DOMAIN Dimensions : /\ Exceeds(row, spent, projected, i)
                             /\ \A j \in 1 .. i - 1 : row.cap.limit[j] = None}

Over(row, spent, projected) == {i \in DOMAIN Dimensions : Exceeds(row, spent, projected, i)}

\* What was read of a row is kept with what was read of the rows before.
Noted(looked, id, spent) ==
  [j \in DOMAIN looked \cup {id} |-> IF j = id THEN spent ELSE looked[j]]

\* Faulty variant: a warn row that is over ends the check.
WarnReturns(me, row, spent, over) ==
  IF over = {} THEN [me EXCEPT !.todo = @ \ {row}, !.looked = Noted(@, row.id, spent)]
  ELSE IF row.cap.action = "warn" THEN [me EXCEPT !.pc = "admitted"]
  ELSE [me EXCEPT !.pc = "blocked", !.over = [row |-> row.id, dimension |-> Min(over)]]

\* A warn row is only logged; the first dimension over the limit of a block row raises.
Looked(me, row, spent, over) ==
  IF row.cap.action = "warn" \/ over = {}
    THEN [me EXCEPT !.todo = @ \ {row}, !.looked = Noted(@, row.id, spent)]
    ELSE [me EXCEPT !.pc = "blocked", !.looked = Noted(@, row.id, spent),
                    !.over = [row |-> row.id, dimension |-> Min(over)]]

\* The rows are taken in order, and each is judged on usage read when its turn comes.
CheckRow(p) ==
  /\ At(p, "check")
  /\ LET me == proc[p]
     IN \/ me.todo = {} /\ Set(p, [me EXCEPT !.pc = "admitted"])
        \/ \E row \in me.todo :
             /\ \A other \in me.todo \ {row} : Before(row, other)
             /\ LET spent == Spent(row.key)
                IN Set(p, Looked(me, row, spent, Over(row, spent, me.call.projected)))
  /\ UNCHANGED <<budgets, runs, day, syncs, synced>>

Run(scopes, use, blocked) ==
  [id |-> Cardinality(runs) + 1, scopes |-> scopes, day |-> day, use |-> use, blocked |-> blocked]

Record(p) ==
  /\ At(p, "admitted") /\ Cardinality(runs) < MaxRuns
  /\ \E use \in Uses : runs' = runs \cup {Run(proc[p].call.scopes, use, FALSE)}
  /\ Set(p, IdleProc)
  /\ UNCHANGED <<budgets, day, syncs, synced>>

RecordBlocked(p) ==
  /\ At(p, "blocked") /\ Cardinality(runs) < MaxRuns
  /\ runs' = runs \cup {Run(proc[p].call.scopes, <<0, 0, 1>>, TRUE)}
  /\ Set(p, IdleProc)
  /\ UNCHANGED <<budgets, day, syncs, synced>>

\* A purged job leaves its runs without a job: no scope that goes through it covers them.
PurgeJobs ==
  /\ \E r \in runs : r.day + PurgeDays <= day /\ r.scopes \cap OfJob # {}
  /\ runs' = {IF r.day + PurgeDays <= day THEN [r EXCEPT !.scopes = @ \ OfJob] ELSE r : r \in runs}
  /\ UNCHANGED <<budgets, day, proc, syncs, synced>>

NextDay ==
  /\ day < MaxDay
  /\ day' = day + 1
  /\ UNCHANGED <<budgets, runs, proc, syncs, synced>>

Next ==
  \/ \E p \in Procs : \/ SyncBegin(p) \/ SyncRead(p) \/ SyncWrite(p)
                      \/ CheckBegin(p) \/ CheckRow(p) \/ Record(p) \/ RecordBlocked(p)
  \/ PurgeJobs \/ NextDay

Spec == Init /\ [][Next]_vars

-----------------------------------------------------------------------------
Enabled == {r \in budgets : r.enabled}

\* Once a cap is in force some cap stays in force, whatever becomes of the file and whichever
\* processes sync at the same time (config.py, repo.py: "keeping every existing cap rather than
\* uncapping the process").
NeverUncapped == [][Enabled # {} => Enabled' # {}]_vars

\* After a sync that nobody wrote across, and until the next write, each wanted scope and period
\* is enabled with the wanted cap and no other row is.
SyncEnforced ==
  DOMAIN synced # {} =>
    /\ {r.key : r \in Enabled} = DOMAIN synced
    /\ \A k \in DOMAIN synced : \E r \in Enabled : r.key = k /\ r.cap = synced[k]

\* A scope with a value has one row per period, so an update reaches the row the guard reads.
OneRowPerKey ==
  \A r, s \in budgets : r.key = s.key /\ r.key.scope # Global => r = s

\* docs/cost-budget.md: one row per (scope_kind, scope_value, period).
OneRowPerScope == \A r, s \in budgets : r.key = s.key => r = s

BlockRows(me) == {r \in me.rows : r.cap.action = "block"}

Breaks(me, r) ==
  r.id \in DOMAIN me.looked /\ \E i \in DOMAIN Dimensions :
    Exceeds(r, me.looked[r.id], me.call.projected, i)

\* The guard admits a call only if it looked at every matching row and no block row breaks on any
\* dimension; it stops a call only for a block row that breaks, and none of a broader scope does.
VerdictSound ==
  \A p \in Procs :
    LET me == proc[p]
    IN /\ At(p, "admitted") =>
            /\ DOMAIN me.looked = Ids(me.rows)
            /\ ~ \E r \in BlockRows(me) : Breaks(me, r)
       /\ At(p, "blocked") =>
            \E r \in BlockRows(me) :
              /\ r.id = me.over.row
              /\ Exceeds(r, me.looked[r.id], me.call.projected, me.over.dimension)
              /\ \A s \in BlockRows(me) : Rank[s.key.scope] < Rank[r.key.scope] => ~Breaks(me, s)

\* Within a period the spend of a budget never shrinks, though jobs are purged, as long as they
\* are kept for a month (tracking/schema.py: "deleting a job preserves cost history"), and grows
\* only by a call that was admitted: a stopped call costs nothing.
SpendIsCalls ==
  [][runs' # runs =>
       \A b \in budgets : PeriodOf(b.key.period, day') = PeriodOf(b.key.period, day) =>
         LET before == Spent(b.key)
             after  == Spent(b.key)'
         IN \/ after = before
            \/ /\ \A i \in DOMAIN Dimensions : after[i] >= before[i]
               /\ \E p \in Procs : At(p, "admitted") /\ At(p, "idle")']_vars

\* The caps of the file are the rows in force, one for a scope and period, and the guard's verdict
\* is theirs.
CapsAreInForce == SyncEnforced /\ OneRowPerKey /\ VerdictSound

\* The caps are never all dropped, and what is held against them is what was called.
SpendIsCapped == NeverUncapped /\ SpendIsCalls
=============================================================================
