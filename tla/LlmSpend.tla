------------------------------ MODULE LlmSpend -------------------------------
(***************************************************************************)
(* What calls are taken to cost and to be worth: the usage that a step is  *)
(* checked against (LlmStep), the caps and the guard (Budgets), the price  *)
(* of a call before it is made (CallPrices), and the scores of golden runs *)
(* made again (EvalReplay).  A behaviour exercises one part, chosen at the *)
(* start; the others stay in one initial state of theirs.                  *)
(***************************************************************************)
EXTENDS LlmStep

CONSTANTS
  Procs, Global, Scopes, Rank, OfJob, BudgetDocs, Guarded, Spendings,   \* Budgets
  DaysPerMonth, PurgeDays, MaxDay, MaxRuns, MaxSyncs,
  Pricers, Sold, Shipped, Listable, Prefixed, Prices,                   \* CallPrices
  MaxPriceTime, MaxPriceEdits, MaxPriced,
  Golden, Compared, Flagged, Scores, Threshold, Payloads,               \* EvalReplay
  MaxReplayEdits

VARIABLES
  part,
  budgets, spentRuns, day, proc, syncs, synced,
  rates, registered, pricedRuns, pricer, time, priceEdits,
  config, payload, tagged, approved, adding, listed, replay, rows, results, job, replayEdits

budgetVars  == <<budgets, spentRuns, day, proc, syncs, synced>>
pricingVars == <<rates, registered, pricedRuns, pricer, time, priceEdits>>
replayVars  ==
  <<config, payload, tagged, approved, adding, listed, replay, rows, results, job, replayEdits>>

-----------------------------------------------------------------------------
Budget == INSTANCE Budgets WITH
  Docs <- BudgetDocs, Calls <- Guarded, Uses <- Spendings, runs <- spentRuns

Pricing == INSTANCE CallPrices WITH
  Callers <- Pricers, Models <- Sold, Builtin <- Shipped, Begins <- Prefixed,
  MaxTime <- MaxPriceTime, MaxEdits <- MaxPriceEdits, MaxCalls <- MaxPriced,
  runs <- pricedRuns, caller <- pricer, edits <- priceEdits

Replay == INSTANCE EvalReplay WITH
  Runs <- Golden, Configs <- Compared, MaxEdits <- MaxReplayEdits, edits <- replayEdits

ASSUME BudgetAssumption ==
  Budget!DocAssumption /\ Budget!UseAssumption /\ Budget!PurgeAssumption

ASSUME PricingAssumption == Pricing!PriceAssumption /\ Pricing!NoneAssumption

ASSUME ReplayAssumption ==
  Replay!RunAssumption /\ Replay!ScoreAssumption /\ Replay!NoneAssumption

-----------------------------------------------------------------------------
Parts == {"usage", "budget", "pricing", "replay"}

SpendInit == part \in Parts /\ Init /\ Budget!Init /\ Pricing!Init /\ Replay!Init

SpendNext ==
  \/ part = "usage" /\ Next /\ UNCHANGED <<part, budgetVars, pricingVars, replayVars>>
  \/ part = "budget" /\ Budget!Next /\ UNCHANGED <<part, vars, pricingVars, replayVars>>
  \/ part = "pricing" /\ Pricing!Next /\ UNCHANGED <<part, vars, budgetVars, replayVars>>
  \/ part = "replay" /\ Replay!Next /\ UNCHANGED <<part, vars, budgetVars, pricingVars>>

spendVars == <<part, vars, budgetVars, pricingVars, replayVars>>

SpendSpec == SpendInit /\ [][SpendNext]_spendVars

-----------------------------------------------------------------------------
\* The caps of the file are in force, and the guard's verdict is theirs.
CapsAreInForce == Budget!CapsAreInForce

\* The caps are never all dropped, and what is held against them is what was called.
SpendIsCapped == Budget!SpendIsCapped

\* A projection of nothing for a model that costs something is warned of.
ZeroIsWarnedOf == Pricing!ZeroIsWarnedOf

\* What the report of a replay says is what the tables say.
ReportMatchesRows == Replay!ReportMatchesRows
=============================================================================
