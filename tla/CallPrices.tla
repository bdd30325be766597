----------------------------- MODULE CallPrices -----------------------------
(***************************************************************************)
(* What a planned call is projected to cost (budget/check.py               *)
(* project_cost): by the llm_cost_rates row in effect (budget/repo.py      *)
(* CostRateRepo), else the price list (pricing/_resolver.py), else the     *)
(* mean of the last day's runs.                                            *)
(*                                                                         *)
(* Each source is read at a time of its own, while operators upsert rates, *)
(* the application registers prices and calls are recorded.  Time is half  *)
(* days.  Prices are those of a call of the estimated size.                *)
(***************************************************************************)
EXTENDS Naturals, Sequences, SequencesExt, FiniteSets, Functions

CONSTANTS
  Callers,
  Models,        \* [provider, space, name]: as passed, space the part before a "/"
  Builtin,       \* [provider -> <<prefix, price>>s in the order of the table]
  Listable,
  Begins,        \* the <<prefix, name>> such that name starts with prefix
  Prices,
  MaxTime, MaxEdits, MaxCalls,   \* bounds
  None

Providers == DOMAIN Builtin

\* The price list is priced as rates and registered prices are.
PriceAssumption ==
  /\ Prices \subseteq Nat /\ IsFiniteSet(Providers)
  /\ \A p \in Providers :
       DOMAIN Builtin[p] \subseteq Nat /\ \A i \in DOMAIN Builtin[p] : Builtin[p][i][2] \in Prices
NoneAssumption == None \notin Nat \cup Providers
DayOf(t)  == t \div 2

VARIABLES
  rates,         \* llm_cost_rates: [model, from, to, price]
  registered,    \* [provider -> <<prefix, price>>s in the order they were first registered]
  runs,          \* [model, cost, ok, at]
  caller,
  time, edits

priceVars == <<rates, registered, runs, caller, time, edits>>

IdleCaller == [pc |-> "idle", model |-> None, row |-> None, found |-> FALSE, projected |-> None,
               warned |-> FALSE]

Init ==
  /\ rates = {} /\ registered = [p \in Providers |-> <<>>]
  /\ runs = <<>>
  /\ caller = [c \in Callers |-> IdleCaller]
  /\ time = 0 /\ edits = 0

Set(c, me) == caller' = [caller EXCEPT ![c] = me]
Edits      == edits < MaxEdits /\ edits' = edits + 1

-----------------------------------------------------------------------------
(* Rates and prices. *)

KeyOf(row) == <<row.model, row.from>>

\* CostRateRepo.upsert looks for the row of the model and day, then updates or inserts it.
UpsertRead(c) ==
  /\ caller[c].pc = "idle" /\ Edits
  /\ \E m \in Models, price \in Prices, to \in {None, DayOf(time)} :
       LET row == [model |-> m, from |-> DayOf(time), to |-> to, price |-> price]
       IN Set(c, [IdleCaller EXCEPT !.pc = "upsert", !.row = row,
                                    !.found = \E r \in rates : KeyOf(r) = KeyOf(row)])
  /\ UNCHANGED <<rates, registered, runs, time>>

\* The primary key refuses an insert if another writer was first.
UpsertWrite(c) ==
  /\ caller[c].pc = "upsert"
  /\ LET row    == caller[c].row
         others == {r \in rates : KeyOf(r) # KeyOf(row)}
     IN rates' = IF caller[c].found \/ others = rates THEN others \cup {row} ELSE rates
  /\ Set(c, IdleCaller)
  /\ UNCHANGED <<registered, runs, time, edits>>

\* register_rates: a prefix that is registered again keeps its place.
Registered(table, prefix, price) ==
  IF \E i \in DOMAIN table : table[i][1] = prefix
    THEN [i \in DOMAIN table |-> IF table[i][1] = prefix THEN <<prefix, price>> ELSE table[i]]
    ELSE Append(table, <<prefix, price>>)

Register ==
  /\ Edits
  /\ \E p \in Providers, prefix \in Listable, price \in Prices :
       registered' = [registered EXCEPT ![p] = Registered(@, prefix, price)]
  /\ UNCHANGED <<rates, runs, caller, time>>

-----------------------------------------------------------------------------
(* project_cost. *)

Begin(c) ==
  /\ caller[c].pc = "idle" /\ Len(runs) < MaxCalls
  /\ \E m \in Models : Set(c, [IdleCaller EXCEPT !.pc = "rate", !.model = m])
  /\ UNCHANGED <<rates, registered, runs, time, edits>>

InEffect(m) ==
  {r \in rates : r.model = m /\ r.from <= DayOf(time) /\ (r.to = None \/ r.to >= DayOf(time))}

\* get_effective: of the rows in effect, the one that came into effect last.
GetEffective(m) ==
  IF InEffect(m) = {} THEN None
  ELSE (CHOOSE r \in InEffect(m) : \A s \in InEffect(m) : r.from >= s.from).price

\* A provider without a table, or none at all, searches every table.
Normalized(m) == IF m.space \in Providers THEN m.space ELSE m.provider

TablesFor(m) ==
  IF Normalized(m) \in Providers THEN <<registered[Normalized(m)], Builtin[Normalized(m)]>>
  ELSE LET all == SetToSeq(Providers)
       IN [i \in DOMAIN all |-> registered[all[i]]] \o [i \in DOMAIN all |-> Builtin[all[i]]]

\* Where a prefix matches, <<table, place>>; an id with an unknown space is matched as a whole.
Matches(m) ==
  LET tables == TablesFor(m)
  IN {at \in UNION {{t} \X DOMAIN tables[t] : t \in DOMAIN tables} :
        /\ m.space = None \/ m.space \in Providers
        /\ <<tables[at[1]][at[2]][1], m.name>> \in Begins}

\* The first of them, table by table.
First(places) ==
  CHOOSE at \in places :
    \A other \in places : at[1] < other[1] \/ (at[1] = other[1] /\ at[2] <= other[2])

\* get_rates: the price of the first prefix that matches.
GetRates(m) ==
  LET at == First(Matches(m))
  IN IF Matches(m) = {} THEN None ELSE TablesFor(m)[at[1]][at[2]][2]

\* Faulty variant: estimate_cost, for which a model without a price is free.
EstimateCost(m) == IF GetRates(m) = None THEN 0 ELSE GetRates(m)

PriceCall(m) == GetRates(m)

Projected(me, price, next) ==
  IF price = None THEN [me EXCEPT !.pc = next] ELSE [me EXCEPT !.pc = "chat", !.projected = price]

ReadRate(c) ==
  /\ caller[c].pc = "rate"
  /\ Set(c, Projected(caller[c], GetEffective(caller[c].model), "list"))
  /\ UNCHANGED <<rates, registered, runs, time, edits>>

ReadList(c) ==
  /\ caller[c].pc = "list"
  /\ Set(c, Projected(caller[c], PriceCall(caller[c].model), "mean"))
  /\ UNCHANGED <<rates, registered, runs, time, edits>>

\* The mean of the last two half days, rounded up: 0 only if nothing cost anything.
RecentMean(m) ==
  LET recent == {i \in DOMAIN runs : runs[i].model = m /\ runs[i].ok /\ runs[i].at + 2 >= time}
      n      == Cardinality(recent)
      sum    == SumFunction([i \in recent |-> runs[i].cost])
  IN IF recent = {} THEN None ELSE (sum + n - 1) \div n

\* Where nothing prices the call the projection is 0, with a warning.
ReadMean(c) ==
  /\ caller[c].pc = "mean"
  /\ LET mean == RecentMean(caller[c].model) IN
     Set(c, IF mean # None THEN Projected(caller[c], mean, None)
            ELSE [caller[c] EXCEPT !.pc = "chat", !.projected = 0, !.warned = TRUE])
  /\ UNCHANGED <<rates, registered, runs, time, edits>>

\* The call is made and recorded.  A client reports what it was billed, or estimate_cost.
Record(c) ==
  /\ caller[c].pc = "chat" /\ Len(runs) < MaxCalls
  /\ \E ok \in BOOLEAN, cost \in Prices \cup {EstimateCost(caller[c].model)} :
       runs' = Append(runs, [model |-> caller[c].model, cost |-> IF ok THEN cost ELSE 0,
                             ok |-> ok, at |-> time])
  /\ Set(c, IdleCaller)
  /\ UNCHANGED <<rates, registered, time, edits>>

Tick ==
  /\ time < MaxTime /\ time' = time + 1
  /\ UNCHANGED <<rates, registered, runs, caller, edits>>

Next ==
  \/ \E c \in Callers : \/ UpsertRead(c) \/ UpsertWrite(c)
                        \/ Begin(c) \/ ReadRate(c) \/ ReadList(c) \/ ReadMean(c) \/ Record(c)
  \/ Register \/ Tick

Spec == Init /\ [][Next]_priceVars

-----------------------------------------------------------------------------
Silent(me) == me.pc = "chat" /\ me.projected = 0 /\ ~me.warned

\* "Unknown price, which a zero-rate model is not": where no price is 0, a projection of 0 that
\* nobody is warned of is of a model whose price was not known while it ran successfully before.
ZeroIsWarnedOf ==
  0 \notin Prices => \A c \in Callers : Silent(caller[c]) =>
    \E i \in DOMAIN runs : runs[i].model = caller[c].model /\ runs[i].ok /\ runs[i].cost = 0

\* docs/cost-budget.md: "When none of the three can price the call, the projection is unknown, not
\* free: project_cost() logs budget_projection_unknown", so that "the gap is visible rather than
\* silent".  False: the runs of a model without a price cost 0.0, and their mean is a price.
UnknownIsLogged == 0 \notin Prices => \A c \in Callers : ~Silent(caller[c])

=============================================================================
