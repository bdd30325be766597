----------------------------- MODULE MCLlmSpend ------------------------------
(***************************************************************************)
(* LlmSpend on a small instance, for TLC.                                  *)
(***************************************************************************)
EXTENDS LlmSpend, TLC

CONSTANTS agentScope, kindScope, tagScope, g1, g2

-----------------------------------------------------------------------------
\* Not cached, strict with truncated answers.
Strict == [cache |-> FALSE, validate |-> TRUE, onTruncation |-> "fail"]
Uncached == {Strict}

-----------------------------------------------------------------------------
(* The caps of the file: a warn tripwire over two block caps, one cap alone, an agent's block  *)
(* that does not parse, an empty file, no file and a file that cannot be read.                 *)

MCScopes == {agentScope, kindScope}
MCOfJob  == {kindScope}
RankOf == [s \in {Global, agentScope, kindScope, tagScope} |->
             CASE s = Global -> 0 [] s = agentScope -> 1 [] s = kindScope -> 2 [] s = tagScope -> 4]
Key(scope, period) == [scope |-> scope, period |-> period]
Cap(usd, calls, action) == [limit |-> <<usd, None, calls>>, action |-> action]
Parsed(caps) == [state |-> "parsed", caps |-> caps]

Full == (Key(Global, "daily") :> Cap(None, 0, "warn"))
          @@ (Key(agentScope, "monthly") :> Cap(2, 1, "block"))
          @@ (Key(kindScope, "daily") :> Cap(1, None, "block"))
MCBudgetDocs ==
  {Parsed(Full),
   Parsed((Key(Global, "daily") :> Cap(1, None, "block"))
            @@ (Key(agentScope, "daily") :> Cap(1, None, "warn"))),
   Parsed((Key(Global, "daily") :> Cap(3, 2, "block")) @@ (Key(agentScope, "monthly") :> None)),
   Parsed(<<>>), [state |-> "absent", caps |-> <<>>], [state |-> "broken", caps |-> <<>>]}
MCGuarded == {[scopes |-> {agentScope, kindScope}, projected |-> <<1, 0, 1>>],
              [scopes |-> {agentScope}, projected |-> <<0, 0, 1>>]}
MCSpendings == {<<0, 0, 1>>, <<2, 1, 1>>}

-----------------------------------------------------------------------------
\* A priced family of models, and a model nobody ships a price for.
MCShipped  == [p1 |-> <<<<"pre", 1>>>>, p2 |-> <<>>]
MCPrefixed == {<<"pre", "pre-mini">>, <<"pre-mini", "pre-mini">>, <<"new", "new">>}
MCSold     == {[provider |-> None, space |-> "p1", name |-> "pre-mini"],
               [provider |-> "p2", space |-> None, name |-> "new"]}

-----------------------------------------------------------------------------
\* Two golden runs, one of them flagged, compared behind a gate or judged.
MCGolden  == {g1, g2}
MCFlagged == {g2}
MCCompared ==
  {[compare |-> "diff", gate |-> 1, width |-> 2], [compare |-> "judge", gate |-> None, width |-> 1]}

-----------------------------------------------------------------------------
MCInit ==
  /\ SpendInit
  /\ part # "replay" => /\ config = [compare |-> "diff", gate |-> 1, width |-> 2]
                        /\ payload = [g \in Golden |-> "dict"] /\ tagged = {}

MCSpec == MCInit /\ [][SpendNext]_spendVars

Interchangeable == Permutations(Callers) \cup Permutations(Refreshers)
=============================================================================
