----------------------------- MODULE MCLlmCalls ------------------------------
(***************************************************************************)
(* LlmCalls on a small instance, for TLC.                                  *)
(***************************************************************************)
EXTENDS LlmCalls, TLC

CONSTANTS ant, opr, cli, u1, u2

-----------------------------------------------------------------------------
(* The step: how it is called. *)

\* Validated and cached, lenient with truncated answers.
Lenient == [cache |-> TRUE, validate |-> TRUE, onTruncation |-> "warn"]

\* Not cached, strict with truncated answers.
Strict == [cache |-> FALSE, validate |-> TRUE, onTruncation |-> "fail"]

Validating == {Lenient, Strict}

-----------------------------------------------------------------------------
(* The router: nested documents that differ in order, default, fallback and kwargs; a flat one, *)
(* one without the agent, and one the schema refuses.                                           *)

KindOf == ant :> "anthropic" @@ opr :> "openrouter" @@ cli :> "claude_code"

Nested(declared, default, fallback, retries) ==
  [form |-> "nested", declared |-> declared, default |-> default, client |-> opr,
   fallback |-> fallback, retry |-> retries]
Bare(form) == [Nested(<<>>, None, FALSE, ant :> None @@ opr :> None @@ cli :> None) EXCEPT !.form = form]

MCRouterDocs ==
  {Nested(<<opr, ant>>, ant, TRUE, ant :> 1 @@ opr :> None @@ cli :> None),
   Nested(<<cli, opr>>, None, TRUE, ant :> None @@ opr :> 1 @@ cli :> 0),
   Nested(<<ant, opr>>, ant, FALSE, ant :> 0 @@ opr :> 0 @@ cli :> None),
   Nested(<<ant>>, None, FALSE, ant :> 0 @@ opr :> None @@ cli :> None),
   Bare("flat"), Bare("absent"), Bare("nested")}

-----------------------------------------------------------------------------
(* The answers: JSON, JSON after prose and an empty bracket, an array cut after a complete     *)
(* element, an object cut, and no JSON; with what a provider may say of each.                  *)

Object(whole) ==
  [kind |-> "object", whole |-> whole, empty |-> FALSE, shaped |-> TRUE, urls |-> <<u1>>,
   field |-> "text", items |-> 1, day |-> 1, breaks |-> FALSE, consistent |-> TRUE]
Array(whole) == [Object(whole) EXCEPT !.kind = "array", !.items = None, !.day = None]
Decoy == [Object(TRUE) EXCEPT !.empty = TRUE, !.shaped = FALSE, !.items = None, !.day = None]
Nothing == [loads |-> None, span |-> None, recover |-> None, repair |-> None]

Whole     == [Nothing EXCEPT !.loads = [Object(TRUE) EXCEPT !.urls = <<u1, u2, u1>>]]
Malformed == [Nothing EXCEPT !.span = Decoy, !.repair = [Object(TRUE) EXCEPT !.breaks = TRUE]]
CutArray  == [Nothing EXCEPT !.recover = Array(FALSE), !.repair = Array(FALSE)]
CutObject == [Nothing EXCEPT !.repair = Object(FALSE)]
MCAnswers ==
  {[text |-> Whole, finish |-> "stop"], [text |-> Malformed, finish |-> "odd"],
   [text |-> Nothing, finish |-> "stop"], [text |-> CutArray, finish |-> "length"],
   [text |-> CutArray, finish |-> "odd"], [text |-> CutObject, finish |-> "odd"]}

Way(by, check) ==
  [entry |-> by, json |-> FALSE, retry |-> TRUE, onTruncation |-> "raise",
   onRecord |-> "raise", check |-> check, onCut |-> "fail", missing |-> "raise"]
MCWays ==
  {[Way("tracked", "none") EXCEPT !.json = TRUE],
   [Way("tracked", "value") EXCEPT !.json = TRUE, !.onTruncation = "warn", !.onRecord = "warn"],
   Way("tracked", "parse"),
   [Way("messages", "parse") EXCEPT !.onCut = "warn", !.missing = "fallback"],
   Way("decorated", "parse")}

Check(name, severity, arg) ==
  [name |-> name, severity |-> severity, arg |-> arg, start |-> Today, end |-> Today]
Registrable ==
  {[shape |-> "model", version |-> 1,
    checks |-> <<Check("date_range", "error", 0), Check("tier1_ratio", "error", 60),
                 Check("own", "warn", 0)>>],
   [shape |-> "none", version |-> 2,
    checks |-> <<Check("min_items", "error", 2), Check("url_sanity", "warn", 0),
                 Check("no_duplicate_urls", "error", 0), Check("field_non_empty", "warn", 0)>>]}

UrlHooks == [hallucinated |-> {u2}, tier1 |-> {u1}]
MCDocuments == {<<"a">>, <<"b">>, <<"a", "b">>}

-----------------------------------------------------------------------------
\* Of the documents, only the parts that read them have more than one.
MCInit ==
  /\ CallsInit
  /\ part # "agent" => file = Bare("flat") /\ env = None
  /\ part # "answer" => registered = None /\ doc = <<"a">>

MCSpec == MCInit /\ [][CallsNext]_callsVars

CallerSymmetry == Permutations(Callers)
=============================================================================
