----------------------------- MODULE Validators -----------------------------
(***************************************************************************)
(* What the answer of a model is worth: how a text becomes a value         *)
(* (llm/parse.py) and what the built-in checks say of the value            *)
(* (llm/validate/_semantic.py).  A text is known by what each extraction   *)
(* step finds in it; a value by what the checks look at.                   *)
(***************************************************************************)
EXTENDS Naturals, Sequences, SequencesExt, FiniteSetsExt, Functions

CONSTANTS None, Today

\* truncated_from_usage: a reason outside both vocabularies says nothing.
TruncatedFromUsage(finish) ==
  CASE finish \in {"length", "max_tokens"} -> TRUE
    [] finish \in {"stop", "tool_use"}     -> FALSE
    [] OTHER                               -> None

\* The first of some values that is one.
FirstOf(values) ==
  LET there == {i \in DOMAIN values : values[i] # None}
  IN IF there = {} THEN None ELSE values[Min(there)]

\* The value of a text, or None.  The steps in order: the text itself, a balanced span in it, the
\* complete elements of an array that was cut, a permissive repair.  A span that is an empty
\* container is kept back until nothing else is found.  Elements of a cut array are refused
\* under on_truncation="raise", as is any answer known to be truncated.
Parsed(text, expect, onTruncation, truncated) ==
  LET span    == IF text.span # None /\ text.span.empty THEN None ELSE text.span
      recover == IF expect = "object" THEN None ELSE text.recover
      value   == FirstOf(<<text.loads, span, recover, text.repair, text.span>>)
  IN IF \/ onTruncation = "raise" /\ truncated = TRUE
        \/ onTruncation = "raise" /\ text.loads = None /\ span = None /\ recover # None
        \/ value # None /\ expect # "any" /\ value.kind # expect
       THEN None ELSE value

-----------------------------------------------------------------------------
(* The built-in checks.  A passing check reports at severity "info".       *)

Signal(name, severity, passed) ==
  [validator |-> name, severity |-> IF passed THEN "info" ELSE severity, passed |-> passed]

UrlSanity(v, check, hooks) ==
  Signal("url_sanity", check.severity, \A u \in ToSet(v.urls) : u \notin hooks.hallucinated)

\* At least arg percent of the URLs are of tier-1 domains, if there are any of either.
Tier1Ratio(v, check, hooks) ==
  LET hits == Len(SelectSeq(v.urls, LAMBDA u : u \in hooks.tier1)) IN
  Signal("tier1_ratio", check.severity,
         v.urls = <<>> \/ hooks.tier1 = {} \/ hits * 100 >= check.arg * Len(v.urls))

FieldNonEmpty(v, check) == Signal("field_non_empty", check.severity, v.field \notin {None, "blank"})

\* A field that is not a list fails.
MinItems(v, check) ==
  Signal("min_items", check.severity, v.items # None /\ v.items >= check.arg)

NoDuplicateUrls(v, check) == Signal("no_duplicate_urls", check.severity, IsInjective(v.urls))

\* The range was built with the pipeline: its end is read from the clock at every call, its
\* start was read when it was built.  A missing day, and one that is no ISO date, fail.
DateRange(v, check, today) ==
  Signal("date_range", check.severity,
         /\ v.day # None /\ check.start <= v.day
         /\ v.day <= IF check.end = Today THEN today ELSE check.end)

Built(check, today) ==
  IF check.name = "date_range" /\ check.start = Today THEN [check EXCEPT !.start = today] ELSE check

\* A check that raises is an error, whatever its severity: a project's own check may.
Checked(v, check, hooks, today) ==
  CASE check.name = "url_sanity"        -> UrlSanity(v, check, hooks)
    [] check.name = "tier1_ratio"       -> Tier1Ratio(v, check, hooks)
    [] check.name = "field_non_empty"   -> FieldNonEmpty(v, check)
    [] check.name = "min_items"         -> MinItems(v, check)
    [] check.name = "no_duplicate_urls" -> NoDuplicateUrls(v, check)
    [] check.name = "date_range"        -> DateRange(v, check, today)
    [] OTHER -> Signal(check.name, IF v.breaks THEN "error" ELSE check.severity,
                       ~v.breaks /\ v.consistent)

\* ValidationResult.failures; the result is ok if there are none.
Failures(signals) == {s \in ToSet(signals) : ~s.passed /\ s.severity = "error"}

=============================================================================
