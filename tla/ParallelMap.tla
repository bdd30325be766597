---------------------------- MODULE ParallelMap -----------------------------
(***************************************************************************)
(* A batch over a list of items (parallel.py): run_parallel with its       *)
(* workers, progress and held exceptions, and the resilient wrapper that   *)
(* records the failures it catches.                                        *)
(***************************************************************************)
EXTENDS Naturals, Sequences, SequencesExt, FiniteSets

CONSTANTS
  Items,       \* number of items
  Widths,      \* values of workers
  MaxFails     \* bound: items that may fail

ItemsAssumption == Items \in Nat

Index == 1 .. Items

\* What fn does: returns, raises what resilient catches, an Exception it does not, or something
\* that is no Exception (KeyboardInterrupt, SystemExit).
Ends == {"ok", "caught", "uncaught", "interrupt"}

VARIABLES
  workers,
  end,         \* [Index -> Ends]
  item,        \* [Index -> "queued", "run", "count", "report", "done", "error", "stopped"]
  lock,        \* the item that holds the progress lock, 0 if none
  done,        \* done_count
  reports,     \* done counts given to progress_callback (history)
  failures,    \* items recorded by resilient, in order
  errors,      \* items whose exception is held, in order
  outcome      \* "none" while the batch runs; "returned", "raised", "group" or "interrupt"

vars == <<workers, end, item, lock, done, reports, failures, errors, outcome>>

Init ==
  /\ workers \in Widths
  /\ end \in {e \in [Index -> Ends] : Cardinality({i \in Index : e[i] # "ok"}) <= MaxFails}
  /\ item = [i \in Index |-> "queued"]
  /\ lock = 0 /\ done = 0 /\ reports = <<>>
  /\ failures = <<>> /\ errors = <<>>
  /\ outcome = IF Items = 0 THEN "returned" ELSE "none"

Goto(i, pc) == item' = [item EXCEPT ![i] = pc]
In(pcs)     == {i \in Index : item[i] \in pcs}
Busy        == In({"run", "count", "report"})
Width       == IF workers <= 1 THEN 1 ELSE workers

\* An executor hands out the items in order, also after one was interrupted; a plain loop stops.
Take(i) ==
  /\ outcome = "none" /\ item[i] = "queued"
  /\ \A j \in 1 .. i - 1 : item[j] # "queued"
  /\ Cardinality(Busy) < Width
  /\ workers <= 1 => In({"stopped"}) = {}
  /\ Goto(i, "run")
  /\ UNCHANGED <<workers, end, lock, done, reports, failures, errors, outcome>>

\* Faulty variant: what resilient recorded is raised again.
RecordAndRaise(i) ==
  /\ failures' = IF end[i] = "caught" THEN Append(failures, i) ELSE failures
  /\ errors' = IF end[i] \in {"caught", "uncaught"} THEN Append(errors, i) ELSE errors
  /\ Goto(i, CASE end[i] = "ok" -> "count" [] end[i] = "interrupt" -> "stopped" [] OTHER -> "error")

\* The wrapper turns a caught exception into a return; any other Exception is held.
Ended(i) ==
  /\ failures' = IF end[i] = "caught" THEN Append(failures, i) ELSE failures
  /\ errors' = IF end[i] = "uncaught" THEN Append(errors, i) ELSE errors
  /\ Goto(i, CASE end[i] = "uncaught" -> "error" [] end[i] = "interrupt" -> "stopped"
               [] OTHER -> "count")

Work(i) ==
  /\ item[i] = "run"
  /\ Ended(i)
  /\ UNCHANGED <<workers, end, lock, done, reports, outcome>>

\* Faulty variant: counting and reporting are not one critical section.
CountUnlocked(i) ==
  /\ item[i] = "count"
  /\ done' = done + 1
  /\ Goto(i, "report")
  /\ UNCHANGED <<workers, end, lock, reports, failures, errors, outcome>>

Count(i) ==
  /\ item[i] = "count" /\ lock = 0
  /\ lock' = i
  /\ done' = done + 1
  /\ Goto(i, "report")
  /\ UNCHANGED <<workers, end, reports, failures, errors, outcome>>

\* The callback sees the count under the lock.  It may raise: the item was processed, and its
\* exception is held like one of fn.
Report(i) ==
  /\ item[i] = "report"
  /\ lock' = IF lock = i THEN 0 ELSE lock
  /\ \/ /\ reports' = Append(reports, done)
        /\ Goto(i, "done")
        /\ UNCHANGED errors
     \/ /\ errors' = Append(errors, i)
        /\ Goto(i, "error")
        /\ UNCHANGED reports
  /\ UNCHANGED <<workers, end, done, failures, outcome>>

\* Faulty variant: the first held exception stands for all of them.
FirstError == IF errors = <<>> THEN "returned" ELSE "raised"

Held == CASE errors = <<>> -> "returned" [] Len(errors) = 1 -> "raised" [] OTHER -> "group"

\* An interrupt leaves at once in a loop; leaving the executor waits for every item.
Finish ==
  /\ outcome = "none"
  /\ In({"queued"}) = {} \/ (workers <= 1 /\ In({"stopped"}) # {})
  /\ Busy = {}
  /\ outcome' = IF In({"stopped"}) # {} THEN "interrupt" ELSE Held
  /\ UNCHANGED <<workers, end, item, lock, done, reports, failures, errors>>

Next == \/ \E i \in Index : Take(i) \/ Work(i) \/ Count(i) \/ Report(i)
        \/ Finish

Spec == Init /\ [][Next]_vars /\ WF_vars(Next)

-----------------------------------------------------------------------------
\* When the batch is over every item was attempted, at any width and however many failed; only an
\* interrupt of a sequential batch leaves items untouched.
EveryItemAttempted ==
  outcome # "none" => \/ In({"queued"}) = {}
                      \/ workers <= 1 /\ outcome = "interrupt"

\* No failure is lost or told twice: what fn raised is recorded or held, once, what was counted as
\* processed is exactly what fn came back from, and the batch raises all that is held and no more.
FailuresAccounted ==
  outcome # "none" =>
    /\ \A i \in In({"done", "error"}) :
         /\ end[i] = "caught" => Cardinality({k \in DOMAIN failures : failures[k] = i}) = 1
         /\ end[i] = "uncaught" => Cardinality({k \in DOMAIN errors : errors[k] = i}) = 1
    /\ done = Cardinality({i \in In({"done", "error"}) : end[i] # "uncaught"})
    /\ outcome # "interrupt" =>
         /\ (outcome = "returned") <=> (ToSet(errors) = {})
         /\ (outcome = "group") <=> (Cardinality(ToSet(errors)) > 1)

\* The progress a caller is shown only grows, one item at a time.
ProgressGrows == \A k \in 1 .. Len(reports) - 1 : reports[k] < reports[k + 1]

\* A batch leaves no item and no failure out, whatever its items end in.
BatchAccounts == EveryItemAttempted /\ FailuresAccounted /\ ProgressGrows

\* A batch ends, and has then left nothing out.
BatchEnds == <>(outcome # "none" /\ BatchAccounts)
=============================================================================
