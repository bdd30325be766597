----------------------------- MODULE Background -----------------------------
(***************************************************************************)
(* Work handed to threads and waited for: jobs submitted in the background *)
(* (JobSubmit), and a batch mapped over workers (ParallelMap).             *)
(* A behaviour exercises one of them, chosen at the start.                 *)
(***************************************************************************)
EXTENDS JobSubmit

CONSTANTS Items, Widths, MaxFails

VARIABLES part, workers, end, item, lock, done, reports, failures, errors, outcome
poolVars == <<workers, end, item, lock, done, reports, failures, errors, outcome>>

Pool == INSTANCE ParallelMap

ASSUME PoolAssumption == Pool!ItemsAssumption

BackgroundInit ==
  /\ part \in {"submit", "pool"}
  /\ Init /\ Pool!Init
  /\ part # "pool" => workers = 0 /\ end = [i \in 1 .. Items |-> "ok"]

BackgroundNext ==
  \/ part = "submit" /\ Next /\ UNCHANGED <<part, poolVars>>
  \/ part = "pool" /\ Pool!Next /\ UNCHANGED <<part, vars>>

backgroundVars == <<part, vars, poolVars>>

\* The fairness of each part while it is the one that runs.
BackgroundSpec ==
  /\ BackgroundInit /\ [][BackgroundNext]_backgroundVars
  /\ \A s \in Sessions : /\ WF_vars(part = "submit" /\ SessionStep(s))
                         /\ WF_vars(part = "submit" /\ ThreadStep(s))
  /\ WF_poolVars(part = "pool" /\ Pool!Next)

\* A batch ends, with no item and no failure left out.
BatchSettles == part = "pool" => Pool!BatchEnds
=============================================================================
