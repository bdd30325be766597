---------------------------- MODULE JobDispatch ----------------------------
(***************************************************************************)
(* What the job queue promises its users: a submitted job waits in the     *)
(* queue until one worker takes it; the worker settles it or drops it back *)
(* into the queue; a settled job changes again only by an explicit retry,  *)
(* or disappears in a purge.  No lease, no table, no clock.                 *)
(***************************************************************************)
CONSTANTS Jobs, Workers, None

VARIABLES
  state,    \* of each job: "absent", "queued", "settled" or "purged"
  holder    \* the worker that has the job, or None

vars == <<state, holder>>

TypeOK ==
  /\ state  \in [Jobs -> {"absent", "queued", "settled", "purged"}]
  /\ holder \in [Jobs -> Workers \cup {None}]

Init ==
  /\ state  = [j \in Jobs |-> "absent"]
  /\ holder = [j \in Jobs |-> None]

Move(j, from, to) == state[j] = from /\ state' = [state EXCEPT ![j] = to]

Submit(j) == Move(j, "absent", "queued") /\ UNCHANGED holder

\* A worker takes a queued job nobody has; it has at most one at a time.
Take(j, w) ==
  /\ state[j] = "queued" /\ holder[j] = None
  /\ \A k \in Jobs : holder[k] # w
  /\ holder' = [holder EXCEPT ![j] = w]
  /\ UNCHANGED state

\* Only the worker that has the job settles it.
Settle(j) ==
  /\ holder[j] # None
  /\ Move(j, "queued", "settled")
  /\ holder' = [holder EXCEPT ![j] = None]

\* Workers fail or crash: their jobs stay queued.
Drop(S) ==
  /\ holder' = [j \in Jobs |-> IF j \in S THEN None ELSE holder[j]]
  /\ UNCHANGED state

Retry(j) == Move(j, "settled", "queued") /\ UNCHANGED holder

Purge(S) ==
  /\ \A j \in S : state[j] = "settled"
  /\ state' = [j \in Jobs |-> IF j \in S THEN "purged" ELSE state[j]]
  /\ UNCHANGED holder

Next ==
  \/ \E j \in Jobs : Submit(j) \/ Settle(j) \/ Retry(j) \/ \E w \in Workers : Take(j, w)
  \/ \E S \in SUBSET Jobs : Drop(S) \/ Purge(S)

Spec == Init /\ [][Next]_vars

\* Every submitted job is settled in the end, or settled and purged.
EventuallySettled == \A j \in Jobs : state[j] = "queued" ~> state[j] # "queued"
=============================================================================
