------------------------------ MODULE JobTable ------------------------------
(***************************************************************************)
(* The `jobs` table of pf_core.jobs: the lifecycle registry and, for one   *)
(* row, what each SQL statement of JobRepo does to it.                     *)
(*                                                                         *)
(* A row keeps the columns that some guard reads: the status, the lease    *)
(* (claimed_by, claimed_at), finished_at and priority.  The database       *)
(* compares timestamps only with "now minus a window", so a timestamp is   *)
(* kept as its age in ticks, saturating one past the longest window it is  *)
(* ever compared with.                                                     *)
(***************************************************************************)
EXTENDS Naturals

CONSTANTS
  Workers,      \* worker ids written to claimed_by
  Lease,        \* JOB_LEASE_SECONDS, in ticks
  Retention,    \* the age at which purge may delete a finished row, in ticks
  None,         \* SQL NULL
  NoRow         \* the id has no row: not created yet, or purged

ASSUME LeaseAssumption     == Lease \in Nat
ASSUME RetentionAssumption == Retention \in Nat
ASSUME NullAssumption      == None \notin Workers /\ None \notin Nat

-----------------------------------------------------------------------------
(* The registry: statuses and the default transition table. *)

Statuses == {"pending", "running", "succeeded", "failed", "canceled", "partial"}

DEFAULT_TRANSITIONS ==
  [ pending   |-> {"running", "canceled"},
    running   |-> {"succeeded", "failed", "partial", "canceled"},
    partial   |-> {"running", "failed", "canceled"},
    failed    |-> {"pending"},
    canceled  |-> {},
    succeeded |-> {} ]

TERMINAL_STATES == {"succeeded", "failed", "canceled"}

\* Faulty variant: retry accepts a running job.
RetryableOrRunning == {"failed", "partial", "canceled", "running"}

RetryableStates == {"failed", "partial", "canceled"}

can_transition(from, to) == to \in DEFAULT_TRANSITIONS[from]

-----------------------------------------------------------------------------
(* Rows. *)

ClaimAges  == 0..(Lease + 1)
FinishAges == 0..(Retention + 1)

Row == [ status     : Statuses,
         claimed_by : Workers \cup {None},
         claimed    : ClaimAges \cup {None},
         finished   : FinishAges \cup {None},
         priority   : 0..100 ]

ASSUME NoRowAssumption == NoRow \notin Row

NewRow(p) == [ status     |-> "pending",
               claimed_by |-> None,
               claimed    |-> None,
               finished   |-> None,
               priority   |-> p ]

\* One tick older, up to the saturation point.
Older(age, window) ==
  IF age = None THEN None ELSE IF age > window THEN age ELSE age + 1

Aged(r) == [r EXCEPT !.claimed  = Older(@, Lease),
                     !.finished = Older(@, Retention)]

Expired(r) == r.claimed # None /\ r.claimed > Lease

\* The two columns of the lease agree, and a settled row has no lease.
LeaseOK(r) ==
  /\ r.claimed_by = None <=> r.claimed = None
  /\ r.status \in TERMINAL_STATES => r.claimed_by = None

-----------------------------------------------------------------------------
(* The statements, each the new value of the row it matches. *)

\* Faulty variants, to see that the properties notice them: a claim that ignores
\* the claim of another worker, a touch that forgets claimed_at, a settled row
\* that keeps its claim, a retry without the cap on priority, a reclaim of any
\* claimed job, and one that leaves the status "running".
ClaimableIgnoringClaims(r) == r.status = "pending"
TouchUnstamped(r)      == r
SettledClaimed(r, s)   == [r EXCEPT !.status = s, !.finished = 0]
RetriedUncapped(r, seen) == [r EXCEPT !.status = "pending", !.finished = None,
                                      !.claimed_by = None, !.claimed = None,
                                      !.priority = seen + 10]
StaleAnyAge(r)         == r.status = "running" /\ r.claimed_by # None
ReclaimedRunning(r)    == [r EXCEPT !.claimed_by = None, !.claimed = None]

\* WHERE of both statements of claim_next.
Claimable(r) == r.status = "pending" /\ (r.claimed_by = None \/ Expired(r))

\* UPDATE of claim_next: the status stays "pending".
Claim(r, w) == [r EXCEPT !.claimed_by = w, !.claimed = 0]

\* _touch_job_lease and renew_lease: whoever calls, the claim of the row is
\* renewed; an unclaimed row is left alone.
Touch(r) == IF r.claimed_by = None THEN r ELSE [r EXCEPT !.claimed = 0]

\* A settled row: finished_at stamped, claim cleared.
Settled(r, s) == [r EXCEPT !.status = s, !.finished = 0,
                           !.claimed_by = None, !.claimed = None]

\* UPDATE of transition, with the touch of the same transaction.
Transitioned(r, to) ==
  IF to \in TERMINAL_STATES THEN Settled(r, to) ELSE Touch([r EXCEPT !.status = to])

\* UPDATE of Job._force_fail.
ForceFailed(r) == Settled(r, "failed")

\* UPDATE of retry; the priority is computed from the row it had SELECTed.
Retried(r, seen) ==
  [r EXCEPT !.status = "pending", !.finished = None,
            !.claimed_by = None, !.claimed = None,
            !.priority = IF seen + 10 > 100 THEN 100 ELSE seen + 10]

\* WHERE and SET of reclaim_stale.
Stale(r) == r.status = "running" /\ Expired(r)
Reclaimed(r) ==
  [r EXCEPT !.status = "pending", !.claimed_by = None, !.claimed = None]

\* WHERE of purge, restricted to the statuses it is asked for.
Purgeable(r, statuses) ==
  /\ r.finished # None
  /\ r.finished > Retention
  /\ r.status \in statuses
=============================================================================
