------------------------------ MODULE Articles ------------------------------
(***************************************************************************)
(* An article read from the web without ever raising                       *)
(* (utils/article_fetch.py): attempts at the live page, then the archive   *)
(* if that may help.  Each request may be answered in any way, and a page  *)
(* may hold an article, the teaser of a paywall, or no text.               *)
(***************************************************************************)
EXTENDS Naturals

CONSTANTS
  Readers,
  Attempts,   \* _RETRY_ATTEMPTS
  MaxReads,   \* bound
  None

ArticlesAssumption ==
  /\ Attempts \in Nat \ {0}
  /\ None \notin {"not_found", "unsupported_content_type"}

VARIABLES reader, reads

articleVars == <<reader, reads>>

IdleReader == [pc |-> "idle", archive |-> FALSE, attempt |-> 1, live |-> None, lookups |-> 0,
               requests |-> 0, status |-> None, from |-> None]

Init == reader = [r \in Readers |-> IdleReader] /\ reads = 0

Put(r, me) == reader' = [reader EXCEPT ![r] = me]
Permanent(status) == status \in {"not_found", "unsupported_content_type"}

ReadBegin(r) ==
  /\ reader[r].pc = "idle" /\ reads < MaxReads
  /\ reads' = reads + 1
  /\ \E archive \in BOOLEAN : Put(r, [IdleReader EXCEPT !.pc = "live", !.archive = archive])

\* What an attempt makes of its answer; an empty body is an error to try again.
Outcomes == {"html", "unsupported_content_type", "paywalled", "not_found", "blocked",
             "timeout", "error"}
Retried(outcome) == outcome \in {"timeout", "error"}

\* The reader returns the live verdict, with what was read of the page if it had no body.
Returns(me, status, from) == [me EXCEPT !.pc = "idle", !.status = status, !.from = from]

\* Faulty variant: every failure is looked up.
LooksUpAlways(me, status) == me.archive

LooksUp(me, status) == me.archive /\ ~Permanent(status)

Fails(me, status) ==
  IF LooksUp(me, status) THEN [me EXCEPT !.pc = "lookup", !.live = status]
  ELSE Returns([me EXCEPT !.live = status], status, IF status = "no_content" THEN "page" ELSE None)

Attempt(me, outcome) ==
  IF Retried(outcome) /\ me.attempt < Attempts
    THEN {[me EXCEPT !.attempt = @ + 1, !.requests = @ + 1]}
  ELSE LET now == [me EXCEPT !.requests = @ + 1]
       IN IF outcome # "html" THEN {Fails(now, outcome)}
          ELSE {Returns([now EXCEPT !.live = "ok"], "ok", "page"), Fails(now, "no_content"),
                Fails(now, "paywalled")}

ReadLive(r) ==
  /\ reader[r].pc = "live"
  /\ \E outcome \in Outcomes : \E me \in Attempt(reader[r], outcome) : Put(r, me)
  /\ UNCHANGED reads

\* wayback_exists_at: a snapshot, or none, or no answer.
LookUp(r) ==
  /\ reader[r].pc = "lookup"
  /\ \/ Put(r, [reader[r] EXCEPT !.pc = "snapshot", !.attempt = 1, !.lookups = @ + 1])
     \/ Put(r, Returns([reader[r] EXCEPT !.lookups = @ + 1], reader[r].live,
                       IF reader[r].live = "no_content" THEN "page" ELSE None))
  /\ UNCHANGED reads

\* A snapshot without a body is no better than none; one that looks paywalled is taken.
Snapshot(me, outcome) ==
  IF Retried(outcome) /\ me.attempt < Attempts
    THEN {[me EXCEPT !.attempt = @ + 1, !.requests = @ + 1]}
  ELSE LET now  == [me EXCEPT !.requests = @ + 1]
           none == Returns(now, now.live, IF now.live = "no_content" THEN "page" ELSE None)
       IN IF outcome = "html" THEN {Returns(now, "ok", "snapshot"), none} ELSE {none}

ReadSnapshot(r) ==
  /\ reader[r].pc = "snapshot"
  /\ \E outcome \in Outcomes : \E me \in Snapshot(reader[r], outcome) : Put(r, me)
  /\ UNCHANGED reads

Next == \E r \in Readers : ReadBegin(r) \/ ReadLive(r) \/ LookUp(r) \/ ReadSnapshot(r)

Spec == Init /\ [][Next]_articleVars

-----------------------------------------------------------------------------
\* An article that could not be read has the status of the live page, never a vaguer one of the
\* archive's; a final status is not taken to the archive; and no more requests are made than
\* the attempts at the page and at one snapshot.
VerdictIsTheLive ==
  \A r \in Readers :
    /\ reader[r].status # None =>
         \/ reader[r].status = reader[r].live
         \/ reader[r].status = "ok" /\ reader[r].from = "snapshot"
    /\ Permanent(reader[r].live) => reader[r].lookups = 0
    /\ reader[r].requests <= Attempts * (1 + reader[r].lookups) /\ reader[r].lookups <= 1

=============================================================================
