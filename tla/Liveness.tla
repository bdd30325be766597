------------------------------ MODULE Liveness ------------------------------
(***************************************************************************)
(* The liveness of a link (utils/urls.py check_url), with a browser's GET  *)
(* where a HEAD is turned away and with cached verdicts                    *)
(* (utils/url_liveness.py).  Each request may be answered in any way.      *)
(***************************************************************************)
EXTENDS Naturals

CONSTANTS
  Checkers,
  Ttl, NegativeTtl,     \* of verdicts about the link, and about the moment
  MaxTime, MaxChecks,   \* bounds
  None

LivenessAssumption == {Ttl, NegativeTtl} \subseteq Nat

\* Answers to a HEAD or GET: "busy" is 408, 425, 429 and 5xx, "refused" a transport error.
Answers == {"ok", "gone", "forbidden", "unauthorized", "nomethod", "busy", "timeout", "refused"}

VARIABLES
  hour,
  verdict,     \* the link's cached [is, until, at]; at is when it was written (history)
  checker,
  checks

linkVars == <<hour, verdict, checker, checks>>

IdleChecker == [pc |-> "idle", is |-> None, first |-> None]

Init ==
  /\ hour = 0 /\ verdict = None
  /\ checker = [c \in Checkers |-> IdleChecker]
  /\ checks = 0

-----------------------------------------------------------------------------
(* check_url_cached. *)

Set(c, me) == checker' = [checker EXCEPT ![c] = me]
UnlessCached == verdict = None \/ hour >= verdict.until

\* A cached verdict is the answer; a cache that fails is none.
CheckBegin(c) ==
  /\ checker[c].pc = "idle" /\ checks < MaxChecks
  /\ checks' = checks + 1
  /\ \/ ~UnlessCached /\ Set(c, [IdleChecker EXCEPT !.is = verdict.is])
     \/ Set(c, [IdleChecker EXCEPT !.pc = "head"])
  /\ UNCHANGED <<hour, verdict>>

Reached(me, answer) ==
  [me EXCEPT !.pc = IF answer \in {"forbidden", "unauthorized"} THEN "browser" ELSE "write",
             !.is = answer, !.first = answer]

\* check_url: a HEAD, then a GET if the method or the transport failed.
Head(c) ==
  /\ checker[c].pc = "head"
  /\ \E answer \in Answers :
       Set(c, IF answer \in {"nomethod", "timeout", "refused"} THEN [checker[c] EXCEPT !.pc = "get"]
              ELSE Reached(checker[c], answer))
  /\ UNCHANGED <<hour, verdict, checks>>

Get(c) ==
  /\ checker[c].pc = "get"
  /\ \E answer \in Answers : Set(c, Reached(checker[c], answer))
  /\ UNCHANGED <<hour, verdict, checks>>

\* The verdict of the browser's GET is the verdict, whatever it is.
BrowserGet(c) ==
  /\ checker[c].pc = "browser"
  /\ \E answer \in Answers :
       Set(c, [checker[c] EXCEPT !.pc = "write", !.is = answer])
  /\ UNCHANGED <<hour, verdict, checks>>

Transient(is) == is \in {"busy", "timeout", "refused"}

\* Faulty variant: the answer to the HEAD decides how long the verdict is kept.
LifeOfFirst(me) == IF Transient(me.first) THEN NegativeTtl ELSE Ttl

Life(me) == IF Transient(me.is) THEN NegativeTtl ELSE Ttl

WriteCache(c) ==
  /\ checker[c].pc = "write"
  /\ \/ verdict' = [is |-> checker[c].is, until |-> hour + Life(checker[c]), at |-> hour]
     \/ UNCHANGED verdict
  /\ Set(c, [checker[c] EXCEPT !.pc = "idle"])
  /\ UNCHANGED <<hour, checks>>

Tick ==
  /\ hour < MaxTime /\ hour' = hour + 1
  /\ UNCHANGED <<verdict, checker, checks>>

Next ==
  \/ \E c \in Checkers : CheckBegin(c) \/ Head(c) \/ Get(c) \/ BrowserGet(c) \/ WriteCache(c)
  \/ Tick

Spec == Init /\ [][Next]_linkVars

-----------------------------------------------------------------------------
\* "A DNS blip doesn't pin a live URL as dead for a day": a cached verdict about the moment is
\* served for the short time only, by whichever of the requests it was reached.
BlipsPass ==
  verdict # None /\ Transient(verdict.is) => verdict.until <= verdict.at + NegativeTtl

=============================================================================
