------------------------------ MODULE Fetching ------------------------------
(***************************************************************************)
(* The GET client (fetch/__init__.py Fetcher) as its workers use it: the   *)
(* throttle they share (utils/throttle.py), attempts with backoff, hops    *)
(* walked by hand, conditional probes, and the bounded body                *)
(* (fetch/_decode.py).                                                     *)
(*                                                                         *)
(* Time is a counter; a sleeper wakes at its time or later.  A body is the *)
(* sizes of its compressed members, or its one size if it is not           *)
(* compressed.                                                             *)
(***************************************************************************)
EXTENDS Integers, Sequences

CONSTANTS
  Workers,
  Retries, MaxRedirects,
  Interval,       \* of the throttle, 0 without one
  RetryAfters,    \* values of the header; None if it is missing or no number
  Cap,            \* _RETRY_AFTER_CAP
  Bodies, MaxBytes,
  MaxTime, MaxFetches,   \* bounds
  None

FetchAssumption ==
  /\ {Retries, MaxRedirects, Interval, Cap, MaxBytes, MaxTime, MaxFetches} \subseteq Nat
  /\ RetryAfters \subseteq Int \cup {None}
  /\ Bodies \subseteq Seq(Nat)

\* Replies of open(): 5xx, 408 and network errors are "transient", the other 4xx but 429
\* "permanent"; a redirect may lack its Location, or lead to where the guard refuses to go.
Replies ==
  {[kind |-> k, wait |-> None] :
     k \in {"body", "redirect", "nowhere", "refused", "permanent", "transient"}}
  \cup [kind : {"busy"}, wait : RetryAfters]

\* To a conditional request: a 304, a 200 with the same strong ETag, or anything else.
ProbeReplies == [kind : {"unmodified", "other"}, wait : {None}]

VARIABLES
  now, next_allowed,
  worker,
  requests,      \* requests made so far, by all (history)
  fetches        \* for the bound

fetchVars == <<now, next_allowed, worker, requests, fetches>>

Idle == [pc |-> "idle", probe |-> FALSE, attempt |-> 0, hops |-> 0, until |-> 0,
         tries |-> 0, last |-> "none", outcome |-> "none", rest |-> <<>>, size |-> 0, held |-> 0]

Init ==
  /\ now = 0 /\ next_allowed = 0
  /\ worker = [w \in Workers |-> Idle]
  /\ requests = 0 /\ fetches = 0

Me(w)      == worker[w]
Set(w, me) == worker' = [worker EXCEPT ![w] = me]
Ended(me, outcome) == [me EXCEPT !.pc = "idle", !.outcome = outcome]

\* The guard may refuse the URL itself.
Begin(w) ==
  /\ Me(w).pc = "idle" /\ fetches < MaxFetches
  /\ fetches' = fetches + 1
  /\ \E probe \in BOOLEAN :
       LET me == [Idle EXCEPT !.probe = probe]
       IN \/ Set(w, [me EXCEPT !.pc = "acquire"])
          \/ Set(w, Ended([me EXCEPT !.last = "refused"], IF probe THEN "changed" ELSE "refused"))
  /\ UNCHANGED <<now, next_allowed, requests>>

Slot == IF next_allowed > now THEN next_allowed ELSE now

\* Faulty variant: the next slot counts from now, not from the slot that was given.
SlotsFromNow == now + Interval

AfterSlot == Slot + Interval

\* The slot is reserved under the lock, the sleep is outside of it.
Acquire(w) ==
  /\ Me(w).pc = "acquire"
  /\ Set(w, [Me(w) EXCEPT !.pc = "open", !.until = IF Interval = 0 THEN now ELSE Slot])
  /\ next_allowed' = IF Interval = 0 THEN next_allowed ELSE AfterSlot
  /\ UNCHANGED <<now, requests, fetches>>

Backoff(attempt) == attempt + 1

\* A negative number is no sane Retry-After, yet it is not told from the others.
RetryAfter(wait, attempt) ==
  IF wait = None THEN Backoff(attempt) ELSE IF wait < Cap THEN wait ELSE Cap

Wait(reply, attempt) ==
  IF reply.kind = "busy" THEN RetryAfter(reply.wait, attempt) ELSE Backoff(attempt)

\* Faulty variant: every client error is worth another attempt.
NothingIsPermanent(reply) == reply.kind \in {"busy", "transient", "permanent"}

Retryable(reply) == reply.kind \in {"busy", "transient"}

\* sleep() of a negative time raises a ValueError of its own, in place of the reply's.
Retried(me, reply) ==
  LET wait == Wait(reply, me.attempt)
  IN IF wait < 0 THEN Ended(me, "valueerror")
     ELSE [me EXCEPT !.pc = "acquire", !.attempt = @ + 1, !.until = now + wait]

Hop(me) == [me EXCEPT !.pc = "acquire", !.attempt = 0, !.hops = @ + 1]

Answered(me, reply) ==
  CASE reply.kind = "body" -> [me EXCEPT !.pc = "body"]
    [] reply.kind = "redirect" /\ me.hops < MaxRedirects -> Hop(me)
    [] reply.kind = "refused" /\ me.hops < MaxRedirects  -> Ended(me, "refused")
    [] Retryable(reply) /\ me.attempt < Retries -> Retried(me, reply)
    [] OTHER -> Ended(me, reply.kind)

\* not_modified: one request, and only a 304 or an unchanged strong ETag is a yes.
Probed(me, reply) ==
  Ended(me, IF reply.kind = "unmodified" THEN "unmodified" ELSE "changed")

\* Every request goes through _open, once its slot and its backoff are over.
Open(w) ==
  /\ Me(w).pc = "open" /\ now >= Me(w).until
  /\ requests' = requests + 1
  /\ \E reply \in IF Me(w).probe THEN ProbeReplies ELSE Replies :
       LET me == [Me(w) EXCEPT !.tries = @ + 1, !.last = reply.kind]
       IN Set(w, IF me.probe THEN Probed(me, reply) ELSE Answered(me, reply))
  /\ UNCHANGED <<now, next_allowed, fetches>>

\* Faulty variant: each member may fill the budget anew.
BudgetPerMember(out) == MaxBytes + 1

\* One byte past the budget shows an overrun without decoding the rest.
Budget(out) == MaxBytes - out + 1

\* What is held after a member.
Inflated(out, member) == out + (IF member < Budget(out) THEN member ELSE Budget(out))

\* The body arrives, or is cut short; a read that fails is not tried again.
ReadBody(w) ==
  /\ Me(w).pc = "body"
  /\ \/ \E body \in Bodies : Set(w, [Me(w) EXCEPT !.pc = "inflate", !.rest = body])
     \/ Set(w, Ended(Me(w), "clienterror"))
  /\ UNCHANGED <<now, next_allowed, requests, fetches>>

Member(me) ==
  [me EXCEPT !.rest = Tail(@), !.size = @ + Head(me.rest), !.held = Inflated(@, Head(me.rest))]

\* One member after the other; an overrun ends the decoding, as does what cannot be decoded.
Inflate(w) ==
  /\ Me(w).pc = "inflate"
  /\ \/ Me(w).rest = <<>> /\ Set(w, Ended(Me(w), "body"))
     \/ /\ Me(w).rest # <<>>
        /\ LET me == Member(Me(w))
           IN Set(w, IF me.held > MaxBytes THEN Ended(me, "clienterror") ELSE me)
     \/ Me(w).rest # <<>> /\ Set(w, Ended(Me(w), "clienterror"))
  /\ UNCHANGED <<now, next_allowed, requests, fetches>>

Tick ==
  /\ now < MaxTime /\ now' = now + 1
  /\ UNCHANGED <<next_allowed, worker, requests, fetches>>

\* A worker that backs off is not yet at its next acquire.
Next ==
  \/ \E w \in Workers : \/ Begin(w) \/ Open(w) \/ ReadBody(w) \/ Inflate(w)
                        \/ now >= Me(w).until /\ Acquire(w)
  \/ Tick

Spec == Init /\ [][Next]_fetchVars

-----------------------------------------------------------------------------
\* However many workers share a throttle, and whatever they retry, follow or probe: by any time
\* at most one request per interval was made, and one more.
RateBound == Interval > 0 => requests <= now \div Interval + 1

\* A fetch ends as its last reply says, with the error of that reply or with the whole body; it
\* makes at most one request per attempt and hop, and no more after a permanent error; and it
\* never holds more than one byte over its limit.
EndsAsAnswered ==
  \A w \in Workers : ~Me(w).probe =>
    /\ Me(w).outcome \in {"none", "clienterror", Me(w).last}
    /\ Me(w).outcome = "clienterror" => Me(w).last = "body"
    /\ Me(w).outcome = "body" => Me(w).held = Me(w).size /\ Me(w).size <= MaxBytes
    /\ Me(w).tries <= (Retries + 1) * (MaxRedirects + 1)
    /\ Me(w).last = "permanent" => Me(w).outcome = "permanent"
    /\ Me(w).held <= MaxBytes + 1

\* A fetch ends as it was answered, and fetches together keep to the rate.
FetchesAreFair == EndsAsAnswered /\ RateBound
=============================================================================
