-------------------------- MODULE LlmCallsTheorems ---------------------------
(***************************************************************************)
(* What holds of LlmCalls for every instance: first the router, call by    *)
(* call, then the answers with their rows and verdicts, then what is read  *)
(* of every text.  Router and answers have an inductive invariant each     *)
(* over their own variables; the composition moves one part and leaves the *)
(* others, so both hold of it (EachPartRunsAlone).  What is read of a text *)
(* is a fact about texts, shown by induction from their end.               *)
(***************************************************************************)
EXTENDS LlmCalls, Sequences, FiniteSetTheorems, WellFoundedInduction, TLAPS

-----------------------------------------------------------------------------
(* The router (AgentCall). *)

\* The clients, the requests and the calls the router makes.
CallClients == [backend : Backends, kwargs : Nat \cup {None}, retry : Nat]
CallRequests ==
  [backend : Backends, model : Backends \cup {None}, reply : RequestEnds]

CallRecord ==
  [pc : {"idle", "block", "select", "acquire", "config", "chat"}, mode : Agent!Modes,
   doc : RouterDocs \cup {None}, chosen : Backends \cup {None}, scan : BOOLEAN,
   chain : Seq(Backends), client : CallClients \cup {None}, model : Backends \cup {None},
   attempt : Nat, sent : Seq(CallRequests), raised : Seq(RequestEnds),
   forms : SUBSET {"flat", "nested", "absent"}, outcome : Agent!Outcomes \cup {None}]

\* The retries a backend's kwargs allow.
Allowed(d, b) == IF Agent!Kwargs(d, b) = None THEN 0 ELSE Agent!Kwargs(d, b)
RequestsTo(s, b) == {i \in DOMAIN s : s[i].backend = b}
IsPaid(reply) == reply \in {"ok", "timeout"}

\* What has been sent so far, whatever becomes of the call.
SentSoundly(me) ==
  LET s == me.sent IN
  /\ me.forms \subseteq {"nested"} => \A i \in DOMAIN s : s[i].model = s[i].backend
  /\ \A i, k \in DOMAIN s : i < k => s[i].reply \notin {"ok", "flow"}
  /\ \A i, j, k \in DOMAIN s :
       i < j /\ j < k /\ s[i].backend = s[k].backend => s[j].backend = s[i].backend
  /\ s # <<>> => /\ me.doc # None
                 /\ me.scan => me.doc.fallback
                 /\ me.scan \/ \A i \in DOMAIN s : s[i].backend = me.chosen
  /\ \A b \in Backends : RequestsTo(s, b) # {} =>
       Cardinality(RequestsTo(s, b)) <= 1 + Allowed(me.doc, b)
  /\ \A i, j \in DOMAIN s :
       (s[i].backend = s[j].backend /\ Kind[s[i].backend] = "anthropic"
         /\ IsPaid(s[i].reply) /\ IsPaid(s[j].reply)) => i = j

\* The plan that a call follows, once its agent's block is read.
FollowsPlan(me) ==
  /\ me.pc \in {"select", "acquire", "config", "chat"} => me.doc # None /\ me.doc.form \in me.forms
  /\ me.pc \in {"acquire", "config", "chat"} =>
       /\ me.chosen # None /\ me.chain # <<>>
       /\ ~me.scan => me.chain = <<me.chosen>>
       /\ me.scan => me.doc.fallback
       /\ \A i, j \in DOMAIN me.chain : me.chain[i] = me.chain[j] => i = j
  /\ me.pc \in {"config", "chat"} =>
       /\ me.client \in CallClients /\ me.client.backend = Head(me.chain)
       /\ me.client.retry = Allowed(me.doc, Head(me.chain))
  /\ me.pc = "chat" => (me.forms \subseteq {"nested"} => me.model = Head(me.chain))

\* How what has been sent stands to what is still to be tried.
SentBefore(me) ==
  LET s == me.sent IN
  /\ me.pc \in {"block", "select"} => s = <<>>
  /\ me.pc # "idle" => \A i \in DOMAIN s : s[i].reply \notin {"ok", "flow"}
  /\ me.pc \in {"acquire", "config"} =>
       \A i \in DOMAIN s, j \in DOMAIN me.chain : s[i].backend # me.chain[j]
  /\ me.pc \in {"block", "select", "acquire", "config"} =>
       /\ me.attempt = 0
       /\ s # <<>> => me.raised # <<>> /\ me.raised[Len(me.raised)] = s[Len(s)].reply
  /\ me.pc = "chat" =>
       /\ \A i \in DOMAIN s, j \in DOMAIN me.chain : j > 1 => s[i].backend # me.chain[j]
       /\ Cardinality(RequestsTo(s, Head(me.chain))) = me.attempt
       /\ me.attempt <= me.client.retry
       /\ RequestsTo(s, Head(me.chain)) # {} => s[Len(s)].backend = Head(me.chain)
       /\ \A i \in RequestsTo(s, Head(me.chain)) :
            Agent!Outcome(Kind[Head(me.chain)], s[i].reply) = "again"

\* What a call that is over says of what was sent.
EndedTruly(me) ==
  me.pc = "idle" /\ me.mode = "call" =>
    /\ me.outcome = "ok" => me.sent # <<>> /\ me.sent[Len(me.sent)].reply = "ok"
    /\ me.outcome = "unavailable" => me.sent = <<>>
    /\ me.outcome = "raised" /\ me.sent # <<>>
         => /\ me.raised # <<>>
            /\ me.sent[Len(me.sent)].reply = me.raised[Len(me.raised)]

\* The invariant of one call, its fields and its history.
CallInv(me) ==
  /\ me \in CallRecord
  /\ SentSoundly(me) /\ FollowsPlan(me) /\ SentBefore(me) /\ EndedTruly(me)

\* The inductive invariant of the router.
RouterInv ==
  /\ file \in RouterDocs /\ env \in Envs
  /\ served # None => served \in RouterDocs
  /\ instances \in SUBSET CallClients
  /\ \A i \in instances : i.retry = IF i.kwargs = None THEN 0 ELSE i.kwargs
  /\ agent \in [AgentCallers -> CallRecord]
  /\ \A c \in AgentCallers : CallInv(agent[c])

-----------------------------------------------------------------------------
USE DEF Agent!Me, Agent!At, Agent!Set

\* What a document of the router holds.
LEMMA DocFacts ==
  ASSUME NEW d \in RouterDocs
  PROVE  /\ d # None
         /\ d.form \in {"flat", "nested", "absent"} /\ d.declared \in Seq(Backends)
         /\ d.default \in Backends \cup {None} /\ d.client \in Backends \cup {None}
         /\ d.fallback \in BOOLEAN /\ d.retry \in [Backends -> Nat \cup {None}]
         /\ \A i, j \in DOMAIN d.declared : d.declared[i] = d.declared[j] => i = j
<1>1. d \in Agent!DocShape /\ d # None
  BY AgentAssumption DEF Agent!DocAssumption, Agent!NoneAssumption
<1>2. Agent!IsInjective(d.declared)
  BY AgentAssumption DEF Agent!DocAssumption
<1> QED  BY <1>1, <1>2 DEF Agent!DocShape, Agent!IsInjective

\* The retries a backend is given are a number, or left out.
LEMMA KwargsFacts ==
  ASSUME NEW d \in RouterDocs, NEW b \in Backends
  PROVE  /\ Agent!Kwargs(d, b) \in Nat \cup {None}
         /\ Allowed(d, b) \in Nat
BY DocFacts DEF Agent!Kwargs, Allowed

\* A chain holds every backend once, the chosen one first.
LEMMA ChainFacts ==
  ASSUME NEW d \in RouterDocs, NEW chosen \in Backends, NEW scan \in BOOLEAN,
         scan => chosen \in Agent!ToSet(d.declared)
  PROVE  LET ch == Agent!Chain(d, chosen, scan) IN
         /\ ch \in Seq(Backends) /\ ch # <<>>
         /\ ~scan => ch = <<chosen>>
         /\ \A i, j \in DOMAIN ch : ch[i] = ch[j] => i = j
<1> DEFINE ch == Agent!Chain(d, chosen, scan)
<1>1. CASE ~scan
  <2>1. ch = <<chosen>>
    BY <1>1 DEF Agent!Chain
  <2> QED  BY <1>1, <2>1
<1>2. CASE scan
  <2> DEFINE s == d.declared
             p == Agent!Place(d, chosen)
             front == SubSeq(s, 1, p - 1)
             back == SubSeq(s, p + 1, Len(s))
             rest == front \o back
  <2>1. s \in Seq(Backends) /\ \A i, j \in DOMAIN s : s[i] = s[j] => i = j
    BY DocFacts
  <2>2. p \in DOMAIN s /\ s[p] = chosen
    BY <1>2 DEF Agent!Place, Agent!ToSet
  <2>3. ch = <<chosen>> \o rest
    BY <1>2 DEF Agent!Chain, Agent!RemoveAt
  <2> HIDE DEF s, p
  <2>4. /\ front \in Seq(Backends) /\ Len(front) = p - 1
        /\ \A i \in 1 .. p - 1 : front[i] = s[i]
    BY <2>1, <2>2
  <2>5. /\ back \in Seq(Backends) /\ Len(back) = Len(s) - p
        /\ \A i \in 1 .. Len(s) - p : back[i] = s[p + i]
    BY <2>1, <2>2
  <2> HIDE DEF front, back
  <2>6. /\ rest \in Seq(Backends) /\ Len(rest) = Len(s) - 1
        /\ \A i \in 1 .. Len(s) - 1 : rest[i] = IF i < p THEN s[i] ELSE s[i + 1]
    BY <2>1, <2>2, <2>4, <2>5
  <2> HIDE DEF rest, ch
  <2>7. /\ ch \in Seq(Backends) /\ Len(ch) = Len(s)
        /\ ch[1] = chosen /\ \A i \in 2 .. Len(s) : ch[i] = rest[i - 1]
    BY <2>1, <2>2, <2>3, <2>6
  <2>8. \A i \in 2 .. Len(s) : \E k \in DOMAIN s \ {p} :
          ch[i] = s[k] /\ k = IF i - 1 < p THEN i - 1 ELSE i
    BY <2>1, <2>2, <2>6, <2>7
  <2>9. \A i, j \in DOMAIN ch : ch[i] = ch[j] => i = j
    <3> DEFINE at(i) == IF i = 1 THEN p ELSE IF i - 1 < p THEN i - 1 ELSE i
    <3>1. DOMAIN ch = 1 .. Len(s) /\ p \in 1 .. Len(s) /\ DOMAIN s = 1 .. Len(s) /\ Len(s) \in Nat
      BY <2>1, <2>2, <2>7
    <3>2. \A i \in DOMAIN ch : at(i) \in DOMAIN s /\ ch[i] = s[at(i)]
      BY <2>2, <2>7, <2>8, <3>1
    <3>3. \A i, j \in DOMAIN ch : at(i) = at(j) => i = j
      BY <3>1
    <3> HIDE DEF at
    <3> QED  BY <2>1, <3>2, <3>3
  <2>10. ch # <<>>
    BY <2>1, <2>2, <2>7
  <2> QED  BY <1>2, <2>7, <2>9, <2>10 DEF ch
<1> QED  BY <1>1, <1>2

-----------------------------------------------------------------------------
\* A step that sends nothing and forgets nothing.
SameHistory(me, it) ==
  /\ it.sent = me.sent /\ it.doc = me.doc /\ it.scan = me.scan /\ it.chosen = me.chosen
  /\ it.forms = me.forms /\ it.raised = me.raised /\ it.mode = me.mode

\* A call that ends keeps what it sent.
LEMMA FinishedFields ==
  ASSUME NEW me \in CallRecord, NEW o \in Agent!Outcomes
  PROVE  LET it == Agent!Finished(me, o) IN
         /\ it \in CallRecord /\ it.pc = "idle" /\ it.outcome = o
         /\ SameHistory(me, it)
<1> DEFINE it == Agent!Finished(me, o)
<1>1. it \in CallRecord
  <2>1. /\ "idle" \in {"idle", "block", "select", "acquire", "config", "chat"}
        /\ o \in Agent!Outcomes \cup {None} /\ <<>> \in Seq(Backends) /\ 0 \in Nat
    OBVIOUS
  <2> QED  BY <2>1, Zenon DEF Agent!Finished, CallRecord
<1>2. /\ it.pc = "idle" /\ it.outcome = o /\ SameHistory(me, it)
  BY DEF Agent!Finished, CallRecord, SameHistory
<1> QED  BY <1>1, <1>2

\* What was sent soundly stays so while it is all that was sent.
LEMMA HistoryKept ==
  ASSUME NEW me, NEW it, SentSoundly(me), it.sent = me.sent,
         me.sent # <<>> => it.doc = me.doc /\ it.scan = me.scan /\ it.chosen = me.chosen,
         me.sent # <<>> => me.forms \subseteq it.forms,
         me \in CallRecord, it \in CallRecord
  PROVE  SentSoundly(it)
<1>1. CASE me.sent = <<>>
  BY <1>1, FS_EmptySet DEF SentSoundly, RequestsTo
<1>2. CASE me.sent # <<>>
  BY <1>2 DEF SentSoundly
<1> QED  BY <1>1, <1>2

\* The outcome o is one the history allows.
EndsWell(me, o) ==
  me.mode = "call" =>
    /\ o = "ok" => me.sent # <<>> /\ me.sent[Len(me.sent)].reply = "ok"
    /\ o = "unavailable" => me.sent = <<>>
    /\ o = "raised" /\ me.sent # <<>>
         => /\ me.raised # <<>>
            /\ me.sent[Len(me.sent)].reply = me.raised[Len(me.raised)]

\* A call may end with such an outcome.
LEMMA FinishedOk ==
  ASSUME NEW me \in CallRecord, NEW o \in Agent!Outcomes, SentSoundly(me), EndsWell(me, o)
  PROVE  CallInv(Agent!Finished(me, o))
<1> DEFINE it == Agent!Finished(me, o)
<1>1. it \in CallRecord /\ it.pc = "idle" /\ it.outcome = o /\ SameHistory(me, it)
  BY FinishedFields
<1> HIDE DEF it
<1>2. SentSoundly(it)
  BY <1>1, HistoryKept DEF SameHistory
<1>3. FollowsPlan(it) /\ SentBefore(it) /\ EndedTruly(it)
  BY <1>1 DEF SameHistory, FollowsPlan, SentBefore, EndedTruly, EndsWell
<1>4. CallInv(it)
  BY <1>1, <1>2, <1>3 DEF CallInv
<1> QED  BY <1>4 DEF it

\* A call that has a plan, or cannot have one.
LEMMA PlannedOk ==
  ASSUME NEW me \in CallRecord, NEW d \in RouterDocs, NEW chosen \in Backends,
         NEW scan \in BOOLEAN, me.sent = <<>>, me.attempt = 0, d.form \in me.forms,
         scan => d.form = "nested" /\ d.fallback
  PROVE  CallInv(Agent!Planned(me, d, chosen, scan))
<1>1. SentSoundly(me) /\ EndsWell(me, "config")
  BY FS_EmptySet DEF SentSoundly, RequestsTo, EndsWell
<1>2. CASE ~Agent!Declares(d, chosen)
  BY <1>1, <1>2, FinishedOk DEF Agent!Planned, Agent!Outcomes
<1>3. CASE Agent!Declares(d, chosen)
  <2> DEFINE ch == Agent!Chain(d, chosen, scan)
             it == [me EXCEPT !.pc = "acquire", !.doc = d, !.chosen = chosen, !.scan = scan,
                              !.chain = ch]
  <2>1. scan => chosen \in Agent!ToSet(d.declared)
    BY <1>3 DEF Agent!Declares
  <2>2. /\ ch \in Seq(Backends) /\ ch # <<>>
        /\ ~scan => ch = <<chosen>>
        /\ \A i, j \in DOMAIN ch : ch[i] = ch[j] => i = j
    BY <2>1, ChainFacts
  <2>3. Agent!Planned(me, d, chosen, scan) = it
    BY <1>3 DEF Agent!Planned
  <2> HIDE DEF ch
  <2>4. it \in CallRecord
    <3>1. /\ "acquire" \in {"idle", "block", "select", "acquire", "config", "chat"}
          /\ d \in RouterDocs \cup {None} /\ chosen \in Backends \cup {None}
      OBVIOUS
    <3> QED  BY <2>2, <3>1, Zenon DEF CallRecord
  <2>5. /\ it.pc = "acquire" /\ it.doc = d /\ it.chosen = chosen /\ it.chain = ch
        /\ it.sent = <<>> /\ it.attempt = 0 /\ it.forms = me.forms
    BY DEF CallRecord
  <2>6. it.scan = scan
    BY Zenon DEF CallRecord
  <2> HIDE DEF it
  <2>7. SentSoundly(it)
    BY <2>5, FS_EmptySet DEF SentSoundly, RequestsTo
  <2>8. d # None /\ chosen # None
    BY DocFacts, AgentAssumption DEF Agent!NoneAssumption
  <2>9. FollowsPlan(it) /\ SentBefore(it) /\ EndedTruly(it)
    BY <2>2, <2>5, <2>6, <2>8 DEF FollowsPlan, SentBefore, EndedTruly
  <2> QED  BY <2>3, <2>4, <2>7, <2>9 DEF CallInv
<1> QED  BY <1>2, <1>3

\* The next backend of the chain, or the end of the call.
LEMMA NextCandidateOk ==
  ASSUME NEW me \in CallRecord, SentSoundly(me), me.doc # None, me.doc.form \in me.forms,
         me.chosen # None, me.chain # <<>>,
         ~me.scan => me.chain = <<me.chosen>>, me.scan => me.doc.fallback,
         \A i, j \in DOMAIN me.chain : me.chain[i] = me.chain[j] => i = j,
         \A i \in DOMAIN me.sent, j \in DOMAIN me.chain :
           j > 1 => me.sent[i].backend # me.chain[j],
         \A i \in DOMAIN me.sent : me.sent[i].reply \notin {"ok", "flow"},
         me.sent # <<>> => /\ me.raised # <<>>
                           /\ me.raised[Len(me.raised)] = me.sent[Len(me.sent)].reply
  PROVE  CallInv(Agent!NextCandidate(me))
<1> DEFINE it == [me EXCEPT !.pc = "acquire", !.chain = Tail(@), !.attempt = 0]
<1> DEFINE rest == Tail(me.chain)
<1>1. me.chain \in Seq(Backends)
  BY DEF CallRecord
<1>2. /\ rest \in Seq(Backends) /\ Len(rest) = Len(me.chain) - 1
      /\ \A i \in 1 .. Len(rest) : rest[i] = me.chain[i + 1]
  BY <1>1
<1>3. it \in CallRecord
  <2>1. "acquire" \in {"idle", "block", "select", "acquire", "config", "chat"} /\ 0 \in Nat
    OBVIOUS
  <2> QED  BY <1>2, <2>1, Zenon DEF CallRecord
<1>4. it.pc = "acquire" /\ it.chain = rest /\ it.attempt = 0 /\ SameHistory(me, it)
  BY DEF CallRecord, SameHistory
<1>5. Agent!NextCandidate(me) = IF it.chain = <<>> THEN Agent!Exhausted(it) ELSE it
  BY DEF Agent!NextCandidate
<1> HIDE DEF rest, it
<1>6. SentSoundly(it)
  BY <1>3, <1>4, HistoryKept DEF SameHistory
<1>7. CASE rest = <<>>
  <2>1. EndsWell(it, IF it.raised = <<>> THEN "unavailable" ELSE "raised")
    BY <1>4 DEF EndsWell, SameHistory
  <2> QED  BY <1>3, <1>4, <1>5, <1>6, <1>7, <2>1, FinishedOk DEF Agent!Exhausted, Agent!Outcomes
<1>8. CASE rest # <<>>
  <2>1. me.scan
    BY <1>1, <1>2, <1>8
  <2>2. \A i, j \in DOMAIN rest : rest[i] = rest[j] => i = j
    BY <1>1, <1>2
  <2>3. \A i \in DOMAIN me.sent, j \in DOMAIN rest : me.sent[i].backend # rest[j]
    BY <1>1, <1>2
  <2>4. FollowsPlan(it)
    <3>1. it.scan /\ it.doc.fallback /\ it.chosen # None /\ it.chain # <<>>
      BY <1>4, <1>8, <2>1 DEF SameHistory
    <3>2. it.doc # None /\ it.doc.form \in it.forms
      BY <1>4 DEF SameHistory
    <3> QED  BY <1>4, <2>2, <3>1, <3>2 DEF FollowsPlan
  <2>5. SentBefore(it) /\ EndedTruly(it)
    BY <1>4, <2>3 DEF SentBefore, EndedTruly, SameHistory
  <2> QED  BY <1>3, <1>4, <1>5, <1>6, <1>8, <2>4, <2>5 DEF CallInv
<1> QED  BY <1>7, <1>8

\* A client is handed out as it was tuned, old or new.
LEMMA AcquiredClient ==
  ASSUME NEW b \in Backends, NEW kwargs \in Nat \cup {None}, RouterInv
  PROVE  LET a == Agent!Acquired(b, kwargs) IN
         /\ a[1] \in CallClients /\ a[1].backend = b
         /\ a[1].retry = IF kwargs = None THEN 0 ELSE kwargs
         /\ a[2] \in SUBSET CallClients
         /\ \A i \in a[2] : i.retry = IF i.kwargs = None THEN 0 ELSE i.kwargs
<1> DEFINE fresh == [backend |-> b, kwargs |-> kwargs,
                     retry |-> IF kwargs = None THEN 0 ELSE kwargs]
           known == Agent!Cached(b, kwargs)
           old == CHOOSE i \in known : TRUE
<1>1. fresh \in CallClients
  BY DEF CallClients
<1>2. /\ instances \in SUBSET CallClients
      /\ \A i \in instances : i.retry = IF i.kwargs = None THEN 0 ELSE i.kwargs
  BY DEF RouterInv
<1>3. known # {} => old \in instances /\ old.backend = b /\ old.kwargs = kwargs
  BY DEF Agent!Cached
<1>4. Agent!Acquired(b, kwargs) = IF b \in registry THEN <<fresh, instances>>
                                  ELSE IF known # {} THEN <<old, instances>>
                                  ELSE <<fresh, instances \cup {fresh}>>
  BY DEF Agent!Acquired
<1>5. /\ fresh.backend = b /\ fresh.kwargs = kwargs
      /\ fresh.retry = IF kwargs = None THEN 0 ELSE kwargs
  OBVIOUS
<1> HIDE DEF fresh, known, old
<1> QED  BY <1>1, <1>2, <1>3, <1>4, <1>5

-----------------------------------------------------------------------------
(* The steps. *)

\* One call moves on, and what all of them use stays in order.
LEMMA OneCallMoves ==
  ASSUME RouterInv, NEW c \in AgentCallers, NEW it, CallInv(it),
         agent' = [agent EXCEPT ![c] = it],
         file' \in RouterDocs, env' \in Envs, served' # None => served' \in RouterDocs,
         instances' \in SUBSET CallClients,
         \A i \in instances' : i.retry = IF i.kwargs = None THEN 0 ELSE i.kwargs
  PROVE  RouterInv'
<1>1. agent' \in [AgentCallers -> CallRecord]
  BY DEF RouterInv, CallInv
<1>2. \A d \in AgentCallers : CallInv(agent'[d])
  BY DEF RouterInv
<1> QED  BY <1>1, <1>2 DEF RouterInv

\* The parts of the invariant.
LEMMA OtherFields ==
  ASSUME RouterInv
  PROVE  /\ file \in RouterDocs /\ env \in Envs /\ (served # None => served \in RouterDocs)
         /\ instances \in SUBSET CallClients
         /\ \A i \in instances : i.retry = IF i.kwargs = None THEN 0 ELSE i.kwargs
         /\ \A c \in AgentCallers : agent[c] \in CallRecord /\ CallInv(agent[c])
BY DEF RouterInv

\* Loading serves a document of the router.
LEMMA LoadedDoc ==
  ASSUME RouterInv, NEW d \in RouterDocs, Agent!Loads(d)
  PROVE  served' # None => served' \in RouterDocs
BY DEF RouterInv, Agent!Loads

\* A call starts with an empty history.
LEMMA BeginOk ==
  ASSUME RouterInv, NEW c \in AgentCallers, Agent!Begin(c)
  PROVE  RouterInv'
<1>1. PICK mode \in Agent!Modes : agent' = [agent EXCEPT ![c] =
         [Agent!Idle EXCEPT !.pc = "block", !.mode = mode]]
  BY DEF Agent!Begin
<1> DEFINE it == [Agent!Idle EXCEPT !.pc = "block", !.mode = mode]
<1>2. Agent!Idle \in CallRecord
  BY DEF Agent!Idle, CallRecord, Agent!Modes
<1>3. it \in CallRecord
  <2>1. "block" \in {"idle", "block", "select", "acquire", "config", "chat"}
    OBVIOUS
  <2> QED  BY <1>2, <2>1, Zenon DEF CallRecord
<1>4. it.pc = "block" /\ it.sent = <<>> /\ it.attempt = 0 /\ it.forms = {}
  BY DEF Agent!Idle
<1> HIDE DEF it
<1>5. CallInv(it)
  BY <1>3, <1>4, FS_EmptySet DEF CallInv, SentSoundly, RequestsTo, FollowsPlan, SentBefore, EndedTruly
<1>6. agent' = [agent EXCEPT ![c] = it]
  BY <1>1 DEF it
<1> QED  BY <1>5, <1>6, OneCallMoves, OtherFields DEF Agent!Begin

\* Reading the agent's block plans the call, or ends it.
LEMMA ReadBlockOk ==
  ASSUME RouterInv, NEW c \in AgentCallers, Agent!ReadBlock(c)
  PROVE  RouterInv'
<1> DEFINE me == agent[c]
<1>1. me \in CallRecord /\ CallInv(me) /\ me.pc = "block"
  BY OtherFields DEF Agent!ReadBlock
<1> HIDE DEF me
<1>2. me.sent = <<>> /\ me.attempt = 0 /\ SentSoundly(me) /\ EndsWell(me, "config")
  BY <1>1 DEF CallInv, SentBefore, EndsWell
<1>3. CASE Agent!LoadFails /\ agent' = [agent EXCEPT ![c] = Agent!Finished(me, "config")]
  <2>1. CallInv(Agent!Finished(me, "config"))
    BY <1>1, <1>2, FinishedOk DEF Agent!Outcomes
  <2> QED  BY <1>3, <2>1, OneCallMoves, OtherFields DEF Agent!ReadBlock, Agent!LoadFails
<1>4. ASSUME NEW d \in RouterDocs, Agent!Loads(d),
             LET it == [me EXCEPT !.forms = {d.form}] IN
             IF d.form = "absent" THEN agent' = [agent EXCEPT ![c] = Agent!Finished(it, "config")]
             ELSE \/ agent' = [agent EXCEPT ![c] = [it EXCEPT !.pc = "select", !.doc = d]]
                  \/ /\ it.mode = "resolve"
                     /\ \E b \in Backends :
                          agent' = [agent EXCEPT ![c] = Agent!Planned(it, d, b, FALSE)]
      PROVE  RouterInv'
  <2> DEFINE it == [me EXCEPT !.forms = {d.form}]
             on == [it EXCEPT !.pc = "select", !.doc = d]
  <2>1. d # None /\ d.form \in {"flat", "nested", "absent"}
    BY DocFacts
  <2>2. it \in CallRecord
    <3>1. {d.form} \in SUBSET {"flat", "nested", "absent"}
      BY <2>1
    <3> HIDE DEF me
    <3> QED  BY <1>1, <3>1, Zenon DEF CallRecord
  <2>3. it.sent = <<>> /\ it.attempt = 0 /\ it.forms = {d.form}
    BY <1>1, <1>2 DEF CallRecord
  <2>4. SentSoundly(it) /\ EndsWell(it, "config")
    BY <2>3, FS_EmptySet DEF SentSoundly, RequestsTo, EndsWell
  <2> HIDE DEF it
  <2>5. on \in CallRecord
    <3>1. /\ "select" \in {"idle", "block", "select", "acquire", "config", "chat"}
          /\ d \in RouterDocs \cup {None}
      OBVIOUS
    <3> QED  BY <2>2, <3>1, Zenon DEF CallRecord
  <2>6. /\ on.pc = "select" /\ on.doc = d /\ on.sent = <<>> /\ on.attempt = 0
        /\ on.forms = {d.form}
    BY <2>2, <2>3 DEF CallRecord
  <2> HIDE DEF on
  <2>7. CallInv(on)
    BY <2>1, <2>5, <2>6, FS_EmptySet
      DEF CallInv, SentSoundly, RequestsTo, FollowsPlan, SentBefore, EndedTruly
  <2>8. CallInv(Agent!Finished(it, "config"))
    BY <2>2, <2>4, FinishedOk DEF Agent!Outcomes
  <2>9. \A b \in Backends : CallInv(Agent!Planned(it, d, b, FALSE))
    BY <2>2, <2>3, PlannedOk
  <2>10. PICK x : agent' = [agent EXCEPT ![c] = x] /\ CallInv(x)
    BY <1>4, <2>7, <2>8, <2>9 DEF it, on
  <2> QED  BY <1>4, <2>10, LoadedDoc, OneCallMoves, OtherFields DEF Agent!ReadBlock
<1> QED  BY <1>3, <1>4 DEF Agent!ReadBlock, me

\* Selecting reads the document again; the plan stays that of the block.
LEMMA SelectOk ==
  ASSUME RouterInv, NEW c \in AgentCallers, Agent!Select(c)
  PROVE  RouterInv'
<1> DEFINE me == agent[c]
<1>1. me \in CallRecord /\ CallInv(me) /\ me.pc = "select"
  BY OtherFields DEF Agent!Select
<1>2. PICK d \in RouterDocs :
        /\ Agent!Loads(d)
        /\ LET it == [me EXCEPT !.forms = @ \cup {d.form}]
               b  == Agent!Selection(d).backend
           IN agent' = [agent EXCEPT ![c] =
                IF d.form = "absent" \/ b = None THEN Agent!Finished(it, "config")
                ELSE Agent!Planned(it, it.doc, b, Agent!FallbackEnabled(it.doc))]
  BY DEF Agent!Select
<1> HIDE DEF me
<1> DEFINE it == [me EXCEPT !.forms = @ \cup {d.form}]
           b  == Agent!Selection(d).backend
           scan == Agent!FallbackEnabled(it.doc)
<1>3. d.form \in {"flat", "nested", "absent"}
  BY DocFacts
<1>4. it \in CallRecord
  <2>1. me.forms \cup {d.form} \in SUBSET {"flat", "nested", "absent"}
    BY <1>1, <1>3 DEF CallRecord
  <2> QED  BY <1>1, <2>1, Zenon DEF CallRecord
<1>5. /\ me.sent = <<>> /\ me.attempt = 0 /\ me.doc \in RouterDocs /\ me.doc.form \in me.forms
  BY <1>1 DEF CallInv, SentBefore, FollowsPlan, CallRecord
<1>6. /\ it.sent = <<>> /\ it.attempt = 0 /\ it.doc \in RouterDocs /\ it.doc.form \in it.forms
  BY <1>1, <1>5 DEF CallRecord
<1>7. b \in Backends \cup {None}
  <2>1. /\ env \in Backends \cup {None}
        /\ d.default \in Backends \cup {None} /\ d.client \in Backends \cup {None}
        /\ d.declared \in Seq(Backends)
    BY OtherFields, DocFacts, AgentAssumption DEF Agent!DocAssumption
  <2> QED  BY <2>1 DEF Agent!Selection
<1>8. agent' = [agent EXCEPT ![c] =
                IF d.form = "absent" \/ b = None THEN Agent!Finished(it, "config")
                ELSE Agent!Planned(it, it.doc, b, scan)]
  BY <1>2
<1>9. scan \in BOOLEAN /\ (scan => it.doc.form = "nested" /\ it.doc.fallback)
  BY <1>6, DocFacts DEF Agent!FallbackEnabled
<1> HIDE DEF it, b, scan
<1>10. SentSoundly(it) /\ EndsWell(it, "config")
  BY <1>6, FS_EmptySet DEF SentSoundly, RequestsTo, EndsWell
<1>11. CallInv(Agent!Finished(it, "config"))
  BY <1>4, <1>10, FinishedOk DEF Agent!Outcomes
<1>12. b # None => CallInv(Agent!Planned(it, it.doc, b, scan))
  BY <1>4, <1>6, <1>7, <1>9, PlannedOk
<1>13. PICK x : agent' = [agent EXCEPT ![c] = x] /\ CallInv(x)
  BY <1>8, <1>11, <1>12
<1> QED  BY <1>2, <1>13, LoadedDoc, OneCallMoves, OtherFields DEF Agent!Select

\* A chain that is not empty has a head.
LEMMA HeadOfChain ==
  ASSUME NEW ch \in Seq(Backends), ch # <<>>
  PROVE  Head(ch) = ch[1] /\ Head(ch) \in Backends /\ 1 \in DOMAIN ch
OBVIOUS

\* A candidate is acquired, passed over, or ends the call.
LEMMA AcquireOk ==
  ASSUME RouterInv, NEW c \in AgentCallers, Agent!Acquire(c)
  PROVE  RouterInv'
<1> DEFINE me == agent[c]
           b == Head(me.chain)
           a == Agent!Acquired(b, Agent!Kwargs(me.doc, b))
           on == [me EXCEPT !.pc = "config", !.client = a[1]]
           missed == IF me.scan THEN Agent!NextCandidate(me) ELSE Agent!Finished(me, "raised")
<1>1. me \in CallRecord /\ CallInv(me) /\ me.pc = "acquire"
  BY OtherFields DEF Agent!Acquire
<1>2. /\ file' = file /\ env' = env /\ served' = served
      /\ \/ agent' = [agent EXCEPT ![c] = on] /\ instances' = a[2]
         \/ agent' = [agent EXCEPT ![c] = missed] /\ instances' = instances
         \/ me.scan /\ agent' = [agent EXCEPT ![c] = Agent!NextCandidate(me)] /\ instances' = a[2]
  BY DEF Agent!Acquire
<1> HIDE DEF me
<1>3. /\ me.doc # None /\ me.doc.form \in me.forms /\ me.chosen # None /\ me.chain # <<>>
      /\ ~me.scan => me.chain = <<me.chosen>>
      /\ me.scan => me.doc.fallback
      /\ \A i, j \in DOMAIN me.chain : me.chain[i] = me.chain[j] => i = j
  BY <1>1 DEF CallInv, FollowsPlan
<1>4. /\ SentSoundly(me) /\ me.attempt = 0
      /\ \A i \in DOMAIN me.sent, j \in DOMAIN me.chain : me.sent[i].backend # me.chain[j]
      /\ \A i \in DOMAIN me.sent : me.sent[i].reply \notin {"ok", "flow"}
      /\ me.sent # <<>> => /\ me.raised # <<>>
                           /\ me.raised[Len(me.raised)] = me.sent[Len(me.sent)].reply
  BY <1>1 DEF CallInv, SentBefore
<1>5. b \in Backends /\ me.doc \in RouterDocs
  BY <1>1, <1>3, HeadOfChain DEF CallRecord
<1>6. /\ a[1] \in CallClients /\ a[1].backend = b /\ a[1].retry = Allowed(me.doc, b)
      /\ a[2] \in SUBSET CallClients
      /\ \A i \in a[2] : i.retry = IF i.kwargs = None THEN 0 ELSE i.kwargs
  BY <1>5, KwargsFacts, AcquiredClient DEF Allowed
<1> HIDE DEF a, b
<1>7. CallInv(on)
  <2>1. on \in CallRecord
    <3>1. /\ "config" \in {"idle", "block", "select", "acquire", "config", "chat"}
          /\ a[1] \in CallClients \cup {None}
      BY <1>6
    <3> QED  BY <1>1, <3>1, Zenon DEF CallRecord
  <2>2. /\ on.pc = "config" /\ on.client = a[1] /\ on.chain = me.chain /\ on.attempt = 0
        /\ SameHistory(me, on)
    BY <1>1, <1>4 DEF CallRecord, SameHistory
  <2> HIDE DEF on
  <2>3. SentSoundly(on)
    BY <1>1, <1>4, <2>1, <2>2, HistoryKept DEF SameHistory
  <2>4. FollowsPlan(on)
    BY <1>3, <1>6, <2>2 DEF FollowsPlan, SameHistory, b
  <2>5. SentBefore(on) /\ EndedTruly(on)
    BY <1>4, <2>2 DEF SentBefore, EndedTruly, SameHistory
  <2> QED  BY <2>1, <2>3, <2>4, <2>5 DEF CallInv
<1>8. CallInv(Agent!NextCandidate(me))
  BY <1>1, <1>3, <1>4, NextCandidateOk
<1>9. CallInv(Agent!Finished(me, "raised"))
  BY <1>1, <1>4, FinishedOk DEF Agent!Outcomes, EndsWell
<1>10. PICK x : /\ agent' = [agent EXCEPT ![c] = x] /\ CallInv(x)
                /\ instances' \in {instances, a[2]}
  BY <1>2, <1>7, <1>8, <1>9
<1> QED  BY <1>2, <1>6, <1>10, OneCallMoves, OtherFields

\* With a plan and a client, every request to come goes to the head of the chain.
LEMMA ConfigOk ==
  ASSUME RouterInv, NEW c \in AgentCallers, Agent!Config(c)
  PROVE  RouterInv'
<1> DEFINE me == agent[c]
<1>1. me \in CallRecord /\ CallInv(me) /\ me.pc = "config"
  BY OtherFields DEF Agent!Config
<1>2. PICK d \in RouterDocs :
        /\ Agent!Loads(d)
        /\ LET it    == [me EXCEPT !.forms = @ \cup {d.form}]
               asked == IF it.doc.form = "nested" THEN it.client.backend ELSE None
               m     == Agent!ModelFor(d, asked)
           IN agent' = [agent EXCEPT ![c] =
                IF \/ d.form = "absent"
                   \/ d.form = "nested" /\ m \notin Agent!ToSet(d.declared)
                  THEN Agent!Finished(it, "config")
                ELSE IF it.mode = "resolve"
                  THEN Agent!Finished([it EXCEPT !.model = m], "ok")
                ELSE [it EXCEPT !.pc = "chat", !.model = m]]
  BY DEF Agent!Config
<1> HIDE DEF me
<1> DEFINE it    == [me EXCEPT !.forms = @ \cup {d.form}]
           asked == IF it.doc.form = "nested" THEN it.client.backend ELSE None
           m     == Agent!ModelFor(d, asked)
           named == [it EXCEPT !.model = m]
           on    == [it EXCEPT !.pc = "chat", !.model = m]
<1>3. /\ me.doc # None /\ me.doc.form \in me.forms /\ me.chosen # None /\ me.chain # <<>>
      /\ ~me.scan => me.chain = <<me.chosen>>
      /\ me.scan => me.doc.fallback
      /\ \A i, j \in DOMAIN me.chain : me.chain[i] = me.chain[j] => i = j
      /\ me.client \in CallClients /\ me.client.backend = Head(me.chain)
      /\ me.client.retry = Allowed(me.doc, Head(me.chain))
  BY <1>1 DEF CallInv, FollowsPlan
<1>4. /\ SentSoundly(me) /\ me.attempt = 0
      /\ \A i \in DOMAIN me.sent, j \in DOMAIN me.chain : me.sent[i].backend # me.chain[j]
      /\ \A i \in DOMAIN me.sent : me.sent[i].reply \notin {"ok", "flow"}
  BY <1>1 DEF CallInv, SentBefore
<1>5. /\ d.form \in {"flat", "nested", "absent"} /\ d.declared \in Seq(Backends)
      /\ d.client \in Backends \cup {None}
  BY DocFacts
<1>6. it \in CallRecord
  <2>1. me.forms \cup {d.form} \in SUBSET {"flat", "nested", "absent"}
    BY <1>1, <1>5 DEF CallRecord
  <2> QED  BY <1>1, <2>1, Zenon DEF CallRecord
<1>7. /\ it.forms = me.forms \cup {d.form} /\ it.client = me.client /\ it.chain = me.chain
      /\ it.sent = me.sent /\ it.doc = me.doc /\ it.scan = me.scan /\ it.chosen = me.chosen
      /\ it.attempt = 0 /\ it.mode = me.mode
  BY <1>1, <1>4 DEF CallRecord
<1>8. agent' = [agent EXCEPT ![c] =
                IF \/ d.form = "absent"
                   \/ d.form = "nested" /\ m \notin Agent!ToSet(d.declared)
                  THEN Agent!Finished(it, "config")
                ELSE IF it.mode = "resolve"
                  THEN Agent!Finished(named, "ok")
                ELSE on]
  BY <1>2
<1> HIDE DEF it
<1>9. SentSoundly(it)
  BY <1>1, <1>4, <1>6, <1>7, HistoryKept
<1>10. CallInv(Agent!Finished(it, "config"))
  BY <1>6, <1>9, FinishedOk DEF Agent!Outcomes, EndsWell
<1>11. ASSUME ~(\/ d.form = "absent"
                \/ d.form = "nested" /\ m \notin Agent!ToSet(d.declared))
       PROVE  /\ m \in Backends \cup {None}
              /\ it.forms \subseteq {"nested"} => m = Head(me.chain)
  <2>1. CASE d.form = "flat"
    BY <1>5, <1>7, <2>1 DEF Agent!ModelFor, Agent!ModelOf
  <2>2. CASE d.form = "nested"
    <3>1. m \in Backends
      BY <1>5, <1>11, <2>2 DEF Agent!ToSet
    <3>2. Head(me.chain) \in Backends /\ Head(me.chain) # None
      BY <1>1, <1>3, HeadOfChain, AgentAssumption DEF CallRecord, Agent!NoneAssumption
    <3>3. it.forms \subseteq {"nested"} => it.doc.form = "nested"
      BY <1>3, <1>7
    <3>4. it.doc.form = "nested" => asked = Head(me.chain)
      BY <1>3, <1>7
    <3> HIDE DEF asked
    <3>5. it.doc.form = "nested" => m = Head(me.chain)
      BY <2>2, <3>2, <3>4 DEF Agent!ModelFor, Agent!ModelOf
    <3> QED  BY <3>1, <3>3, <3>5
  <2> QED  BY <1>5, <1>11, <2>1, <2>2
<1> HIDE DEF m, asked
<1>12. ASSUME m \in Backends \cup {None}, it.mode = "resolve"
       PROVE  CallInv(Agent!Finished(named, "ok"))
  <2>1. named \in CallRecord
    BY <1>6, <1>12, Zenon DEF CallRecord
  <2>2. SameHistory(it, named)
    BY <1>6 DEF CallRecord, SameHistory
  <2> HIDE DEF named
  <2>3. SentSoundly(named)
    BY <1>6, <1>9, <2>1, <2>2, HistoryKept DEF SameHistory
  <2>4. EndsWell(named, "ok")
    BY <1>12, <2>2 DEF EndsWell, SameHistory
  <2> QED  BY <2>1, <2>3, <2>4, FinishedOk DEF Agent!Outcomes
<1>13. ASSUME m \in Backends \cup {None}, it.forms \subseteq {"nested"} => m = Head(me.chain)
       PROVE  CallInv(on)
  <2>1. on \in CallRecord
    <3>1. "chat" \in {"idle", "block", "select", "acquire", "config", "chat"}
      OBVIOUS
    <3> QED  BY <1>6, <1>13, <3>1, Zenon DEF CallRecord
  <2>2. /\ on.pc = "chat" /\ on.model = m /\ on.client = it.client /\ on.chain = it.chain
        /\ on.attempt = it.attempt /\ SameHistory(it, on)
    BY <1>6 DEF CallRecord, SameHistory
  <2> HIDE DEF on
  <2>3. SentSoundly(on)
    BY <1>6, <1>9, <2>1, <2>2, HistoryKept DEF SameHistory
  <2>4. FollowsPlan(on)
    <3>1. on.doc = me.doc /\ on.chosen = me.chosen /\ on.scan = me.scan /\ on.chain = me.chain
          /\ on.client = me.client
      BY <1>7, <2>2 DEF SameHistory
    <3>2. on.forms = it.forms /\ me.forms \subseteq on.forms /\ on.model = m
      BY <1>7, <2>2 DEF SameHistory
    <3> QED  BY <1>3, <1>13, <2>2, <3>1, <3>2 DEF FollowsPlan
  <2>5. SentBefore(on) /\ EndedTruly(on)
    <3>1. on.sent = me.sent /\ on.chain = me.chain /\ on.attempt = 0 /\ on.client = me.client
      BY <1>7, <2>2 DEF SameHistory
    <3>2. Head(me.chain) = me.chain[1] /\ 1 \in DOMAIN me.chain /\ Head(me.chain) \in Backends
      BY <1>1, <1>3, HeadOfChain DEF CallRecord
    <3>3. RequestsTo(me.sent, Head(me.chain)) = {}
      BY <1>4, <3>2 DEF RequestsTo
    <3>4. me.client.retry >= 0
      BY <1>3 DEF CallClients
    <3> QED  BY <1>4, <2>2, <3>1, <3>3, <3>4, FS_EmptySet DEF SentBefore, EndedTruly
  <2> QED  BY <2>1, <2>3, <2>4, <2>5 DEF CallInv
<1> HIDE DEF named, on
<1>14. PICK x : agent' = [agent EXCEPT ![c] = x] /\ CallInv(x)
  BY <1>8, <1>10, <1>11, <1>12, <1>13
<1> QED  BY <1>2, <1>14, LoadedDoc, OneCallMoves, OtherFields DEF Agent!Config

\* From me to it a request is sent, with the client and model at hand.
Sends(me, r, it) ==
  /\ r = [backend |-> me.client.backend, model |-> me.model, reply |-> r.reply]
  /\ r.reply \in RequestEnds
  /\ it = [me EXCEPT !.sent = Append(@, r)]

\* One more request, to the head of the chain.
LEMMA OneMoreRequest ==
  ASSUME NEW me \in CallRecord, CallInv(me), me.pc = "chat",
         NEW r, NEW it, Sends(me, r, it)
  PROVE  /\ it \in CallRecord /\ SentSoundly(it)
         /\ it.sent # <<>> /\ Len(it.sent) = Len(me.sent) + 1
         /\ it.sent[Len(it.sent)].reply = r.reply
         /\ it.sent[Len(it.sent)].backend = Head(me.chain)
         /\ \A i \in DOMAIN it.sent : i < Len(it.sent) => it.sent[i].reply \notin {"ok", "flow"}
         /\ \A i \in DOMAIN it.sent, j \in DOMAIN me.chain :
              j > 1 => it.sent[i].backend # me.chain[j]
         /\ Cardinality(RequestsTo(it.sent, Head(me.chain))) = me.attempt + 1
         /\ \A i \in RequestsTo(it.sent, Head(me.chain)) :
              i < Len(it.sent) =>
                Agent!Outcome(Kind[Head(me.chain)], it.sent[i].reply) = "again"
<1> DEFINE h  == Head(me.chain)
           s  == me.sent
           n  == Len(s)
           s2 == Append(s, r)
<1>1. /\ me.doc # None /\ me.chosen # None /\ me.chain # <<>> /\ me.chain \in Seq(Backends)
      /\ ~me.scan => me.chain = <<me.chosen>>
      /\ me.scan => me.doc.fallback
      /\ \A i, j \in DOMAIN me.chain : me.chain[i] = me.chain[j] => i = j
      /\ me.client \in CallClients /\ me.client.backend = h
      /\ me.client.retry = Allowed(me.doc, h)
      /\ me.forms \subseteq {"nested"} => me.model = h
  BY DEF CallInv, FollowsPlan, CallRecord
<1>2. /\ \A i \in DOMAIN s, j \in DOMAIN me.chain : j > 1 => s[i].backend # me.chain[j]
      /\ Cardinality(RequestsTo(s, h)) = me.attempt
      /\ me.attempt <= me.client.retry
      /\ RequestsTo(s, h) # {} => s[n].backend = h
      /\ \A i \in RequestsTo(s, h) : Agent!Outcome(Kind[h], s[i].reply) = "again"
      /\ \A i \in DOMAIN s : s[i].reply \notin {"ok", "flow"}
  BY DEF CallInv, SentBefore
<1>3. SentSoundly(me)
  BY DEF CallInv
<1>4. /\ h = me.chain[1] /\ h \in Backends /\ 1 \in DOMAIN me.chain
  BY <1>1, HeadOfChain
<1>5. r \in CallRequests /\ r.backend = h /\ r.model = me.model
  BY <1>1, <1>4 DEF CallRequests, CallRecord, Sends
<1>6. s \in Seq(CallRequests) /\ n \in Nat /\ me.attempt \in Nat
  BY DEF CallRecord
<1> HIDE DEF h, s
<1>7. /\ s2 \in Seq(CallRequests) /\ s2 # <<>> /\ Len(s2) = n + 1 /\ s2[n + 1] = r
      /\ DOMAIN s2 = 1 .. n + 1 /\ DOMAIN s = 1 .. n
      /\ \A i \in 1 .. n : s2[i] = s[i]
  BY <1>5, <1>6
<1> HIDE DEF s2
<1>8. it \in CallRecord /\ it.sent = s2
  <2>1. it \in CallRecord
    BY <1>7, Zenon DEF CallRecord, s2, s, Sends
  <2>2. it.sent = s2
    BY <1>6 DEF CallRecord, s2, s, Sends
  <2> QED  BY <2>1, <2>2
<1>9. /\ it.forms = me.forms /\ it.doc = me.doc /\ it.scan = me.scan /\ it.chosen = me.chosen
  BY DEF CallRecord, Sends
<1>10. \A b \in Backends \ {h} : RequestsTo(s2, b) = RequestsTo(s, b)
  BY <1>5, <1>7 DEF RequestsTo
<1>11. RequestsTo(s2, h) = RequestsTo(s, h) \cup {n + 1} /\ n + 1 \notin RequestsTo(s, h)
  BY <1>5, <1>6, <1>7 DEF RequestsTo
<1>12. Cardinality(RequestsTo(s2, h)) = me.attempt + 1
  <2>1. IsFiniteSet(RequestsTo(s, h))
    <3>1. RequestsTo(s, h) \subseteq 1 .. n /\ IsFiniteSet(1 .. n)
      BY <1>6, <1>7, FS_Interval DEF RequestsTo
    <3> QED  BY <3>1, FS_Subset
  <2> QED  BY <1>2, <1>11, <2>1, FS_AddElement
<1>13. \A i \in RequestsTo(s2, h) : i < n + 1 => Agent!Outcome(Kind[h], s2[i].reply) = "again"
  BY <1>2, <1>6, <1>7, <1>11 DEF RequestsTo
<1>14. \A i \in DOMAIN s2, j \in DOMAIN me.chain : j > 1 => s2[i].backend # me.chain[j]
  BY <1>1, <1>2, <1>4, <1>5, <1>7
<1>15. SentSoundly(it)
  <2>1. it.forms \subseteq {"nested"} => \A i \in DOMAIN s2 : s2[i].model = s2[i].backend
    <3>1. me.forms \subseteq {"nested"} => \A i \in DOMAIN s : s[i].model = s[i].backend
      BY <1>3 DEF SentSoundly, s
    <3> QED  BY <1>1, <1>5, <1>7, <1>9, <3>1
  <2>2. \A i, k \in DOMAIN s2 : i < k => s2[i].reply \notin {"ok", "flow"}
    BY <1>2, <1>6, <1>7
  <2>3. \A i, j, k \in DOMAIN s2 :
          i < j /\ j < k /\ s2[i].backend = s2[k].backend => s2[j].backend = s2[i].backend
    <3>1. \A i, j, k \in DOMAIN s :
            i < j /\ j < k /\ s[i].backend = s[k].backend => s[j].backend = s[i].backend
      BY <1>3 DEF SentSoundly, s
    <3>2. ASSUME NEW i \in DOMAIN s, NEW j \in DOMAIN s, i < j, s[i].backend = h
          PROVE  s[j].backend = h
      <4>1. s[n].backend = h /\ n \in DOMAIN s
        BY <1>2, <1>6, <1>7, <3>2 DEF RequestsTo
      <4> QED  BY <1>6, <1>7, <3>1, <3>2, <4>1
    <3> QED  BY <1>5, <1>6, <1>7, <3>1, <3>2
  <2>4. /\ it.scan => it.doc.fallback
        /\ it.scan \/ \A i \in DOMAIN s2 : s2[i].backend = it.chosen
    <3>1. s # <<>> => me.scan \/ \A i \in DOMAIN s : s[i].backend = me.chosen
      BY <1>3 DEF SentSoundly, s
    <3>2. ~me.scan => h = me.chosen
      BY <1>1, <1>4
    <3>3. \A i \in DOMAIN s : s # <<>>
      BY <1>6
    <3> QED  BY <1>1, <1>5, <1>7, <1>9, <3>1, <3>2, <3>3
  <2>5. \A b \in Backends : RequestsTo(s2, b) # {} =>
          Cardinality(RequestsTo(s2, b)) <= 1 + Allowed(it.doc, b)
    <3>1. me.attempt + 1 <= 1 + Allowed(me.doc, h)
      <4>1. Allowed(me.doc, h) \in Nat
        BY <1>1 DEF CallClients
      <4> QED  BY <1>1, <1>2, <1>6, <4>1
    <3>2. \A b \in Backends : RequestsTo(s, b) # {} =>
            Cardinality(RequestsTo(s, b)) <= 1 + Allowed(me.doc, b)
      BY <1>3 DEF SentSoundly, s
    <3> QED  BY <1>9, <1>10, <1>12, <3>1, <3>2
  <2>6. \A i, j \in DOMAIN s2 :
          (s2[i].backend = s2[j].backend /\ Kind[s2[i].backend] = "anthropic"
            /\ IsPaid(s2[i].reply) /\ IsPaid(s2[j].reply)) => i = j
    <3>1. \A i, j \in DOMAIN s :
            (s[i].backend = s[j].backend /\ Kind[s[i].backend] = "anthropic"
              /\ IsPaid(s[i].reply) /\ IsPaid(s[j].reply)) => i = j
      BY <1>3 DEF SentSoundly, s
    <3>2. \A i \in DOMAIN s : s[i].backend = h /\ Kind[h] = "anthropic" => ~IsPaid(s[i].reply)
      BY <1>2 DEF RequestsTo, Agent!Outcome, Agent!AnthropicChat, Agent!IsRetryable, IsPaid
    <3> QED  BY <1>5, <1>6, <1>7, <3>1, <3>2
  <2>7. it.doc # None
    BY <1>1, <1>9
  <2> QED  BY <1>8, <2>1, <2>2, <2>3, <2>4, <2>5, <2>6, <2>7 DEF SentSoundly
<1>16. \A i \in DOMAIN s2 : i < n + 1 => s2[i].reply \notin {"ok", "flow"}
  BY <1>2, <1>6, <1>7
<1> QED  BY <1>5, <1>6, <1>7, <1>8, <1>12, <1>13, <1>14, <1>15, <1>16 DEF s, h

\* A request is sent: again on the same backend, on the next, or for the last time.
LEMMA ChatOk ==
  ASSUME RouterInv, NEW c \in AgentCallers, Agent!Chat(c)
  PROVE  RouterInv'
<1> DEFINE me == agent[c]
<1>1. me \in CallRecord /\ CallInv(me) /\ me.pc = "chat"
  BY OtherFields DEF Agent!Chat
<1>2. PICK reply \in RequestEnds :
        LET r  == [backend |-> me.client.backend, model |-> me.model, reply |-> reply]
            it == [me EXCEPT !.sent = Append(@, r)]
        IN agent' = [agent EXCEPT ![c] =
             IF Agent!Outcome(Kind[it.client.backend], reply) = "answer" THEN Agent!Finished(it, "ok")
             ELSE IF Agent!Retries(it.client, it.attempt, reply) THEN [it EXCEPT !.attempt = @ + 1]
             ELSE IF Agent!MovesOn(reply)
               THEN Agent!NextCandidate([it EXCEPT !.raised = Append(@, reply)])
             ELSE Agent!Finished([it EXCEPT !.raised = Append(@, reply)], "raised")]
  BY DEF Agent!Chat
<1> HIDE DEF me
<1> DEFINE h  == Head(me.chain)
           r  == [backend |-> me.client.backend, model |-> me.model, reply |-> reply]
           it == [me EXCEPT !.sent = Append(@, r)]
           again == [it EXCEPT !.attempt = @ + 1]
           failed == [it EXCEPT !.raised = Append(@, reply)]
<1>3. r.reply = reply /\ Sends(me, r, it)
  BY DEF Sends
<1>4. /\ it.client = me.client /\ it.attempt = me.attempt /\ it.chain = me.chain
      /\ it.doc = me.doc /\ it.scan = me.scan /\ it.chosen = me.chosen /\ it.forms = me.forms
      /\ it.raised = me.raised /\ it.mode = me.mode /\ it.model = me.model /\ it.pc = "chat"
  BY <1>1 DEF CallRecord
<1>5. agent' = [agent EXCEPT ![c] =
             IF Agent!Outcome(Kind[it.client.backend], reply) = "answer" THEN Agent!Finished(it, "ok")
             ELSE IF Agent!Retries(it.client, it.attempt, reply) THEN again
             ELSE IF Agent!MovesOn(reply) THEN Agent!NextCandidate(failed)
             ELSE Agent!Finished(failed, "raised")]
  BY <1>2
<1> HIDE DEF r, it
<1>6. /\ it \in CallRecord /\ SentSoundly(it)
      /\ it.sent # <<>> /\ Len(it.sent) = Len(me.sent) + 1
      /\ it.sent[Len(it.sent)].reply = reply
      /\ it.sent[Len(it.sent)].backend = Head(me.chain)
      /\ \A i \in DOMAIN it.sent : i < Len(it.sent) => it.sent[i].reply \notin {"ok", "flow"}
      /\ \A i \in DOMAIN it.sent, j \in DOMAIN me.chain :
           j > 1 => it.sent[i].backend # me.chain[j]
      /\ Cardinality(RequestsTo(it.sent, Head(me.chain))) = me.attempt + 1
      /\ \A i \in RequestsTo(it.sent, Head(me.chain)) :
           i < Len(it.sent) => Agent!Outcome(Kind[Head(me.chain)], it.sent[i].reply) = "again"
  BY <1>1, <1>3, OneMoreRequest
<1>7. /\ it.sent \in Seq(CallRequests) /\ it.raised \in Seq(RequestEnds) /\ it.attempt \in Nat
      /\ me.chain \in Seq(Backends)
  BY <1>1, <1>6 DEF CallRecord
<1>8. /\ me.doc # None /\ me.doc.form \in me.forms /\ me.chosen # None /\ me.chain # <<>>
      /\ ~me.scan => me.chain = <<me.chosen>>
      /\ me.scan => me.doc.fallback
      /\ \A i, j \in DOMAIN me.chain : me.chain[i] = me.chain[j] => i = j
      /\ me.client \in CallClients /\ me.client.backend = h
      /\ me.client.retry = Allowed(me.doc, h)
      /\ me.forms \subseteq {"nested"} => me.model = h
  BY <1>1 DEF CallInv, FollowsPlan
<1>9. \A i \in DOMAIN it.sent : i < Len(it.sent) \/ i = Len(it.sent)
  BY <1>7
<1>10. Kind[h] \in Agent!Kinds /\ reply \in Agent!AllReplies
  <2>1. h \in Backends
    BY <1>7, <1>8, HeadOfChain
  <2> QED  BY <2>1, AgentAssumption DEF Agent!KindAssumption, Agent!ReplyAssumption
<1> HIDE DEF h
<1>11. ASSUME Agent!Outcome(Kind[h], reply) = "answer"
       PROVE  CallInv(Agent!Finished(it, "ok"))
  <2>1. reply = "ok"
    BY <1>10, <1>11
      DEF Agent!Outcome, Agent!OpenRouterChat, Agent!AnthropicChat, Agent!ClaudeChat,
          Agent!ClaudeRun, Agent!Kinds, Agent!AllReplies
  <2>2. EndsWell(it, "ok")
    BY <1>6, <2>1 DEF EndsWell
  <2> QED  BY <1>6, <2>2, FinishedOk DEF Agent!Outcomes
<1>12. ASSUME Agent!Retries(it.client, it.attempt, reply)
       PROVE  CallInv(again)
  <2>1. Agent!Outcome(Kind[h], reply) = "again" /\ me.attempt < me.client.retry
    BY <1>4, <1>8, <1>12 DEF Agent!Retries
  <2>2. reply \notin {"ok", "flow"}
    BY <1>10, <2>1
      DEF Agent!Outcome, Agent!OpenRouterChat, Agent!AnthropicChat, Agent!IsRetryable,
          Agent!ClaudeChat, Agent!ClaudeRun, Agent!Kinds, Agent!AllReplies
  <2>3. again \in CallRecord
    <3>1. it.attempt + 1 \in Nat
      BY <1>7
    <3> QED  BY <1>6, <3>1, Zenon DEF CallRecord
  <2>4. /\ again.pc = "chat" /\ again.attempt = me.attempt + 1 /\ again.chain = me.chain
        /\ again.client = me.client /\ again.model = me.model /\ SameHistory(it, again)
    BY <1>4, <1>6 DEF CallRecord, SameHistory
  <2> HIDE DEF again
  <2>5. SentSoundly(again)
    BY <1>6, <2>3, <2>4, HistoryKept DEF SameHistory
  <2>6. FollowsPlan(again)
    <3>1. /\ again.doc = me.doc /\ again.chosen = me.chosen /\ again.scan = me.scan
          /\ again.forms = me.forms
      BY <1>4, <2>4 DEF SameHistory
    <3> QED  BY <1>8, <2>4, <3>1 DEF FollowsPlan, h
  <2>7. SentBefore(again)
    <3>1. again.sent = it.sent
      BY <2>4 DEF SameHistory
    <3>2. \A i \in DOMAIN it.sent : it.sent[i].reply \notin {"ok", "flow"}
      BY <1>6, <1>9, <2>2
    <3>3. \A i \in RequestsTo(it.sent, h) : Agent!Outcome(Kind[h], it.sent[i].reply) = "again"
      BY <1>6, <1>9, <2>1 DEF RequestsTo, h
    <3>4. me.attempt + 1 <= me.client.retry
      <4>1. me.attempt \in Nat /\ me.client.retry \in Nat
        BY <1>1, <1>8 DEF CallRecord, CallClients
      <4> QED  BY <2>1, <4>1
    <3> QED  BY <1>6, <2>4, <3>1, <3>2, <3>3, <3>4 DEF SentBefore, h
  <2>8. EndedTruly(again)
    BY <2>4 DEF EndedTruly
  <2> QED  BY <2>3, <2>5, <2>6, <2>7, <2>8 DEF CallInv
<1>13. /\ failed \in CallRecord
       /\ failed.raised # <<>> /\ failed.raised[Len(failed.raised)] = reply
       /\ failed.sent = it.sent /\ failed.chain = me.chain /\ failed.doc = me.doc
       /\ failed.scan = me.scan /\ failed.chosen = me.chosen /\ failed.forms = me.forms
  <2>1. Append(it.raised, reply) \in Seq(RequestEnds)
    BY <1>7
  <2>2. failed \in CallRecord
    BY <1>6, <2>1, Zenon DEF CallRecord
  <2>3. failed.raised = Append(it.raised, reply)
    BY <1>6 DEF CallRecord
  <2>4. failed.raised # <<>> /\ failed.raised[Len(failed.raised)] = reply
    BY <1>7, <2>3
  <2>5. /\ failed.sent = it.sent /\ failed.chain = it.chain /\ failed.doc = it.doc
        /\ failed.scan = it.scan /\ failed.chosen = it.chosen /\ failed.forms = it.forms
    BY <1>6 DEF CallRecord
  <2> QED  BY <1>4, <2>2, <2>4, <2>5
<1> HIDE DEF failed
<1>14. SentSoundly(failed)
  BY <1>4, <1>6, <1>13, HistoryKept
<1>15. ASSUME Agent!MovesOn(reply), Agent!Outcome(Kind[h], reply) # "answer"
       PROVE  CallInv(Agent!NextCandidate(failed))
  <2>1. reply # "ok"
    <3>1. \A kind \in Agent!Kinds : Agent!Outcome(kind, "ok") = "answer"
      <4>1. Agent!OpenRouterChat("ok") = "answer" /\ Agent!AnthropicChat("ok") = "answer"
        BY DEF Agent!OpenRouterChat, Agent!AnthropicChat, Agent!IsRetryable
      <4>2. Agent!ClaudeRun("ok") = "exited"
        BY DEF Agent!ClaudeRun
      <4>3. Agent!ClaudeChat("ok") = "answer"
        BY <4>2 DEF Agent!ClaudeChat
      <4> QED  BY <4>1, <4>3 DEF Agent!Outcome, Agent!Kinds
    <3> QED  BY <1>10, <1>15, <3>1
  <2>2. \A i \in DOMAIN failed.sent : failed.sent[i].reply \notin {"ok", "flow"}
    BY <1>6, <1>9, <1>13, <1>15, <2>1 DEF Agent!MovesOn
  <2> QED  BY <1>6, <1>8, <1>13, <1>14, <2>2, NextCandidateOk
<1>16. CallInv(Agent!Finished(failed, "raised"))
  <2>1. EndsWell(failed, "raised")
    BY <1>6, <1>13 DEF EndsWell
  <2> QED  BY <1>13, <1>14, <2>1, FinishedOk DEF Agent!Outcomes
<1> HIDE DEF again
<1>17. PICK x : agent' = [agent EXCEPT ![c] = x] /\ CallInv(x)
  <2>1. it.client.backend = h
    BY <1>4, <1>8
  <2> QED  BY <1>5, <1>11, <1>12, <1>15, <1>16, <2>1
<1> QED  BY <1>17, OneCallMoves, OtherFields DEF Agent!Chat

\* The invariant holds at the start,
LEMMA RouterStart ==
  ASSUME Agent!Init
  PROVE  RouterInv
<1>1. /\ file \in RouterDocs /\ env \in Envs /\ served = None /\ instances = {}
      /\ agent = [c \in AgentCallers |-> Agent!Idle]
  BY DEF Agent!Init
<1>2. Agent!Idle \in CallRecord
  BY DEF Agent!Idle, CallRecord, Agent!Modes
<1>3. /\ Agent!Idle.pc = "idle" /\ Agent!Idle.sent = <<>> /\ Agent!Idle.outcome = None
      /\ None \notin Agent!Outcomes
  BY AgentAssumption DEF Agent!Idle, Agent!NoneAssumption
<1>4. CallInv(Agent!Idle)
  BY <1>2, <1>3, FS_EmptySet
    DEF CallInv, SentSoundly, RequestsTo, FollowsPlan, SentBefore, EndedTruly, Agent!Outcomes
<1> QED  BY <1>1, <1>2, <1>4 DEF RouterInv

\* and every step of the router keeps it.
LEMMA RouterStep ==
  ASSUME RouterInv, [Agent!Next]_Agent!vars
  PROVE  RouterInv'
<1>1. ASSUME UNCHANGED <<served, env, instances, agent>>, file' \in RouterDocs
      PROVE  RouterInv'
  BY <1>1 DEF RouterInv
<1>2. CASE UNCHANGED Agent!vars
  <2>1. file' \in RouterDocs /\ UNCHANGED <<served, env, instances, agent>>
    BY <1>2, OtherFields DEF Agent!vars
  <2> QED  BY <1>1, <2>1
<1>3. CASE Agent!Edit
  BY <1>1, <1>3 DEF Agent!Edit
<1>4. ASSUME NEW b \in Backends, Agent!RegisterClient(b) \/ Agent!UnregisterClient(b)
      PROVE  RouterInv'
  <2>1. file' \in RouterDocs /\ UNCHANGED <<served, env, instances, agent>>
    BY <1>4, OtherFields DEF Agent!RegisterClient, Agent!UnregisterClient
  <2> QED  BY <1>1, <2>1
<1>5. ASSUME NEW c \in AgentCallers, Agent!Begin(c) \/ Agent!Step(c)
      PROVE  RouterInv'
  BY <1>5, BeginOk, ReadBlockOk, SelectOk, AcquireOk, ConfigOk, ChatOk DEF Agent!Step
<1> QED  BY <1>2, <1>3, <1>4, <1>5 DEF Agent!Next

-----------------------------------------------------------------------------
(* What follows from the invariant. *)

\* The router counts like everybody else.
LEMMA SameCount == \A S : Agent!Cardinality(S) = Cardinality(S)
BY DEF Agent!Cardinality, Cardinality

\* The routing of a call is what its document declares.
LEMMA RoutedSoundly ==
  ASSUME RouterInv
  PROVE  RoutedAsDeclared
<1>1. Agent!SentToItsModel
  BY OtherFields DEF Agent!SentToItsModel, CallInv, SentSoundly
<1>2. Agent!FallbackDiscipline
  <2> SUFFICES ASSUME NEW c \in AgentCallers
               PROVE  LET s == agent[c].sent IN
                 /\ \A i, k \in DOMAIN s : i < k => s[i].reply \notin {"ok", "flow"}
                 /\ \A i, j, k \in DOMAIN s :
                      i < j /\ j < k /\ s[i].backend = s[k].backend => s[j].backend = s[i].backend
                 /\ Agent!Cardinality({s[i].backend : i \in DOMAIN s}) > 1
                      => agent[c].doc.fallback
    BY DEF Agent!FallbackDiscipline
  <2> DEFINE me == agent[c]
             s == me.sent
             named == {s[i].backend : i \in DOMAIN s}
  <2>1. me \in CallRecord /\ SentSoundly(me)
    BY OtherFields DEF CallInv
  <2> HIDE DEF me
  <2>2. CASE s = <<>>
    <3>1. named = {}
      BY <2>2
    <3>2. Agent!Cardinality(named) = 0
      BY <3>1, SameCount, FS_EmptySet
    <3> QED  BY <2>1, <2>2, <3>2 DEF SentSoundly, me
  <2>3. CASE s # <<>> /\ me.scan
    BY <2>1, <2>3 DEF SentSoundly, me
  <2>4. CASE s # <<>> /\ ~me.scan
    <3>1. named \subseteq {me.chosen}
      BY <2>1, <2>4 DEF SentSoundly
    <3>2. Cardinality(named) \in Nat /\ Cardinality(named) <= 1
      <4>1. IsFiniteSet({me.chosen}) /\ Cardinality({me.chosen}) = 1
        BY FS_Singleton
      <4> HIDE DEF named
      <4>2. IsFiniteSet(named) /\ Cardinality(named) <= Cardinality({me.chosen})
        BY <3>1, <4>1, FS_Subset
      <4> QED  BY <4>1, <4>2, FS_CardinalityType
    <3>3. ~(Agent!Cardinality(named) > 1)
      BY <3>2, SameCount
    <3> QED  BY <2>1, <3>3 DEF SentSoundly, me
  <2> QED  BY <2>2, <2>3, <2>4
<1>3. Agent!EndsTruthfully
  BY OtherFields DEF Agent!EndsTruthfully, CallInv, EndedTruly, Agent!Last
<1> QED  BY <1>1, <1>2, <1>3 DEF RoutedAsDeclared, Agent!RoutedAsDeclared

\* The retries of a call are those tuned.
LEMMA RetriedSoundly ==
  ASSUME RouterInv
  PROVE  RetriedAsTuned
<1>1. Agent!AttemptsAsTuned
  BY OtherFields, SameCount
    DEF Agent!AttemptsAsTuned, Agent!Requests, CallInv, SentSoundly, RequestsTo, Allowed
<1>2. Agent!PaidOnce
  <2> SUFFICES ASSUME NEW c \in AgentCallers, NEW b \in Backends, Kind[b] = "anthropic"
               PROVE  Agent!Cardinality({i \in Agent!Requests(c, b) :
                                           agent[c].sent[i].reply \in {"ok", "timeout"}}) <= 1
    BY DEF Agent!PaidOnce
  <2> DEFINE paid == {i \in Agent!Requests(c, b) : agent[c].sent[i].reply \in {"ok", "timeout"}}
  <2>1. \A i, j \in paid : i = j
    BY OtherFields DEF CallInv, SentSoundly, IsPaid, Agent!Requests
  <2>2. CASE paid = {}
    BY <2>2, SameCount, FS_EmptySet
  <2>3. CASE paid # {}
    <3>1. PICK x : paid = {x}
      BY <2>1, <2>3
    <3> HIDE DEF paid
    <3>2. Cardinality({x}) = 1
      BY FS_Singleton
    <3>3. Agent!Cardinality(paid) = 1
      BY <3>1, <3>2, SameCount
    <3> QED  BY <3>3 DEF paid
  <2> QED  BY <2>2, <2>3
<1> QED  BY <1>1, <1>2 DEF RetriedAsTuned, Agent!RetriedAsTuned

-----------------------------------------------------------------------------
(* The answers (TrackedCall). *)

\* The rows of the answers, and what a call may hold of them.
RunRows ==
  [by : AnswerCallers, reply : Answers \cup {None}, parent : Nat \cup {None},
   status : {"success", "failed"}]

ChatEnds == Answers \cup {None}
RowIds   == Nat \cup {None}

\* What a call knows, by name, and where it stands.
AnswerFields ==
  {"pc", "opt", "chats", "rows", "value", "signals", "ok", "version", "written", "stored", "seen",
   "outcome"}
AnswerPcs == {"idle", "chat", "record", "parse", "reject", "validate", "store", "apply"}
Recorded == {"parse", "reject", "validate", "store", "apply"}

\* A sequence, whatever it holds.
IsSeq(s) == s \in Seq({s[i] : i \in DOMAIN s})

\* The call has ended and its caller knows how.
IsOver(me) == me.pc = "idle" /\ me.outcome \notin {None, "died"}

\* A first answer that is worth a second try.
Retriable(opt, first) ==
  /\ opt.json /\ opt.retry /\ first # None
  /\ Answering!TruncatedFromUsage(first.finish) # TRUE
  /\ Answering!Parsed(first.text, "any", opt.onTruncation, FALSE) = None

\* What a call knows.
AnswerShape(me) ==
  /\ DOMAIN me = AnswerFields /\ me.pc \in AnswerPcs
  /\ me.chats \in Seq(ChatEnds) /\ me.rows \in Seq(RowIds)
  /\ me.pc # "idle" => me.seen \in Documents
  /\ me.pc \in {"chat", "record", "parse", "reject", "validate"} => me.written = 0
  /\ me.pc \in {"store", "apply"} => me.opt.check # "none"
  /\ me.pc \in Recorded \cup {"record"} \/ IsOver(me) => me.chats # <<>>
  /\ me.pc \in Recorded \cup {"chat"} \/ IsOver(me) => Len(me.rows) = Len(me.chats)
  /\ me.pc = "record" => Len(me.chats) = Len(me.rows) + 1
  /\ me.pc \in Recorded => me.chats[Len(me.chats)] # None
  /\ me.pc = "chat" => Len(me.chats) <= 1
  /\ Len(me.chats) <= 2
  /\ Len(me.chats) = 2 \/ (me.pc = "chat" /\ Len(me.chats) = 1) => Retriable(me.opt, me.chats[1])
  /\ (me.pc = "validate" \/ (IsOver(me) /\ me.outcome = "returned" /\ me.opt.check = "none"))
       /\ me.opt.json => me.value = Answering!Answer(me) /\ me.value # None
  /\ IsOver(me) => /\ me.outcome \in {"returned", "unregistered", "client", "json", "record"}
                   /\ me.opt.entry = "tracked" /\ me.chats[Len(me.chats)] = None
                        => me.outcome = "client"

\* What the rows R say of it.
RowsAgree(c, me, R) ==
  /\ \A i \in DOMAIN me.rows : me.rows[i] # None =>
       /\ me.rows[i] \in 1 .. Len(R) /\ R[me.rows[i]].by = c
       /\ R[me.rows[i]].reply = me.chats[i]
  /\ \A i, j \in DOMAIN me.rows : me.rows[i] = me.rows[j] /\ me.rows[i] # None => i = j
  /\ Len(me.rows) = 2 /\ me.rows[2] # None => R[me.rows[2]].parent = me.rows[1]
  /\ LET row == me.rows[Len(me.rows)] IN
       /\ me.pc \in Recorded /\ row # None => R[row].status = "success"
       /\ IsOver(me) /\ row # None =>
            /\ me.outcome \in {"returned", "unregistered"} => R[row].status = "success"
            /\ me.outcome = "client" => R[row].status = "failed"
            /\ me.outcome = "json" /\ me.stored => R[row].status = "failed"
            /\ me.outcome # "record"

\* No two signals have one name.
UniqueNames(signals) ==
  \A i, j \in DOMAIN signals : signals[i].validator = signals[j].validator => i = j

\* How far the verdicts V hold its own.
VerdictsAgree(me, V) ==
  LET row == me.rows[Len(me.rows)] IN
  /\ me.pc \in {"parse", "validate"} /\ row # None => \A w \in V : w.run # row
  /\ me.pc = "store" =>
       /\ row # None
       /\ me.written \in 0 .. Len(me.signals)
       /\ \A w \in V : w.run = row =>
            "signal" \in DOMAIN w /\ \E i \in 1 .. me.written : w.signal = me.signals[i]
       /\ me.stored /\ UniqueNames(me.signals) =>
            \A i \in 1 .. me.written : [run |-> row, signal |-> me.signals[i]] \in V
  /\ me.pc = "apply" /\ row # None =>
       /\ \A w \in V : w.run = row /\ "signal" \in DOMAIN w =>
            \E i \in DOMAIN me.signals : w.signal = me.signals[i]
       /\ me.stored /\ UniqueNames(me.signals) =>
            /\ \A i \in DOMAIN me.signals : [run |-> row, signal |-> me.signals[i]] \in V
            /\ [run |-> row, tag |-> me.version] \in V
  /\ me.pc \in {"store", "apply"} =>
       /\ IsSeq(me.signals)
       /\ me.ok <=> Answering!Failures(me.signals) = {}

\* The inductive invariant of the answers.
AnswerInv ==
  /\ answerRuns \in Seq(RunRows)
  /\ \A w \in verdicts : w.run \in 1 .. Len(answerRuns)
  /\ registered # None => IsSeq(registered.checks)
  /\ doc \in Documents
  /\ \A a \in applied : a.seen = a.at
  /\ DOMAIN answer = AnswerCallers
  /\ \A c \in AnswerCallers :
       /\ AnswerShape(answer[c]) /\ RowsAgree(c, answer[c], answerRuns)
       /\ VerdictsAgree(answer[c], verdicts)

-----------------------------------------------------------------------------
USE DEF Answering!Me, Answering!At, Answering!Set

\* Another's write leaves alone what c has.
SameRunsOf(c, R, S) ==
  /\ Len(R) <= Len(S)
  /\ \A k \in 1 .. Len(R) : R[k].by = c => S[k] = R[k]
SameVerdictsOf(c, R, V, W) ==
  \A w \in V \cup W : w.run \in 1 .. Len(R) /\ R[w.run].by = c => (w \in V <=> w \in W)

\* What the others write says of a call what was said before: its rows,
LEMMA OthersRowsAgree ==
  ASSUME NEW c, NEW me, NEW R, NEW S, AnswerShape(me), RowsAgree(c, me, R), SameRunsOf(c, R, S),
         Len(R) \in Nat, Len(S) \in Nat
  PROVE  RowsAgree(c, me, S)
<1>1. me.rows \in Seq(RowIds)
  BY DEF AnswerShape
<1>2. \A i \in DOMAIN me.rows : me.rows[i] # None =>
        me.rows[i] \in 1 .. Len(R) /\ S[me.rows[i]] = R[me.rows[i]] /\ me.rows[i] \in 1 .. Len(S)
  BY DEF RowsAgree, SameRunsOf
<1>3. me.pc \in Recorded \/ IsOver(me) => Len(me.rows) \in DOMAIN me.rows
  BY <1>1 DEF AnswerShape
<1>4. Len(me.rows) = 2 => 2 \in DOMAIN me.rows
  BY <1>1
<1> QED  BY <1>2, <1>3, <1>4 DEF RowsAgree

\* and its verdicts.
LEMMA OthersVerdictsAgree ==
  ASSUME NEW c, NEW me, NEW R, NEW V, NEW W, AnswerShape(me), RowsAgree(c, me, R),
         VerdictsAgree(me, V), SameVerdictsOf(c, R, V, W)
  PROVE  VerdictsAgree(me, W)
<1> DEFINE row == me.rows[Len(me.rows)]
<1>1. me.rows \in Seq(RowIds)
  BY DEF AnswerShape
<1>2. me.pc \in Recorded => Len(me.rows) \in DOMAIN me.rows
  BY <1>1 DEF AnswerShape
<1>3. me.pc \in Recorded /\ row # None => row \in 1 .. Len(R) /\ R[row].by = c
  BY <1>2 DEF RowsAgree
<1> HIDE DEF row
<1>4. me.pc \in Recorded /\ row # None => \A w \in W : w.run = row => w \in V
  BY <1>3 DEF SameVerdictsOf
<1>5. me.pc \in Recorded /\ row # None => \A w \in V : w.run = row => w \in W
  BY <1>3 DEF SameVerdictsOf
<1>6. \A s : [run |-> row, signal |-> s].run = row
  OBVIOUS
<1>7. [run |-> row, tag |-> me.version].run = row
  OBVIOUS
<1>8. me.pc \in {"parse", "validate"} /\ row # None => \A w \in W : w.run # row
  BY <1>4 DEF VerdictsAgree, Recorded, row
<1>9. me.pc = "store" =>
       /\ row # None
       /\ me.written \in 0 .. Len(me.signals)
       /\ \A w \in W : w.run = row =>
            "signal" \in DOMAIN w /\ \E i \in 1 .. me.written : w.signal = me.signals[i]
       /\ me.stored /\ UniqueNames(me.signals) =>
            \A i \in 1 .. me.written : [run |-> row, signal |-> me.signals[i]] \in W
  BY <1>4, <1>5, <1>6 DEF VerdictsAgree, Recorded, row
<1>10. me.pc = "apply" /\ row # None =>
       /\ \A w \in W : w.run = row /\ "signal" \in DOMAIN w =>
            \E i \in DOMAIN me.signals : w.signal = me.signals[i]
       /\ me.stored /\ UniqueNames(me.signals) =>
            /\ \A i \in DOMAIN me.signals : [run |-> row, signal |-> me.signals[i]] \in W
            /\ [run |-> row, tag |-> me.version] \in W
  BY <1>4, <1>5, <1>6, <1>7 DEF VerdictsAgree, Recorded, row
<1> QED  BY <1>8, <1>9, <1>10 DEF VerdictsAgree, row

\* One call moves, and what it writes is its own.
LEMMA OneAnswerMoves ==
  ASSUME AnswerInv, NEW c \in AnswerCallers, NEW it, answer' = [answer EXCEPT ![c] = it],
         answerRuns' \in Seq(RunRows),
         \A w \in verdicts' : w.run \in 1 .. Len(answerRuns'),
         registered' # None => IsSeq(registered'.checks),
         doc' \in Documents, \A a \in applied' : a.seen = a.at,
         \A d \in AnswerCallers \ {c} :
           /\ SameRunsOf(d, answerRuns, answerRuns')
           /\ SameVerdictsOf(d, answerRuns, verdicts, verdicts'),
         AnswerShape(it), RowsAgree(c, it, answerRuns'), VerdictsAgree(it, verdicts')
  PROVE  AnswerInv'
<1>1. answer'[c] = it /\ DOMAIN answer' = AnswerCallers
      /\ \A d \in AnswerCallers \ {c} : answer'[d] = answer[d]
  BY DEF AnswerInv
<1>2. \A d \in AnswerCallers \ {c} :
        /\ AnswerShape(answer[d]) /\ RowsAgree(d, answer[d], answerRuns)
        /\ VerdictsAgree(answer[d], verdicts)
  BY DEF AnswerInv
<1>3. Len(answerRuns) \in Nat /\ Len(answerRuns') \in Nat
  BY DEF AnswerInv
<1>4. \A d \in AnswerCallers \ {c} :
        RowsAgree(d, answer'[d], answerRuns') /\ VerdictsAgree(answer'[d], verdicts')
  BY <1>1, <1>2, <1>3, OthersRowsAgree, OthersVerdictsAgree
<1> QED  BY <1>1, <1>2, <1>4 DEF AnswerInv

\* One call moves and writes nothing.
LEMMA OnlyAnswerMoves ==
  ASSUME AnswerInv, NEW c \in AnswerCallers, NEW it, answer' = [answer EXCEPT ![c] = it],
         UNCHANGED <<answerRuns, verdicts, registered, doc, applied>>,
         AnswerShape(it), RowsAgree(c, it, answerRuns), VerdictsAgree(it, verdicts)
  PROVE  AnswerInv'
<1>1. /\ answerRuns \in Seq(RunRows) /\ \A w \in verdicts : w.run \in 1 .. Len(answerRuns)
      /\ registered # None => IsSeq(registered.checks)
      /\ doc \in Documents /\ \A a \in applied : a.seen = a.at
  BY DEF AnswerInv
<1>2. \A d \in AnswerCallers \ {c} :
           /\ SameRunsOf(d, answerRuns, answerRuns)
           /\ SameVerdictsOf(d, answerRuns, verdicts, verdicts)
  BY <1>1 DEF SameRunsOf, SameVerdictsOf
<1> QED  BY <1>1, <1>2, OneAnswerMoves

\* What the invariant says of one call.
LEMMA AnswerFacts ==
  ASSUME AnswerInv, NEW c \in AnswerCallers
  PROVE  /\ AnswerShape(answer[c]) /\ RowsAgree(c, answer[c], answerRuns)
         /\ VerdictsAgree(answer[c], verdicts)
BY DEF AnswerInv

\* The call is over and has returned what it has.
LEMMA EndedFields ==
  ASSUME NEW me, DOMAIN me = AnswerFields, NEW o
  PROVE  LET it == Answering!Ended(me, o) IN
         /\ DOMAIN it = AnswerFields /\ it.pc = "idle" /\ it.outcome = o
         /\ it.opt = me.opt /\ it.chats = me.chats /\ it.rows = me.rows /\ it.value = me.value
         /\ it.stored = me.stored
BY DEF Answering!Ended, AnswerFields

\* A call starts with nothing asked and nothing recorded.
LEMMA BeginAnswer ==
  ASSUME AnswerInv, NEW c \in AnswerCallers, Answering!Begin(c)
  PROVE  AnswerInv'
<1>1. PICK o \in Ways : answer' = [answer EXCEPT ![c] =
         [Answering!Idle EXCEPT !.pc = "chat", !.opt = o, !.seen = doc]]
  BY DEF Answering!Begin
<1> DEFINE it == [Answering!Idle EXCEPT !.pc = "chat", !.opt = o, !.seen = doc]
<1>2. /\ DOMAIN it = AnswerFields /\ it.pc = "chat" /\ it.seen = doc /\ it.chats = <<>>
      /\ it.rows = <<>> /\ it.written = 0
  BY DEF Answering!Idle, AnswerFields
<1>3. doc \in Documents
  BY DEF AnswerInv
<1> HIDE DEF it
<1>4. AnswerShape(it)
  BY <1>2, <1>3 DEF AnswerShape, AnswerPcs, Recorded, IsOver
<1>5. RowsAgree(c, it, answerRuns) /\ VerdictsAgree(it, verdicts)
  BY <1>2 DEF RowsAgree, VerdictsAgree, Recorded, IsOver
<1>6. answer' = [answer EXCEPT ![c] = it]
  BY <1>1 DEF it
<1> QED  BY <1>4, <1>5, <1>6, OnlyAnswerMoves DEF Answering!Begin

\* The client answers, or raises; a second answer follows a retriable one.
LEMMA ChatAnswer ==
  ASSUME AnswerInv, NEW c \in AnswerCallers, Answering!Chat(c)
  PROVE  AnswerInv'
<1> DEFINE me == answer[c]
<1>1. PICK r \in Answers \cup {None} : answer' = [answer EXCEPT ![c] =
         [me EXCEPT !.chats = Append(@, r), !.pc = "record"]]
  BY DEF Answering!Chat
<1>2. AnswerShape(me) /\ RowsAgree(c, me, answerRuns) /\ me.pc = "chat"
  BY AnswerFacts DEF Answering!Chat
<1> HIDE DEF me
<1> DEFINE it == [me EXCEPT !.chats = Append(@, r), !.pc = "record"]
<1>3. /\ DOMAIN it = AnswerFields /\ it.pc = "record" /\ it.chats = Append(me.chats, r)
      /\ it.rows = me.rows /\ it.seen = me.seen /\ it.opt = me.opt /\ it.written = me.written
  BY <1>2 DEF AnswerShape, AnswerFields
<1>4. answer' = [answer EXCEPT ![c] = it]
  BY <1>1
<1> HIDE DEF it
<1>5. /\ me.chats \in Seq(ChatEnds) /\ me.rows \in Seq(RowIds)
      /\ Len(me.chats) \in Nat /\ Len(me.chats) <= 1 /\ Len(me.rows) = Len(me.chats)
      /\ Len(me.chats) = 1 => Retriable(me.opt, me.chats[1])
      /\ me.seen \in Documents /\ me.written = 0
  BY <1>2 DEF AnswerShape
<1>6. /\ it.chats \in Seq(ChatEnds) /\ it.chats # <<>>
      /\ Len(it.chats) = Len(me.chats) + 1
      /\ \A i \in 1 .. Len(me.chats) : it.chats[i] = me.chats[i]
  <2> DEFINE old == me.chats
             new == Append(old, r)
  <2>1. old \in Seq(ChatEnds) /\ r \in ChatEnds
    BY <1>1, <1>5 DEF ChatEnds
  <2> HIDE DEF old
  <2>2. /\ new \in Seq(ChatEnds) /\ Len(new) = Len(old) + 1 /\ Len(old) \in Nat
        /\ \A i \in 1 .. Len(old) : new[i] = old[i]
    BY <2>1
  <2>3. new # <<>>
    BY <2>2
  <2> QED  BY <1>3, <2>2, <2>3 DEF old
<1>7. Len(it.chats) = 2 => Retriable(it.opt, it.chats[1])
  <2> SUFFICES ASSUME Len(it.chats) = 2
               PROVE  Retriable(it.opt, it.chats[1])
    OBVIOUS
  <2>1. Len(me.chats) = 1
    <3> DEFINE n == Len(me.chats)
    <3>1. n \in Nat /\ n + 1 = 2
      BY <1>5, <1>6
    <3> HIDE DEF n
    <3>2. n = 1
      BY <3>1
    <3> QED  BY <3>2 DEF n
  <2>2. it.chats[1] = me.chats[1]
    BY <1>6, <2>1
  <2> QED  BY <1>3, <1>5, <2>1, <2>2
<1>8. AnswerShape(it)
  BY <1>3, <1>5, <1>6, <1>7 DEF AnswerShape, AnswerPcs, Recorded, IsOver
<1>9. RowsAgree(c, it, answerRuns)
  <2>1. \A i \in DOMAIN it.rows : it.chats[i] = me.chats[i]
    BY <1>3, <1>5, <1>6
  <2>2. it.pc = "record" /\ it.rows = me.rows
    BY <1>3
  <2> QED  BY <1>2, <2>1, <2>2 DEF RowsAgree, Recorded, IsOver
<1>10. VerdictsAgree(it, verdicts)
  BY <1>3 DEF VerdictsAgree
<1> QED  BY <1>4, <1>8, <1>9, <1>10, OnlyAnswerMoves DEF Answering!Chat

\* A row of the table, as the writer leaves it.
LEMMA NewRow ==
  ASSUME AnswerInv, NEW c \in AnswerCallers, NEW row \in RunRows, row.by = c,
         answerRuns' = Append(answerRuns, row)
  PROVE  /\ answerRuns' \in Seq(RunRows) /\ Len(answerRuns') = Len(answerRuns) + 1
         /\ answerRuns'[Len(answerRuns) + 1] = row
         /\ Len(answerRuns) \in Nat
         /\ \A d : SameRunsOf(d, answerRuns, answerRuns')
         /\ \A w \in verdicts : w.run \in 1 .. Len(answerRuns') /\ w.run # Len(answerRuns) + 1
<1>1. answerRuns \in Seq(RunRows) /\ \A w \in verdicts : w.run \in 1 .. Len(answerRuns)
  BY DEF AnswerInv
<1>2. /\ answerRuns' \in Seq(RunRows) /\ Len(answerRuns') = Len(answerRuns) + 1
      /\ answerRuns'[Len(answerRuns) + 1] = row /\ Len(answerRuns) \in Nat
      /\ \A k \in 1 .. Len(answerRuns) : answerRuns'[k] = answerRuns[k]
  BY <1>1
<1> QED  BY <1>1, <1>2 DEF SameRunsOf

\* A call takes note of the row x of its last answer, and goes on or ends.
NotesRow(me, it, x) ==
  /\ DOMAIN it = AnswerFields /\ it.rows = Append(me.rows, x)
  /\ it.chats = me.chats /\ it.opt = me.opt /\ it.seen = me.seen /\ it.written = me.written
  /\ LET reply == me.chats[Len(me.chats)] IN
     \/ it.pc = "parse" /\ reply # None
     \/ it.pc = "idle" /\ it.outcome = "client" /\ reply = None
     \/ /\ it.pc = "idle" /\ it.outcome = "record" /\ x = None
        /\ ~(me.opt.entry = "tracked" /\ reply = None)

\* The row is there, or could not be written.
RowWritten(c, me, x) ==
  LET reply == me.chats[Len(me.chats)] IN
  \/ x = None /\ answerRuns' = answerRuns
  \/ \E row \in RunRows :
       /\ x = Len(answerRuns) + 1 /\ answerRuns' = Append(answerRuns, row)
       /\ row.by = c /\ row.reply = reply /\ row.parent = Answering!ParentOf(me)
       /\ row.status = IF reply = None THEN "failed" ELSE "success"

\* None is no row, no answer and no truth value.
LEMMA NoneIsNoRow == None \notin Nat /\ None \notin Answers /\ None \notin BOOLEAN
BY AnswerAssumption DEF Answering!NoneAssumption

\* A call that has noted its row knows what the table says.
LEMMA NotedOk ==
  ASSUME AnswerInv, NEW c \in AnswerCallers, answer[c].pc = "record",
         NEW x \in RowIds, NEW it, NotesRow(answer[c], it, x), RowWritten(c, answer[c], x)
  PROVE  AnswerShape(it) /\ RowsAgree(c, it, answerRuns') /\ VerdictsAgree(it, verdicts)
<1> DEFINE me == answer[c]
           ch == me.chats
           old == me.rows
           new == Append(old, x)
           k == Len(old)
           n == Len(answerRuns)
<1>1. AnswerShape(me) /\ RowsAgree(c, me, answerRuns) /\ me.pc = "record"
  BY AnswerFacts
<1>2. NotesRow(me, it, x) /\ RowWritten(c, me, x)
  OBVIOUS
<1> HIDE DEF me
<1>3. /\ ch \in Seq(ChatEnds) /\ old \in Seq(RowIds) /\ Len(ch) = k + 1 /\ k \in Nat
      /\ Len(ch) <= 2 /\ (Len(ch) = 2 => Retriable(me.opt, ch[1]))
      /\ me.seen \in Documents /\ me.written = 0
  BY <1>1 DEF AnswerShape
<1>4. /\ it.rows = new /\ it.chats = ch /\ it.opt = me.opt /\ it.seen = me.seen
      /\ it.written = me.written
      /\ DOMAIN it = AnswerFields
  BY <1>2 DEF NotesRow
<1> HIDE DEF ch, old
<1>5. /\ new \in Seq(RowIds) /\ Len(new) = k + 1 /\ DOMAIN new = 1 .. k + 1
      /\ new[k + 1] = x /\ DOMAIN old = 1 .. k
      /\ \A i \in 1 .. k : new[i] = old[i]
  BY <1>3
<1> HIDE DEF new, k
<1>6. ch # <<>>
  BY <1>3
<1>7. \/ it.pc = "parse" /\ ch[k + 1] # None
      \/ it.pc = "idle" /\ it.outcome = "client" /\ ch[k + 1] = None
      \/ /\ it.pc = "idle" /\ it.outcome = "record" /\ x = None
         /\ ~(me.opt.entry = "tracked" /\ ch[k + 1] = None)
  BY <1>2, <1>3 DEF NotesRow, ch
<1>8. AnswerShape(it)
  <2>1. Len(it.rows) = Len(it.chats) /\ Len(it.chats) = k + 1
    BY <1>3, <1>4, <1>5
  <2> QED  BY <1>3, <1>4, <1>5, <1>6, <1>7, <2>1
           DEF AnswerShape, AnswerPcs, Recorded, IsOver
<1>9. /\ \A i \in 1 .. k : old[i] # None =>
           old[i] \in 1 .. n /\ answerRuns[old[i]].by = c /\ answerRuns[old[i]].reply = ch[i]
      /\ \A i, j \in 1 .. k : old[i] = old[j] /\ old[i] # None => i = j
  BY <1>1, <1>5 DEF RowsAgree, ch, old
<1>10. n \in Nat
  BY DEF AnswerInv
<1>11. CASE x = None /\ answerRuns' = answerRuns
  <2>1. RowsAgree(c, it, answerRuns)
    <3>1. \A i \in DOMAIN it.rows : it.rows[i] # None =>
            it.rows[i] \in 1 .. n /\ answerRuns[it.rows[i]].by = c
              /\ answerRuns[it.rows[i]].reply = it.chats[i]
      BY <1>3, <1>4, <1>5, <1>9, <1>11
    <3>2. \A i, j \in DOMAIN it.rows : it.rows[i] = it.rows[j] /\ it.rows[i] # None => i = j
      BY <1>3, <1>4, <1>5, <1>9, <1>11
    <3>3. it.rows[Len(it.rows)] = None
      BY <1>4, <1>5, <1>11
    <3> QED  BY <3>1, <3>2, <3>3 DEF RowsAgree
  <2>2. VerdictsAgree(it, verdicts)
    <3>1. it.rows[Len(it.rows)] = None /\ it.pc \in {"parse", "idle"}
      BY <1>4, <1>5, <1>7, <1>11
    <3> QED  BY <3>1 DEF VerdictsAgree
  <2> QED  BY <1>8, <1>11, <2>1, <2>2
<1>12. ASSUME NEW row \in RunRows,
              x = n + 1, answerRuns' = Append(answerRuns, row),
              row.by = c, row.reply = ch[k + 1], row.parent = Answering!ParentOf(me),
              row.status = IF ch[k + 1] = None THEN "failed" ELSE "success"
       PROVE  RowsAgree(c, it, answerRuns') /\ VerdictsAgree(it, verdicts)
  <2>1. /\ Len(answerRuns') = n + 1 /\ answerRuns'[n + 1] = row
        /\ \A d : SameRunsOf(d, answerRuns, answerRuns')
        /\ \A w \in verdicts : w.run # n + 1
    BY <1>12, NewRow
  <2>2. \A m \in 1 .. n : answerRuns[m].by = c => answerRuns'[m] = answerRuns[m]
    BY <2>1 DEF SameRunsOf
  <2>3. x # None
    BY <1>10, <1>12, NoneIsNoRow
  <2>4. it.rows[Len(it.rows)] = n + 1 /\ Len(it.rows) = k + 1
    BY <1>4, <1>5, <1>12
  <2>5. \A i \in DOMAIN it.rows : it.rows[i] # None =>
          it.rows[i] \in 1 .. n + 1 /\ answerRuns'[it.rows[i]].by = c
            /\ answerRuns'[it.rows[i]].reply = it.chats[i]
    <3>1. \A i \in 1 .. k : it.rows[i] # None =>
          it.rows[i] \in 1 .. n + 1 /\ answerRuns'[it.rows[i]].by = c
            /\ answerRuns'[it.rows[i]].reply = it.chats[i]
      BY <1>4, <1>5, <1>9, <1>10, <2>2
    <3>2. /\ it.rows[k + 1] = n + 1 /\ n + 1 \in 1 .. n + 1
          /\ answerRuns'[n + 1].by = c /\ answerRuns'[n + 1].reply = it.chats[k + 1]
      BY <1>4, <1>10, <1>12, <2>1, <2>4
    <3>3. \A i \in DOMAIN it.rows : i \in 1 .. k \/ i = k + 1
      BY <1>3, <1>4, <1>5
    <3> QED  BY <3>1, <3>2, <3>3
  <2>6. \A i, j \in DOMAIN it.rows : it.rows[i] = it.rows[j] /\ it.rows[i] # None => i = j
    <3>1. \A i \in 1 .. k : it.rows[i] # n + 1
      BY <1>4, <1>5, <1>9, <1>10, <2>3, <1>12
    <3>2. \A i \in DOMAIN it.rows : i \in 1 .. k \/ i = k + 1
      BY <1>3, <1>4, <1>5
    <3> QED  BY <1>4, <1>5, <1>9, <2>4, <3>1, <3>2
  <2>7. Len(it.rows) = 2 => answerRuns'[it.rows[2]].parent = it.rows[1]
    <3> SUFFICES ASSUME Len(it.rows) = 2
                 PROVE  answerRuns'[it.rows[2]].parent = it.rows[1]
      OBVIOUS
    <3>1. k = 1
      BY <1>3, <2>4
    <3>2. it.rows[2] = n + 1 /\ it.rows[1] = old[1]
      BY <1>4, <1>5, <2>4, <3>1
    <3>3. row.parent = old[1]
      BY <1>12, <3>1 DEF Answering!ParentOf, k, old
    <3> QED  BY <2>1, <3>2, <3>3
  <2>8. answerRuns'[n + 1].status = IF ch[k + 1] = None THEN "failed" ELSE "success"
    BY <1>12, <2>1
  <2>9. RowsAgree(c, it, answerRuns')
    BY <1>7, <1>12, <2>1, <2>3, <2>4, <2>5, <2>6, <2>7, <2>8 DEF RowsAgree, Recorded, IsOver
  <2>10. VerdictsAgree(it, verdicts)
    BY <1>7, <2>1, <2>4 DEF VerdictsAgree
  <2> QED  BY <2>9, <2>10
<1>13. CASE \E row \in RunRows :
              /\ x = n + 1 /\ answerRuns' = Append(answerRuns, row)
              /\ row.by = c /\ row.reply = ch[k + 1] /\ row.parent = Answering!ParentOf(me)
              /\ row.status = IF ch[k + 1] = None THEN "failed" ELSE "success"
  BY <1>8, <1>12, <1>13
<1> QED  BY <1>2, <1>3, <1>11, <1>13 DEF RowWritten, ch, n

\* The row is written, or its loss is raised or noted.
LEMMA RecordAnswer ==
  ASSUME AnswerInv, NEW c \in AnswerCallers, Answering!Record(c)
  PROVE  AnswerInv'
<1> DEFINE me == answer[c]
           reply == me.chats[Len(me.chats)]
           n == Len(answerRuns)
           row == [by |-> c, reply |-> reply, parent |-> Answering!ParentOf(me),
                   status |-> IF reply = None THEN "failed" ELSE "success"]
           noted(x) == [me EXCEPT !.rows = Append(@, x)]
           on(x) == [noted(x) EXCEPT !.pc = "parse"]
           ended(x, o) == Answering!Ended(noted(x), o)
<1>1. AnswerShape(me) /\ me.pc = "record"
  BY AnswerFacts DEF Answering!Record
<1>2. /\ verdicts' = verdicts /\ registered' = registered /\ doc' = doc /\ applied' = applied
      /\ \/ /\ answerRuns' = Append(answerRuns, row)
            /\ answer' = [answer EXCEPT ![c] = IF reply = None THEN ended(n + 1, "client")
                                              ELSE on(n + 1)]
         \/ /\ answerRuns' = answerRuns
            /\ answer' = [answer EXCEPT ![c] =
                            IF Answering!UnrecordedIsRaised(me) THEN ended(None, "record")
                            ELSE IF reply = None THEN ended(None, "client") ELSE on(None)]
  BY DEF Answering!Record, Answering!Reply, Answering!Last
<1> HIDE DEF me
<1>3. /\ me.chats \in Seq(ChatEnds) /\ me.rows \in Seq(RowIds) /\ Len(me.chats) = Len(me.rows) + 1
      /\ DOMAIN me = AnswerFields
  BY <1>1 DEF AnswerShape
<1>4. reply \in ChatEnds
  <2> DEFINE ch == me.chats
  <2>1. ch \in Seq(ChatEnds) /\ Len(ch) \in Nat /\ Len(ch) # 0
    BY <1>3
  <2> HIDE DEF ch
  <2>2. ch[Len(ch)] \in ChatEnds
    BY <2>1
  <2> QED  BY <2>2 DEF ch
<1>5. Answering!ParentOf(me) \in RowIds
  <2> DEFINE rs == me.rows
  <2>1. rs \in Seq(RowIds)
    BY <1>3
  <2> HIDE DEF rs
  <2>2. Len(rs) = 1 => rs[1] \in RowIds
    BY <2>1
  <2> QED  BY <2>2 DEF Answering!ParentOf, rs, RowIds
<1>6. row \in RunRows /\ row.by = c /\ row.reply = reply /\ row.parent = Answering!ParentOf(me)
      /\ row.status = IF reply = None THEN "failed" ELSE "success"
  BY <1>4, <1>5 DEF RunRows, ChatEnds, RowIds
<1>7. \A x : /\ DOMAIN noted(x) = AnswerFields /\ noted(x).rows = Append(me.rows, x)
             /\ noted(x).chats = me.chats /\ noted(x).opt = me.opt /\ noted(x).seen = me.seen
             /\ noted(x).written = me.written
  BY <1>3 DEF AnswerFields
<1>8. \A x : /\ DOMAIN on(x) = AnswerFields /\ on(x).rows = Append(me.rows, x)
             /\ on(x).chats = me.chats /\ on(x).opt = me.opt /\ on(x).seen = me.seen
             /\ on(x).written = me.written
             /\ on(x).pc = "parse"
  BY <1>3 DEF AnswerFields
<1>9. \A x, o : /\ DOMAIN ended(x, o) = AnswerFields /\ ended(x, o).rows = Append(me.rows, x)
                /\ ended(x, o).chats = me.chats /\ ended(x, o).opt = me.opt
                /\ ended(x, o).seen = me.seen /\ ended(x, o).written = me.written
                /\ ended(x, o).pc = "idle" /\ ended(x, o).outcome = o
  BY <1>3 DEF AnswerFields, Answering!Ended
<1> HIDE DEF row, on, ended
<1>10. /\ answerRuns \in Seq(RunRows) /\ n \in Nat
       /\ \A w \in verdicts : w.run \in 1 .. Len(answerRuns)
       /\ registered # None => IsSeq(registered.checks)
       /\ doc \in Documents /\ \A a \in applied : a.seen = a.at
  BY DEF AnswerInv
<1>11. PICK x, it :
         /\ x \in RowIds
         /\ answer' = [answer EXCEPT ![c] = it] /\ NotesRow(me, it, x) /\ RowWritten(c, me, x)
  <2>1. CASE /\ answerRuns' = Append(answerRuns, row)
             /\ answer' = [answer EXCEPT ![c] = IF reply = None THEN ended(n + 1, "client")
                                              ELSE on(n + 1)]
    <3>1. RowWritten(c, me, n + 1)
      BY <1>6, <2>1 DEF RowWritten
    <3>2. n + 1 \in RowIds
      BY <1>10 DEF RowIds
    <3>3. reply = None => NotesRow(me, ended(n + 1, "client"), n + 1)
      BY <1>9 DEF NotesRow
    <3>4. reply # None => NotesRow(me, on(n + 1), n + 1)
      BY <1>8 DEF NotesRow
    <3> QED  BY <2>1, <3>1, <3>2, <3>3, <3>4
  <2>2. CASE /\ answerRuns' = answerRuns
             /\ answer' = [answer EXCEPT ![c] =
                            IF Answering!UnrecordedIsRaised(me) THEN ended(None, "record")
                            ELSE IF reply = None THEN ended(None, "client") ELSE on(None)]
    <3>1. RowWritten(c, me, None) /\ None \in RowIds
      BY <2>2 DEF RowWritten, RowIds
    <3>2. Answering!UnrecordedIsRaised(me) => NotesRow(me, ended(None, "record"), None)
      <4>1. Answering!UnrecordedIsRaised(me) => ~(me.opt.entry = "tracked" /\ reply = None)
        BY DEF Answering!UnrecordedIsRaised, Answering!Reply, Answering!Last
      <4> QED  BY <1>9, <4>1 DEF NotesRow
    <3>3. reply = None => NotesRow(me, ended(None, "client"), None)
      BY <1>9 DEF NotesRow
    <3>4. reply # None => NotesRow(me, on(None), None)
      BY <1>8 DEF NotesRow
    <3> QED  BY <2>2, <3>1, <3>2, <3>3, <3>4
  <2> QED  BY <1>2, <2>1, <2>2
<1>12. AnswerShape(it) /\ RowsAgree(c, it, answerRuns') /\ VerdictsAgree(it, verdicts)
  BY <1>1, <1>11, NotedOk DEF me
<1>13. /\ answerRuns' \in Seq(RunRows) /\ (\A w \in verdicts : w.run \in 1 .. Len(answerRuns'))
       /\ \A d : SameRunsOf(d, answerRuns, answerRuns')
  <2>1. CASE answerRuns' = answerRuns
    BY <1>10, <2>1 DEF SameRunsOf
  <2>2. CASE answerRuns' = Append(answerRuns, row)
    BY <1>6, <2>2, NewRow
  <2> QED  BY <1>2, <2>1, <2>2
<1>14. \A d : SameVerdictsOf(d, answerRuns, verdicts, verdicts)
  BY DEF SameVerdictsOf
<1> QED  BY <1>2, <1>10, <1>11, <1>12, <1>13, <1>14, OneAnswerMoves

\* What happens to an answer leaves alone what was asked and recorded.
SameCall(me, it) ==
  /\ DOMAIN it = AnswerFields /\ it.chats = me.chats /\ it.rows = me.rows
  /\ it.opt = me.opt /\ it.seen = me.seen

\* A recorded call has a last answer and its row.
LEMMA LastOnes ==
  ASSUME NEW me, AnswerShape(me), me.pc \in Recorded
  PROVE  /\ Len(me.rows) = Len(me.chats) /\ Len(me.chats) \in Nat /\ Len(me.chats) > 0
         /\ DOMAIN me.chats = 1 .. Len(me.chats) /\ DOMAIN me.rows = 1 .. Len(me.chats)
         /\ Answering!Reply(me) = me.chats[Len(me.chats)] /\ Answering!Reply(me) \in Answers
         /\ Answering!Row(me) = me.rows[Len(me.rows)] /\ Answering!Row(me) \in RowIds
<1> DEFINE ch == me.chats
           rs == me.rows
           n == Len(ch)
<1>1. ch \in Seq(ChatEnds) /\ rs \in Seq(RowIds) /\ ch # <<>> /\ Len(rs) = n /\ ch[n] # None
  BY DEF AnswerShape
<1> HIDE DEF ch, rs
<1>2. n \in Nat /\ n > 0 /\ DOMAIN ch = 1 .. n /\ DOMAIN rs = 1 .. n
  BY <1>1
<1>3. ch[n] \in ChatEnds /\ rs[n] \in RowIds
  BY <1>1, <1>2
<1>4. Answering!Reply(me) = ch[n] /\ Answering!Row(me) = rs[Len(rs)]
  BY DEF Answering!Reply, Answering!Row, Answering!Last, ch, rs
<1> QED  BY <1>1, <1>2, <1>3, <1>4 DEF ChatEnds, ch, rs

\* The JSON of an answer depends on the answer and on how it was asked for.
LEMMA SameAnswer ==
  ASSUME NEW me, NEW it, it.chats = me.chats, it.opt = me.opt
  PROVE  Answering!Answer(it) = Answering!Answer(me)
BY DEF Answering!Answer, Answering!Reply, Answering!Truncated

\* Parsing asks of a cut only whether it is known.
LEMMA UncutParse ==
  ASSUME NEW reply, NEW expect, NEW onTruncation, NEW cut, cut # TRUE
  PROVE  Answering!Parsed(reply, expect, onTruncation, cut)
           = Answering!Parsed(reply, expect, onTruncation, FALSE)
BY DEF Answering!Parsed

\* A recorded call that goes on keeps its shape,
LEMMA StaysShaped ==
  ASSUME NEW me, NEW it, AnswerShape(me), me.pc \in Recorded, SameCall(me, it),
         it.pc \in Recorded,
         it.pc \in {"parse", "reject", "validate"} => it.written = 0,
         it.pc \in {"store", "apply"} => it.opt.check # "none",
         it.pc = "validate" /\ it.opt.json => it.value = Answering!Answer(it) /\ it.value # None
  PROVE  AnswerShape(it)
<1>1. it.pc \in {"parse", "reject", "validate", "store", "apply"}
  BY DEF Recorded
<1>2. me.pc # "idle"
  BY DEF Recorded
<1>3. it.pc # "idle" /\ it.pc # "chat" /\ it.pc # "record" /\ it.pc \in AnswerPcs
  BY <1>1 DEF AnswerPcs
<1> QED  BY <1>2, <1>3 DEF SameCall, AnswerShape, IsOver

\* and its agreement with the rows.
LEMMA StaysAgreed ==
  ASSUME NEW c, NEW me, NEW it, NEW R, RowsAgree(c, me, R), me.pc \in Recorded,
         it.pc \in Recorded, SameCall(me, it)
  PROVE  RowsAgree(c, it, R)
BY DEF RowsAgree, SameCall, Recorded, IsOver

\* The call ends with its answer.
LEMMA EndsShaped ==
  ASSUME NEW me, NEW it, AnswerShape(me), me.pc \in Recorded, SameCall(me, it),
         it.pc = "idle", it.outcome \in {"returned", "unregistered", "json"},
         it.outcome = "returned" /\ it.opt.check = "none" /\ it.opt.json =>
           it.value = Answering!Answer(it) /\ it.value # None
  PROVE  AnswerShape(it)
<1>2. me.pc # "idle"
  BY DEF Recorded
<1>3. it.pc \notin Recorded /\ it.pc \in AnswerPcs
  BY DEF AnswerPcs, Recorded
<1> QED  BY <1>2, <1>3 DEF SameCall, AnswerShape, IsOver

\* Its row says that it succeeded.
LEMMA EndsAgreed ==
  ASSUME NEW c, NEW me, NEW it, NEW R, RowsAgree(c, me, R), me.pc \in Recorded,
         it.pc = "idle", it.outcome \in {"returned", "unregistered"}, SameCall(me, it)
  PROVE  RowsAgree(c, it, R)
BY DEF RowsAgree, SameCall, Recorded, IsOver

\* The JSON of the answer is found, asked for once more, or given up.
LEMMA ParseAnswer ==
  ASSUME AnswerInv, NEW c \in AnswerCallers, Answering!Parse(c)
  PROVE  AnswerInv'
<1> DEFINE me == answer[c]
<1>1. AnswerShape(me) /\ RowsAgree(c, me, answerRuns) /\ VerdictsAgree(me, verdicts)
      /\ me.pc = "parse"
  BY AnswerFacts DEF Answering!Parse
<1>2. /\ answer' = [answer EXCEPT ![c] =
            IF ~me.opt.json THEN [me EXCEPT !.pc = "validate"]
            ELSE IF Answering!Answer(me) # None
              THEN [me EXCEPT !.pc = "validate", !.value = Answering!Answer(me)]
            ELSE IF Answering!Retries(me) THEN [me EXCEPT !.pc = "chat"]
            ELSE [me EXCEPT !.pc = "reject"]]
      /\ UNCHANGED <<answerRuns, verdicts, registered, doc, applied>>
  BY DEF Answering!Parse
<1> HIDE DEF me
<1>3. DOMAIN me = AnswerFields /\ me.pc \in Recorded /\ me.written = 0
  BY <1>1 DEF AnswerShape, Recorded
<1>4. /\ Len(me.rows) = Len(me.chats) /\ Len(me.chats) \in Nat
      /\ Answering!Reply(me) = me.chats[Len(me.chats)] /\ me.chats[Len(me.chats)] # None
  BY <1>1, <1>3, LastOnes DEF AnswerShape
<1>5. CASE ~me.opt.json
  <2> DEFINE it == [me EXCEPT !.pc = "validate"]
  <2>1. SameCall(me, it) /\ it.written = 0 /\ it.pc = "validate"
    BY <1>3 DEF SameCall, AnswerFields
  <2>2. answer' = [answer EXCEPT ![c] = it]
    BY <1>2, <1>5
  <2> HIDE DEF it
  <2>3. it.pc \in Recorded /\ ~it.opt.json
    BY <2>1, <1>5 DEF Recorded, SameCall
  <2>4. AnswerShape(it) /\ RowsAgree(c, it, answerRuns)
    BY <1>1, <1>3, <2>1, <2>3, StaysShaped, StaysAgreed
  <2>5. VerdictsAgree(it, verdicts)
    BY <1>1, <2>1 DEF VerdictsAgree, SameCall
  <2> QED  BY <1>2, <2>2, <2>4, <2>5, OnlyAnswerMoves
<1>6. CASE me.opt.json /\ Answering!Answer(me) # None
  <2> DEFINE it == [me EXCEPT !.pc = "validate", !.value = Answering!Answer(me)]
  <2>1. SameCall(me, it) /\ it.written = 0 /\ it.pc = "validate" /\ it.value = Answering!Answer(me)
    BY <1>3 DEF SameCall, AnswerFields
  <2>2. answer' = [answer EXCEPT ![c] = it]
    BY <1>2, <1>6
  <2> HIDE DEF it
  <2>3. it.pc \in Recorded /\ Answering!Answer(it) = Answering!Answer(me)
    BY <2>1, SameAnswer DEF Recorded, SameCall
  <2>4. AnswerShape(it) /\ RowsAgree(c, it, answerRuns)
    BY <1>1, <1>3, <1>6, <2>1, <2>3, StaysShaped, StaysAgreed
  <2>5. VerdictsAgree(it, verdicts)
    BY <1>1, <2>1 DEF VerdictsAgree, SameCall
  <2> QED  BY <1>2, <2>2, <2>4, <2>5, OnlyAnswerMoves
<1>7. CASE me.opt.json /\ Answering!Answer(me) = None /\ Answering!Retries(me)
  <2> DEFINE it == [me EXCEPT !.pc = "chat"]
  <2>1. SameCall(me, it) /\ it.written = 0 /\ it.pc = "chat"
    BY <1>3 DEF SameCall, AnswerFields
  <2>2. answer' = [answer EXCEPT ![c] = it]
    BY <1>2, <1>7
  <2> HIDE DEF it
  <2>3. me.opt.retry /\ Len(me.chats) = 1 /\ Answering!Truncated(me) # TRUE
    BY <1>7 DEF Answering!Retries
  <2>4. Retriable(me.opt, me.chats[1])
    <3>1. Answering!Reply(me) = me.chats[1] /\ me.chats[1] # None
      BY <1>4, <2>3
    <3>2. Answering!TruncatedFromUsage(me.chats[1].finish) # TRUE
      BY <2>3, <3>1 DEF Answering!Truncated
    <3>3. Answering!Parsed(me.chats[1].text, "any", me.opt.onTruncation,
                           Answering!TruncatedFromUsage(me.chats[1].finish)) = None
      BY <1>7, <3>1 DEF Answering!Answer, Answering!Truncated
    <3>4. Answering!Parsed(me.chats[1].text, "any", me.opt.onTruncation, FALSE) = None
      BY <3>2, <3>3, UncutParse
    <3> QED  BY <1>7, <2>3, <3>1, <3>2, <3>4 DEF Retriable
  <2>5. AnswerShape(it)
    BY <1>1, <1>4, <2>1, <2>3, <2>4 DEF AnswerShape, SameCall, AnswerPcs, Recorded, IsOver
  <2>6. RowsAgree(c, it, answerRuns)
    BY <1>1, <2>1 DEF RowsAgree, SameCall, Recorded, IsOver
  <2>7. VerdictsAgree(it, verdicts)
    BY <2>1 DEF VerdictsAgree
  <2> QED  BY <1>2, <2>2, <2>5, <2>6, <2>7, OnlyAnswerMoves
<1>8. CASE me.opt.json /\ Answering!Answer(me) = None /\ ~Answering!Retries(me)
  <2> DEFINE it == [me EXCEPT !.pc = "reject"]
  <2>1. SameCall(me, it) /\ it.written = 0 /\ it.pc = "reject"
    BY <1>3 DEF SameCall, AnswerFields
  <2>2. answer' = [answer EXCEPT ![c] = it]
    BY <1>2, <1>8
  <2> HIDE DEF it
  <2>3. it.pc \in Recorded
    BY <2>1 DEF Recorded
  <2>4. AnswerShape(it) /\ RowsAgree(c, it, answerRuns)
    BY <1>1, <1>3, <2>1, <2>3, StaysShaped, StaysAgreed
  <2>5. VerdictsAgree(it, verdicts)
    BY <2>1 DEF VerdictsAgree
  <2> QED  BY <1>2, <2>2, <2>4, <2>5, OnlyAnswerMoves
<1> QED  BY <1>5, <1>6, <1>7, <1>8

\* The row of a refused answer is marked: the row of this call, and of no other.
LEMMA RejectAnswer ==
  ASSUME AnswerInv, NEW c \in AnswerCallers, Answering!Reject(c)
  PROVE  AnswerInv'
<1> DEFINE me == answer[c]
           row == me.rows[Len(me.rows)]
           marked == Answering!Ended(me, "json")
           unmarked == Answering!Ended([me EXCEPT !.stored = FALSE], "json")
<1>1. AnswerShape(me) /\ RowsAgree(c, me, answerRuns) /\ me.pc = "reject"
  BY AnswerFacts DEF Answering!Reject
<1>2. me.pc \in Recorded /\ DOMAIN me = AnswerFields
  BY <1>1 DEF Recorded, AnswerShape
<1>3. /\ Answering!Row(me) = row /\ row \in RowIds /\ Len(me.rows) \in DOMAIN me.rows
      /\ Len(me.rows) \in Nat /\ Len(me.rows) > 0 /\ DOMAIN me.rows = 1 .. Len(me.rows)
  BY <1>1, <1>2, LastOnes
<1>4. /\ \/ /\ row # None
            /\ answerRuns' = [answerRuns EXCEPT ![row].status = "failed"]
            /\ answer' = [answer EXCEPT ![c] = marked]
         \/ answerRuns' = answerRuns /\ answer' = [answer EXCEPT ![c] = unmarked]
      /\ UNCHANGED <<verdicts, registered, doc, applied>>
  BY <1>3 DEF Answering!Reject, Answering!Rejected
<1> HIDE DEF me
<1>5. SameCall(me, marked) /\ marked.pc = "idle" /\ marked.outcome = "json"
  BY <1>2 DEF SameCall, AnswerFields, Answering!Ended
<1>6. SameCall(me, unmarked) /\ unmarked.pc = "idle" /\ unmarked.outcome = "json"
      /\ unmarked.stored = FALSE
  BY <1>2 DEF SameCall, AnswerFields, Answering!Ended
<1> HIDE DEF marked, unmarked
<1>7. CASE answerRuns' = answerRuns /\ answer' = [answer EXCEPT ![c] = unmarked]
  <2>1. AnswerShape(unmarked)
    BY <1>1, <1>2, <1>6, EndsShaped
  <2>2. RowsAgree(c, unmarked, answerRuns)
    BY <1>1, <1>6 DEF RowsAgree, SameCall, Recorded, IsOver
  <2>3. VerdictsAgree(unmarked, verdicts)
    BY <1>6 DEF VerdictsAgree
  <2> QED  BY <1>4, <1>7, <2>1, <2>2, <2>3, OnlyAnswerMoves
<1>8. CASE /\ row # None
           /\ answerRuns' = [answerRuns EXCEPT ![row].status = "failed"]
           /\ answer' = [answer EXCEPT ![c] = marked]
  <2>1. answerRuns \in Seq(RunRows) /\ (\A w \in verdicts : w.run \in 1 .. Len(answerRuns))
        /\ (registered # None => IsSeq(registered.checks))
        /\ doc \in Documents /\ (\A a \in applied : a.seen = a.at)
    BY DEF AnswerInv
  <2>2. row \in 1 .. Len(answerRuns) /\ answerRuns[row].by = c
    BY <1>1, <1>3, <1>8 DEF RowsAgree
  <2>3. /\ answerRuns[row] \in RunRows
        /\ answerRuns' = [answerRuns EXCEPT ![row] = [answerRuns[row] EXCEPT !.status = "failed"]]
    BY <1>8, <2>1, <2>2
  <2>4. /\ [answerRuns[row] EXCEPT !.status = "failed"] \in RunRows
        /\ [answerRuns[row] EXCEPT !.status = "failed"].by = answerRuns[row].by
        /\ [answerRuns[row] EXCEPT !.status = "failed"].reply = answerRuns[row].reply
        /\ [answerRuns[row] EXCEPT !.status = "failed"].parent = answerRuns[row].parent
        /\ [answerRuns[row] EXCEPT !.status = "failed"].status = "failed"
    BY <2>3 DEF RunRows
  <2>5. /\ answerRuns' \in Seq(RunRows) /\ Len(answerRuns') = Len(answerRuns)
        /\ \A k \in 1 .. Len(answerRuns) : k # row => answerRuns'[k] = answerRuns[k]
        /\ answerRuns'[row] = [answerRuns[row] EXCEPT !.status = "failed"]
    BY <2>1, <2>2, <2>3, <2>4
  <2>6. \A k \in 1 .. Len(answerRuns) :
          /\ answerRuns'[k].by = answerRuns[k].by /\ answerRuns'[k].reply = answerRuns[k].reply
          /\ answerRuns'[k].parent = answerRuns[k].parent
    BY <2>4, <2>5
  <2>7. \A d \in AnswerCallers \ {c} :
          /\ SameRunsOf(d, answerRuns, answerRuns')
          /\ SameVerdictsOf(d, answerRuns, verdicts, verdicts')
    <3>1. \A d \in AnswerCallers \ {c} : SameRunsOf(d, answerRuns, answerRuns')
      BY <2>1, <2>2, <2>5 DEF SameRunsOf
    <3> QED  BY <1>4, <3>1 DEF SameVerdictsOf
  <2>8. AnswerShape(marked)
    BY <1>1, <1>2, <1>5, EndsShaped
  <2>9. RowsAgree(c, marked, answerRuns')
    <3>1. marked.rows = me.rows /\ marked.chats = me.chats
      BY <1>5 DEF SameCall
    <3>2. \A i \in DOMAIN me.rows : me.rows[i] # None =>
            /\ me.rows[i] \in 1 .. Len(answerRuns') /\ answerRuns'[me.rows[i]].by = c
            /\ answerRuns'[me.rows[i]].reply = me.chats[i]
      BY <1>1, <2>5, <2>6 DEF RowsAgree
    <3>3. \A i, j \in DOMAIN me.rows : me.rows[i] = me.rows[j] /\ me.rows[i] # None => i = j
      BY <1>1 DEF RowsAgree
    <3>4. Len(me.rows) = 2 /\ me.rows[2] # None => answerRuns'[me.rows[2]].parent = me.rows[1]
      <4>1. Len(me.rows) = 2 => 2 \in DOMAIN me.rows
        BY <1>3
      <4>2. Len(me.rows) = 2 /\ me.rows[2] # None => me.rows[2] \in 1 .. Len(answerRuns)
        BY <1>1, <4>1 DEF RowsAgree
      <4> QED  BY <1>1, <2>6, <4>2 DEF RowsAgree
    <3>5. answerRuns'[row].status = "failed"
      BY <2>4, <2>5
    <3> QED  BY <1>5, <3>1, <3>2, <3>3, <3>4, <3>5 DEF RowsAgree, Recorded, IsOver
  <2>10. VerdictsAgree(marked, verdicts')
    BY <1>5 DEF VerdictsAgree
  <2> QED  BY <1>4, <1>8, <2>1, <2>5, <2>7, <2>8, <2>9, <2>10, OneAnswerMoves
<1> QED  BY <1>4, <1>7, <1>8

\* Closure properties of sequences: members of Seq,
LEMMA SeqIsSeq ==
  ASSUME NEW A, NEW s \in Seq(A)
  PROVE  IsSeq(s)
BY DEF IsSeq

\* what is known of one,
LEMMA SeqFacts ==
  ASSUME NEW s, IsSeq(s)
  PROVE  Len(s) \in Nat /\ DOMAIN s = 1 .. Len(s)
<1> DEFINE A == {s[i] : i \in DOMAIN s}
<1>1. s \in Seq(A)
  BY DEF IsSeq
<1> HIDE DEF A
<1> QED  BY <1>1

\* single elements,
LEMMA OneIsSeq ==
  ASSUME NEW x
  PROVE  IsSeq(<<x>>) /\ IsSeq(<<>>)
<1>1. <<x>> \in Seq({x}) /\ <<>> \in Seq({x})
  OBVIOUS
<1> QED  BY <1>1, SeqIsSeq

\* concatenation,
LEMMA JoinIsSeq ==
  ASSUME NEW s, NEW t, IsSeq(s), IsSeq(t)
  PROVE  IsSeq(s \o t)
<1> DEFINE A == {s[i] : i \in DOMAIN s}
           B == {t[i] : i \in DOMAIN t}
<1>1. s \in Seq(A) /\ t \in Seq(B)
  BY DEF IsSeq
<1> HIDE DEF A, B
<1>2. s \in Seq(A \cup B) /\ t \in Seq(A \cup B)
  BY <1>1
<1>3. s \o t \in Seq(A \cup B)
  BY <1>2
<1> QED  BY <1>3, SeqIsSeq

\* appending,
LEMMA AppendIsSeq ==
  ASSUME NEW s, NEW x, IsSeq(s)
  PROVE  IsSeq(Append(s, x))
<1> DEFINE A == {s[i] : i \in DOMAIN s}
<1>1. s \in Seq(A)
  BY DEF IsSeq
<1> HIDE DEF A
<1>2. s \in Seq(A \cup {x})
  BY <1>1
<1>3. Append(s, x) \in Seq(A \cup {x})
  BY <1>2
<1> QED  BY <1>3, SeqIsSeq

\* and mapping.
LEMMA MapIsSeq ==
  ASSUME NEW s, IsSeq(s), NEW F
  PROVE  \A f : f = [i \in DOMAIN s |-> F[i]] => IsSeq(f)
<1>1. Len(s) \in Nat /\ DOMAIN s = 1 .. Len(s)
  BY SeqFacts
<1>2. \A f : f = [i \in DOMAIN s |-> F[i]] => f \in Seq({F[i] : i \in DOMAIN s})
  BY <1>1
<1> QED  BY <1>2, SeqIsSeq

\* The signals of the stages are a sequence,
LEMMA StagesIsSeq ==
  ASSUME NEW p, NEW v, IsSeq(p.checks)
  PROVE  IsSeq(Answering!Stages(p, v))
<1> DEFINE told == [i \in DOMAIN p.checks |-> Answering!Checked(v, p.checks[i], Hooks, today)]
           first == IF p.shape = "none" THEN <<>> ELSE <<Answering!Signal("shape", "error", TRUE)>>
           only == <<Answering!ErrorSignal("shape")>>
<1>1. IsSeq(told)
  <2>1. Len(p.checks) \in Nat /\ DOMAIN p.checks = 1 .. Len(p.checks)
    BY SeqFacts
  <2>2. DOMAIN told = 1 .. Len(p.checks)
    BY <2>1
  <2> HIDE DEF told
  <2>3. told = [i \in DOMAIN p.checks |-> told[i]]
    BY <2>1, <2>2 DEF told
  <2> QED  BY <2>3, MapIsSeq
<1>2. IsSeq(first) /\ IsSeq(only)
  BY OneIsSeq
<1>3. Answering!Stages(p, v) = only \/ Answering!Stages(p, v) = first \o told
  BY DEF Answering!Stages
<1> HIDE DEF told, first, only
<1> QED  BY <1>1, <1>2, <1>3, JoinIsSeq

\* and so are all the signals of a verdict.
LEMMA JudgedIsSeq ==
  ASSUME NEW me, NEW p, IsSeq(p.checks)
  PROVE  IsSeq(Answering!Judged(me, p).signals)
<1> DEFINE note == IF Answering!CutKnown(me) THEN <<Answering!Signal("truncated", "warn", FALSE)>>
                   ELSE <<>>
           said == Answering!Judged(me, p).signals
<1>1. IsSeq(note) /\ \A n : IsSeq(<<Answering!ErrorSignal(n)>>)
  BY OneIsSeq
<1>2. PICK v :
        \/ said = Answering!Stages(p, v)
        \/ said = <<Answering!ErrorSignal("truncated")>>
        \/ said = Append(note, Answering!ErrorSignal("parse"))
        \/ said = note \o Answering!Stages(p, v)
  BY DEF Answering!Judged
<1> HIDE DEF note, said
<1>3. IsSeq(Answering!Stages(p, v))
  BY StagesIsSeq
<1>4. IsSeq(said)
  BY <1>1, <1>2, <1>3, JoinIsSeq, AppendIsSeq
<1> QED  BY <1>4 DEF said

\* A verdict is reached, or the call ends without one.
LEMMA ValidateAnswer ==
  ASSUME AnswerInv, NEW c \in AnswerCallers, Answering!Validate(c)
  PROVE  AnswerInv'
<1> DEFINE me == answer[c]
           row == me.rows[Len(me.rows)]
           j == Answering!Judged(me, registered)
           on == [me EXCEPT !.signals = j.signals, !.value = j.value,
                            !.ok = Answering!Failures(j.signals) = {},
                            !.version = registered.version,
                            !.pc = IF row = None THEN "apply" ELSE "store"]
           fell == Answering!Ended([me EXCEPT
                     !.signals = <<Answering!ErrorSignal("no_pipeline_registered")>>], "returned")
<1>1. AnswerShape(me) /\ RowsAgree(c, me, answerRuns) /\ VerdictsAgree(me, verdicts)
      /\ me.pc = "validate"
  BY AnswerFacts DEF Answering!Validate
<1>2. me.pc \in Recorded /\ DOMAIN me = AnswerFields /\ me.written = 0
  BY <1>1 DEF Recorded, AnswerShape
<1>3. Answering!Row(me) = row
  BY <1>1, <1>2, LastOnes
<1>4. /\ UNCHANGED <<answerRuns, verdicts, registered, doc, applied>>
      /\ answer' = [answer EXCEPT ![c] =
           IF me.opt.check = "none" THEN Answering!Ended(me, "returned")
           ELSE IF registered = None
             THEN IF me.opt.missing = "raise" THEN Answering!Ended(me, "unregistered") ELSE fell
           ELSE on]
  BY <1>3 DEF Answering!Validate
<1> HIDE DEF me
<1>5. /\ SameCall(me, Answering!Ended(me, "returned"))
      /\ Answering!Ended(me, "returned").pc = "idle"
      /\ Answering!Ended(me, "returned").outcome = "returned"
      /\ Answering!Ended(me, "returned").value = me.value
      /\ SameCall(me, Answering!Ended(me, "unregistered"))
      /\ Answering!Ended(me, "unregistered").pc = "idle"
      /\ Answering!Ended(me, "unregistered").outcome = "unregistered"
  BY <1>2 DEF SameCall, AnswerFields, Answering!Ended
<1>6. SameCall(me, fell) /\ fell.pc = "idle" /\ fell.outcome = "returned"
  BY <1>2 DEF SameCall, AnswerFields, Answering!Ended
<1> HIDE DEF fell
<1>7. ASSUME NEW it, answer' = [answer EXCEPT ![c] = it], SameCall(me, it), it.pc = "idle",
             it.outcome \in {"returned", "unregistered"},
             it.outcome = "returned" /\ it.opt.check = "none" /\ it.opt.json =>
               it.value = Answering!Answer(it) /\ it.value # None
      PROVE  AnswerInv'
  <2>1. AnswerShape(it)
    BY <1>1, <1>2, <1>7, EndsShaped
  <2>2. RowsAgree(c, it, answerRuns)
    BY <1>1, <1>2, <1>7, EndsAgreed
  <2>3. VerdictsAgree(it, verdicts)
    BY <1>7 DEF VerdictsAgree
  <2> QED  BY <1>4, <1>7, <2>1, <2>2, <2>3, OnlyAnswerMoves
<1>8. CASE me.opt.check = "none"
  <2> DEFINE it == Answering!Ended(me, "returned")
  <2>1. answer' = [answer EXCEPT ![c] = it]
    BY <1>4, <1>8
  <2>2. SameCall(me, it) /\ it.pc = "idle" /\ it.outcome = "returned" /\ it.value = me.value
    BY <1>5
  <2> HIDE DEF it
  <2>3. it.opt.json => it.value = Answering!Answer(it) /\ it.value # None
    <3>1. me.opt.json => me.value = Answering!Answer(me) /\ me.value # None
      BY <1>1 DEF AnswerShape
    <3>2. Answering!Answer(it) = Answering!Answer(me)
      BY <2>2, SameAnswer DEF SameCall
    <3> QED  BY <2>2, <3>1, <3>2 DEF SameCall
  <2> QED  BY <1>7, <2>1, <2>2, <2>3
<1>9. CASE me.opt.check # "none" /\ registered = None /\ me.opt.missing = "raise"
  <2> DEFINE it == Answering!Ended(me, "unregistered")
  <2>1. answer' = [answer EXCEPT ![c] = it]
    BY <1>4, <1>9
  <2> QED  BY <1>5, <1>7, <2>1
<1>10. CASE me.opt.check # "none" /\ registered = None /\ me.opt.missing # "raise"
  <2>1. answer' = [answer EXCEPT ![c] = fell]
    BY <1>4, <1>10
  <2>2. fell.opt.check # "none"
    BY <1>6, <1>10 DEF SameCall
  <2> QED  BY <1>6, <1>7, <2>1, <2>2
<1>11. CASE me.opt.check # "none" /\ registered # None
  <2>1. answer' = [answer EXCEPT ![c] = on]
    BY <1>4, <1>11
  <2>2. IsSeq(j.signals)
    BY <1>11, JudgedIsSeq DEF AnswerInv
  <2> HIDE DEF j, row
  <2>3. /\ SameCall(me, on) /\ on.written = 0 /\ on.signals = j.signals
        /\ on.pc = IF row = None THEN "apply" ELSE "store"
    BY <1>2 DEF SameCall, AnswerFields
  <2>4. on.ok <=> Answering!Failures(j.signals) = {}
    BY <1>2 DEF AnswerFields
  <2> HIDE DEF on
  <2>5. on.pc \in Recorded /\ on.pc \in {"store", "apply"} /\ on.opt.check # "none"
    BY <1>11, <2>3 DEF Recorded, SameCall
  <2>6. AnswerShape(on) /\ RowsAgree(c, on, answerRuns)
    BY <1>1, <1>2, <2>3, <2>5, StaysShaped, StaysAgreed
  <2>7. on.rows[Len(on.rows)] = row
    BY <2>3 DEF SameCall, row
  <2>8. row # None => \A w \in verdicts : w.run # row
    BY <1>1 DEF VerdictsAgree, row
  <2>9. Len(on.signals) \in Nat
    BY <2>2, <2>3, SeqFacts
  <2>10. VerdictsAgree(on, verdicts)
    <3>1. CASE row = None
      BY <2>2, <2>3, <2>4, <2>7, <3>1 DEF VerdictsAgree
    <3>2. CASE row # None
      BY <2>2, <2>3, <2>4, <2>7, <2>8, <2>9, <3>2 DEF VerdictsAgree
    <3> QED  BY <3>1, <3>2
  <2> QED  BY <1>4, <2>1, <2>6, <2>10, OnlyAnswerMoves
<1> QED  BY <1>8, <1>9, <1>10, <1>11

\* One write of a verdict, or of the tag that ends it.
LEMMA StoreAnswer ==
  ASSUME AnswerInv, NEW c \in AnswerCallers, Answering!Store(c)
  PROVE  AnswerInv'
<1> DEFINE me == answer[c]
           row == me.rows[Len(me.rows)]
           sig == me.signals
           n == me.written + 1
           pc == IF n > Len(sig) THEN "apply" ELSE "store"
           it == [me EXCEPT !.written = n, !.pc = pc]
           missed == [it EXCEPT !.stored = FALSE]
           tag == [run |-> row, tag |-> me.version]
           V == verdicts
<1>1. AnswerShape(me) /\ RowsAgree(c, me, answerRuns) /\ VerdictsAgree(me, V) /\ me.pc = "store"
  BY AnswerFacts DEF Answering!Store
<1>2. me.pc \in Recorded /\ DOMAIN me = AnswerFields /\ me.opt.check # "none"
  BY <1>1 DEF Recorded, AnswerShape
<1>3. Answering!Row(me) = row /\ Len(me.rows) \in DOMAIN me.rows
  BY <1>1, <1>2, LastOnes
<1>4. /\ \/ /\ verdicts' = IF n > Len(sig) THEN V \cup {tag}
                           ELSE Answering!Upserted(V, row, sig[n])
            /\ answer' = [answer EXCEPT ![c] = it]
         \/ verdicts' = V /\ answer' = [answer EXCEPT ![c] = missed]
      /\ UNCHANGED <<answerRuns, registered, doc, applied>>
  BY <1>3 DEF Answering!Store
<1>5. /\ row # None /\ me.written \in 0 .. Len(sig) /\ IsSeq(sig)
      /\ \A w \in V : w.run = row =>
            "signal" \in DOMAIN w /\ \E i \in 1 .. me.written : w.signal = sig[i]
      /\ me.stored /\ UniqueNames(sig) =>
            \A i \in 1 .. me.written : [run |-> row, signal |-> sig[i]] \in V
      /\ me.ok <=> Answering!Failures(sig) = {}
  BY <1>1 DEF VerdictsAgree
<1>6. row \in 1 .. Len(answerRuns) /\ answerRuns[row].by = c
  BY <1>1, <1>3, <1>5 DEF RowsAgree
<1>7. Len(sig) \in Nat /\ DOMAIN sig = 1 .. Len(sig) /\ n \in Nat /\ n <= Len(sig) + 1 /\ n >= 1
  BY <1>5, SeqFacts
<1> HIDE DEF me
<1>8. /\ SameCall(me, it) /\ it.written = n /\ it.pc = pc /\ it.signals = sig
      /\ it.version = me.version /\ it.stored = me.stored /\ it.ok = me.ok
  BY <1>2 DEF SameCall, AnswerFields
<1>9. /\ SameCall(me, missed) /\ missed.written = n /\ missed.pc = pc /\ missed.signals = sig
      /\ missed.version = me.version /\ missed.stored = FALSE /\ missed.ok = me.ok
  BY <1>2 DEF SameCall, AnswerFields
<1>10. pc \in Recorded /\ pc \in {"store", "apply"}
  BY DEF Recorded
<1> HIDE DEF it, missed
<1>11. /\ AnswerShape(it) /\ RowsAgree(c, it, answerRuns)
       /\ AnswerShape(missed) /\ RowsAgree(c, missed, answerRuns)
  <2>1. it.opt.check # "none" /\ missed.opt.check # "none"
    BY <1>2, <1>8, <1>9 DEF SameCall
  <2> QED  BY <1>1, <1>2, <1>8, <1>9, <1>10, <2>1, StaysShaped, StaysAgreed
<1>12. it.rows[Len(it.rows)] = row /\ missed.rows[Len(missed.rows)] = row
  BY <1>8, <1>9 DEF SameCall, row
<1> HIDE DEF row, sig, n
<1>13. CASE verdicts' = V /\ answer' = [answer EXCEPT ![c] = missed]
  <2>1. CASE n > Len(sig)
    <3>1. pc = "apply"
      BY <2>1
    <3>2. \A w \in V : w.run = row /\ "signal" \in DOMAIN w =>
            \E i \in DOMAIN sig : w.signal = sig[i]
      BY <1>5, <1>7
    <3>3. VerdictsAgree(missed, V)
      BY <1>5, <1>9, <1>12, <3>1, <3>2 DEF VerdictsAgree
    <3> QED  BY <1>4, <1>11, <1>13, <3>3, OnlyAnswerMoves
  <2>2. CASE ~(n > Len(sig))
    <3>1. pc = "store" /\ n \in 0 .. Len(sig)
      BY <1>7, <2>2
    <3>2. \A i \in 1 .. me.written : i \in 1 .. n
      BY <1>5, <1>7 DEF n
    <3>3. \A w \in V : w.run = row =>
            "signal" \in DOMAIN w /\ \E i \in 1 .. n : w.signal = sig[i]
      BY <1>5, <3>2
    <3>4. VerdictsAgree(missed, V)
      BY <1>5, <1>9, <1>12, <3>1, <3>3 DEF VerdictsAgree
    <3> QED  BY <1>4, <1>11, <1>13, <3>4, OnlyAnswerMoves
  <2> QED  BY <2>1, <2>2
<1>14. ASSUME NEW W, verdicts' = W, answer' = [answer EXCEPT ![c] = it], VerdictsAgree(it, W),
              \A w \in V \cup W : w.run # row => (w \in V <=> w \in W)
       PROVE  AnswerInv'
  <2>1. /\ answerRuns \in Seq(RunRows) /\ (\A w \in verdicts : w.run \in 1 .. Len(answerRuns))
        /\ (registered # None => IsSeq(registered.checks))
        /\ doc \in Documents /\ (\A a \in applied : a.seen = a.at)
    BY DEF AnswerInv
  <2>2. \A w \in W : w.run \in 1 .. Len(answerRuns)
    BY <1>6, <1>14, <2>1
  <2>3. \A d \in AnswerCallers \ {c} :
           /\ SameRunsOf(d, answerRuns, answerRuns)
           /\ SameVerdictsOf(d, answerRuns, verdicts, W)
    BY <1>6, <1>14, <2>1 DEF SameRunsOf, SameVerdictsOf
  <2> QED  BY <1>4, <1>11, <1>14, <2>1, <2>2, <2>3, OneAnswerMoves
<1>15. CASE /\ n > Len(sig) /\ verdicts' = V \cup {tag}
            /\ answer' = [answer EXCEPT ![c] = it]
  <2>1. pc = "apply" /\ me.written = Len(sig)
    BY <1>5, <1>7, <1>15 DEF n
  <2>2. tag.run = row /\ "signal" \notin DOMAIN tag
    OBVIOUS
  <2>3. \A w \in V \cup {tag} : w.run = row /\ "signal" \in DOMAIN w =>
            \E i \in DOMAIN sig : w.signal = sig[i]
    BY <1>5, <1>7, <2>1, <2>2
  <2>4. me.stored /\ UniqueNames(sig) =>
          \A i \in DOMAIN sig : [run |-> row, signal |-> sig[i]] \in V \cup {tag}
    BY <1>5, <1>7, <2>1
  <2>5. [run |-> row, tag |-> it.version] \in V \cup {tag}
    BY <1>8
  <2> HIDE DEF tag
  <2>6. VerdictsAgree(it, V \cup {tag})
    BY <1>5, <1>8, <1>12, <2>1, <2>3, <2>4, <2>5 DEF VerdictsAgree
  <2> QED  BY <1>14, <1>15, <2>2, <2>6
<1>16. CASE /\ ~(n > Len(sig)) /\ verdicts' = Answering!Upserted(V, row, sig[n])
            /\ answer' = [answer EXCEPT ![c] = it]
  <2> DEFINE new == [run |-> row, signal |-> sig[n]]
             W == Answering!Upserted(V, row, sig[n])
  <2>1. pc = "store" /\ n \in 0 .. Len(sig) /\ n \in 1 .. n
    BY <1>7, <1>16
  <2>2. /\ W = {w \in V : w.run # row \/ w.signal.validator # sig[n].validator} \cup {new}
        /\ new.run = row /\ "signal" \in DOMAIN new /\ new.signal = sig[n]
    BY DEF Answering!Upserted
  <2>3. \A i \in 1 .. me.written : i \in 1 .. n /\ i # n /\ i \in DOMAIN sig
    BY <1>5, <1>7 DEF n
  <2>4. \A i \in 1 .. n : i = n \/ i \in 1 .. me.written
    BY <1>5 DEF n
  <2>5. n \in DOMAIN sig
    BY <1>7, <2>1
  <2> HIDE DEF W, new
  <2>6. \A w \in W : w.run = row =>
          "signal" \in DOMAIN w /\ \E i \in 1 .. n : w.signal = sig[i]
    BY <1>5, <2>1, <2>2, <2>3
  <2>7. me.stored /\ UniqueNames(sig) =>
          \A i \in 1 .. n : [run |-> row, signal |-> sig[i]] \in W
    <3> SUFFICES ASSUME me.stored, UniqueNames(sig), NEW i \in 1 .. n
                 PROVE  [run |-> row, signal |-> sig[i]] \in W
      OBVIOUS
    <3>1. CASE i = n
      BY <2>2, <3>1 DEF new
    <3>2. CASE i \in 1 .. me.written
      <4> DEFINE old == [run |-> row, signal |-> sig[i]]
      <4>1. old \in V
        BY <1>5, <3>2
      <4>2. sig[i].validator # sig[n].validator
        BY <2>3, <2>5, <3>2 DEF UniqueNames
      <4>3. old.signal = sig[i]
        OBVIOUS
      <4> HIDE DEF old
      <4>4. old \in W
        BY <2>2, <4>1, <4>2, <4>3
      <4> QED  BY <4>4 DEF old
    <3> QED  BY <2>4, <3>1, <3>2
  <2>8. VerdictsAgree(it, W)
    BY <1>5, <1>8, <1>12, <2>1, <2>6, <2>7 DEF VerdictsAgree
  <2>9. verdicts' = W
    BY <1>16 DEF W
  <2>10. \A w \in V \cup W : w.run # row => (w \in V <=> w \in W)
    BY <2>2
  <2> QED  BY <1>14, <1>16, <2>8, <2>9, <2>10
<1> QED  BY <1>4, <1>13, <1>15, <1>16

\* The plan is applied to the targets the model was shown, or not at all.
LEMMA ApplyAnswer ==
  ASSUME AnswerInv, NEW c \in AnswerCallers, Answering!Apply(c)
  PROVE  AnswerInv'
<1> DEFINE me == answer[c]
           it == Answering!Ended(me, "returned")
<1>1. AnswerShape(me) /\ RowsAgree(c, me, answerRuns) /\ VerdictsAgree(me, verdicts)
      /\ me.pc = "apply"
  BY AnswerFacts DEF Answering!Apply
<1>2. me.pc \in Recorded /\ DOMAIN me = AnswerFields /\ me.opt.check # "none"
      /\ me.seen \in Documents
  BY <1>1 DEF Recorded, AnswerShape
<1>3. /\ UNCHANGED <<answerRuns, verdicts, registered>>
      /\ answer' = [answer EXCEPT ![c] = it]
      /\ \/ doc' = doc /\ applied' = applied
         \/ /\ ~Answering!Drift(me.seen, doc)
            /\ doc' \in Documents /\ applied' = applied \cup {[seen |-> me.seen, at |-> doc]}
  BY DEF Answering!Apply
<1> HIDE DEF me
<1>4. SameCall(me, it) /\ it.pc = "idle" /\ it.outcome = "returned"
  BY <1>2 DEF SameCall, AnswerFields, Answering!Ended
<1> HIDE DEF it
<1>5. AnswerShape(it) /\ RowsAgree(c, it, answerRuns) /\ VerdictsAgree(it, verdicts)
  <2>1. it.opt.check # "none"
    BY <1>2, <1>4 DEF SameCall
  <2>2. VerdictsAgree(it, verdicts)
    BY <1>4 DEF VerdictsAgree
  <2> QED  BY <1>1, <1>2, <1>4, <2>1, <2>2, EndsShaped, EndsAgreed
<1>6. /\ answerRuns \in Seq(RunRows) /\ (\A w \in verdicts : w.run \in 1 .. Len(answerRuns))
      /\ (registered # None => IsSeq(registered.checks))
      /\ doc \in Documents /\ (\A a \in applied : a.seen = a.at)
  BY DEF AnswerInv
<1>7. ~Answering!Drift(me.seen, doc) => me.seen = doc
  <2>1. \A t \in Documents : t \in Seq(Answering!ToSet(t))
    BY AnswerAssumption DEF Answering!TargetAssumption
  <2> DEFINE a == me.seen
             b == doc
  <2>2. a \in Seq(Answering!ToSet(a)) /\ b \in Seq(Answering!ToSet(b))
    BY <1>2, <1>6, <2>1
  <2>3. ~Answering!Drift(a, b) => Len(a) = Len(b) /\ \A i \in DOMAIN a : a[i] = b[i]
    BY DEF Answering!Drift
  <2> HIDE DEF a, b
  <2>4. Len(a) = Len(b) /\ (\A i \in DOMAIN a : a[i] = b[i]) => a = b
    BY <2>2
  <2> QED  BY <2>3, <2>4 DEF a, b
<1>8. doc' \in Documents /\ (\A a \in applied' : a.seen = a.at)
  BY <1>3, <1>6, <1>7
<1>9. \A d : SameRunsOf(d, answerRuns, answerRuns) /\ SameVerdictsOf(d, answerRuns, verdicts, verdicts)
  BY <1>6 DEF SameRunsOf, SameVerdictsOf
<1> QED  BY <1>3, <1>5, <1>6, <1>8, <1>9, OneAnswerMoves

\* A caller that dies leaves its rows as they are.
LEMMA DieAnswer ==
  ASSUME AnswerInv, NEW c \in AnswerCallers, Answering!Die(c)
  PROVE  AnswerInv'
<1> DEFINE me == answer[c]
           it == Answering!Ended(me, "died")
<1>1. AnswerShape(me) /\ RowsAgree(c, me, answerRuns) /\ me.pc # "idle"
  BY AnswerFacts DEF Answering!Die
<1>2. /\ UNCHANGED <<answerRuns, verdicts, registered, doc, applied>>
      /\ answer' = [answer EXCEPT ![c] = it]
  BY DEF Answering!Die
<1> HIDE DEF me
<1>3. SameCall(me, it) /\ it.pc = "idle" /\ it.outcome = "died"
  BY <1>1 DEF SameCall, AnswerFields, Answering!Ended, AnswerShape
<1> HIDE DEF it
<1>4. AnswerShape(it)
  BY <1>1, <1>3 DEF AnswerShape, SameCall, AnswerPcs, Recorded, IsOver
<1>5. RowsAgree(c, it, answerRuns)
  BY <1>1, <1>3 DEF RowsAgree, SameCall, Recorded, IsOver
<1>6. VerdictsAgree(it, verdicts)
  BY <1>3 DEF VerdictsAgree
<1> QED  BY <1>2, <1>4, <1>5, <1>6, OnlyAnswerMoves

\* A pipeline that is built has as many checks as the one it is built on.
LEMMA BuiltIsSeq ==
  ASSUME NEW p \in Pipelines, NEW day
  PROVE  IsSeq(Answering!BuiltOn(p, day).checks)
<1>1. DOMAIN p = {"shape", "checks", "version"} /\ p.checks \in Seq(Answering!ToSet(p.checks))
  BY AnswerAssumption DEF Answering!PipelineAssumption
<1> DEFINE s == p.checks
           f == [i \in DOMAIN s |-> Answering!Built(s[i], day)]
<1>2. Answering!BuiltOn(p, day).checks = f
  BY <1>1 DEF Answering!BuiltOn
<1>3. IsSeq(s)
  BY <1>1, SeqIsSeq
<1> HIDE DEF s
<1>4. DOMAIN f = DOMAIN s
  OBVIOUS
<1>5. IsSeq(f)
  <2> HIDE DEF f
  <2>1. f = [i \in DOMAIN s |-> f[i]]
    BY <1>4 DEF f
  <2> QED  BY <1>3, <2>1, MapIsSeq
<1> QED  BY <1>2, <1>5

\* Another pipeline is registered.
LEMMA RegisterAnswer ==
  ASSUME AnswerInv, NEW p \in Pipelines, Answering!Register(p)
  PROVE  AnswerInv'
<1>1. /\ registered' = Answering!BuiltOn(p, today)
      /\ UNCHANGED <<answerRuns, verdicts, doc, answer, applied>>
  BY DEF Answering!Register
<1>2. IsSeq(registered'.checks)
  BY <1>1, BuiltIsSeq
<1> QED  BY <1>1, <1>2 DEF AnswerInv

\* The invariant holds at the start,
LEMMA AnswerStart ==
  ASSUME Answering!Init
  PROVE  AnswerInv
<1>1. /\ answerRuns = <<>> /\ verdicts = {} /\ doc \in Documents /\ applied = {}
      /\ answer = [c \in AnswerCallers |-> Answering!Idle]
      /\ registered \in {Answering!BuiltOn(p, 1) : p \in Pipelines} \cup {None}
  BY DEF Answering!Init
<1>2. registered # None => IsSeq(registered.checks)
  BY <1>1, BuiltIsSeq
<1>3. answerRuns \in Seq(RunRows)
  BY <1>1
<1>4. /\ AnswerShape(Answering!Idle) /\ VerdictsAgree(Answering!Idle, verdicts)
      /\ \A c \in AnswerCallers : RowsAgree(c, Answering!Idle, answerRuns)
  <2> DEFINE me == Answering!Idle
  <2>1. /\ DOMAIN me = AnswerFields /\ me.pc = "idle" /\ me.chats = <<>> /\ me.rows = <<>>
        /\ me.outcome = None /\ me.written = 0
    BY DEF Answering!Idle, AnswerFields
  <2> HIDE DEF me
  <2>2. AnswerShape(me) /\ VerdictsAgree(me, verdicts)
        /\ \A c \in AnswerCallers : RowsAgree(c, me, answerRuns)
    BY <2>1 DEF AnswerShape, VerdictsAgree, RowsAgree, AnswerPcs, Recorded, IsOver
  <2> QED  BY <2>2 DEF me
<1> QED  BY <1>1, <1>2, <1>3, <1>4 DEF AnswerInv

\* and every step keeps it.
LEMMA AnswerStep ==
  ASSUME AnswerInv, [Answering!Next]_Answering!vars
  PROVE  AnswerInv'
<1>1. CASE UNCHANGED Answering!vars
  BY <1>1 DEF Answering!vars, AnswerInv
<1>2. CASE Answering!Edit
  BY <1>2 DEF Answering!Edit, AnswerInv
<1>3. CASE Answering!Midnight
  BY <1>3 DEF Answering!Midnight, AnswerInv
<1>4. CASE \E p \in Pipelines : Answering!Register(p)
  BY <1>4, RegisterAnswer
<1>5. CASE \E c \in AnswerCallers :
             \/ Answering!Begin(c) \/ Answering!Chat(c) \/ Answering!Record(c)
             \/ Answering!Parse(c) \/ Answering!Reject(c) \/ Answering!Validate(c)
             \/ Answering!Store(c) \/ Answering!Apply(c) \/ Answering!Die(c)
  BY <1>5, BeginAnswer, ChatAnswer, RecordAnswer, ParseAnswer, RejectAnswer, ValidateAnswer,
     StoreAnswer, ApplyAnswer, DieAnswer
<1> QED  BY <1>1, <1>2, <1>3, <1>4, <1>5 DEF Answering!Next

\* The first value that is one is found,
LEMMA FirstIs ==
  ASSUME NEW s, NEW k \in DOMAIN s, DOMAIN s \subseteq Nat, s[k] # None,
         \A i \in DOMAIN s : i < k => s[i] = None
  PROVE  Answering!FirstOf(s) = s[k]
<1> DEFINE there == {i \in DOMAIN s : s[i] # None}
<1>1. k \in there /\ \A i \in there : k <= i
  OBVIOUS
<1>2. there # {} /\ there \subseteq Nat
  BY <1>1
<1>3. Answering!FirstOf(s) = s[Answering!Min(there)]
  BY <1>2 DEF Answering!FirstOf
<1> HIDE DEF there
<1>4. \A i \in there : (\A j \in there : i <= j) => i = k
  BY <1>1, <1>2
<1>5. Answering!Min(there) = k
  BY <1>1, <1>4 DEF Answering!Min
<1> QED  BY <1>3, <1>5

\* and None if there is none.
LEMMA FirstIsNone ==
  ASSUME NEW s, \A i \in DOMAIN s : s[i] = None
  PROVE  Answering!FirstOf(s) = None
BY DEF Answering!FirstOf

\* What is parsed strictly out of an answer that was not cut is whole, or was repaired of a text
\* the provider said nothing of.
LEMMA StrictParse ==
  ASSUME NEW r \in Answers,
         NEW v, v = Answering!Parsed(r.text, "any", "raise", Answering!TruncatedFromUsage(r.finish)),
         v # None
  PROVE  v.whole \/ (Answering!TruncatedFromUsage(r.finish) = None /\ r.text.recover = None)
<1> DEFINE t == r.text
           cut == Answering!TruncatedFromUsage(r.finish)
           span == IF t.span # None /\ t.span.empty THEN None ELSE t.span
           found == <<t.loads, span, t.recover, t.repair, t.span>>
           e == Answering!FirstOf(found)
<1>1. /\ t.loads # None => t.loads.whole
      /\ t.span # None => t.span.whole
      /\ cut = FALSE /\ t.repair # None => t.repair.whole
  BY AnswerAssumption DEF Answering!ReplyAssumption
<1>2. /\ v = e /\ ~(cut = TRUE) /\ ~(t.loads = None /\ span = None /\ t.recover # None)
  <2>1. v = IF \/ "raise" = "raise" /\ cut = TRUE
               \/ "raise" = "raise" /\ t.loads = None /\ span = None /\ t.recover # None
               \/ e # None /\ "any" # "any" /\ e.kind # "any"
            THEN None ELSE e
    BY DEF Answering!Parsed
  <2> QED  BY <2>1
<1>3. cut \in {TRUE, FALSE, None}
  BY DEF Answering!TruncatedFromUsage
<1>4. /\ DOMAIN found = 1 .. 5 /\ found[1] = t.loads /\ found[2] = span
      /\ found[3] = t.recover /\ found[4] = t.repair /\ found[5] = t.span
  OBVIOUS
<1>5. span # None => span = t.span
  OBVIOUS
<1> HIDE DEF t, cut, span, found, e
<1>6. CASE t.loads # None
  <2>1. e = t.loads
    BY <1>4, <1>6, FirstIs DEF e
  <2> QED  BY <1>1, <1>2, <1>6, <2>1
<1>7. CASE t.loads = None /\ span # None
  <2>1. \A i \in DOMAIN found : i < 2 => found[i] = None
    BY <1>4, <1>7
  <2>2. e = span
    BY <1>4, <1>7, <2>1, FirstIs DEF e
  <2> QED  BY <1>1, <1>2, <1>5, <1>7, <2>2
<1>8. CASE t.loads = None /\ span = None
  <2>1. t.recover = None
    BY <1>2, <1>8
  <2>2. CASE t.repair # None
    <3>1. \A i \in DOMAIN found : i < 4 => found[i] = None
      BY <1>4, <1>8, <2>1
    <3>2. e = t.repair
      BY <1>4, <2>2, <3>1, FirstIs DEF e
    <3>3. cut = FALSE => v.whole
      BY <1>1, <1>2, <2>2, <3>2
    <3> QED  BY <1>2, <1>3, <2>1, <3>3 DEF cut, t
  <2>3. CASE t.repair = None /\ t.span # None
    <3>1. \A i \in DOMAIN found : i < 5 => found[i] = None
      BY <1>4, <1>8, <2>1, <2>3
    <3>2. e = t.span
      BY <1>4, <2>3, <3>1, FirstIs DEF e
    <3> QED  BY <1>1, <1>2, <2>3, <3>2
  <2>4. CASE t.repair = None /\ t.span = None
    <3>1. \A i \in DOMAIN found : found[i] = None
      BY <1>4, <1>8, <2>1, <2>4
    <3>2. e = None
      BY <3>1, FirstIsNone DEF e
    <3> QED  BY <1>2, <3>2
  <2> QED  BY <2>2, <2>3, <2>4
<1> QED  BY <1>6, <1>7, <1>8

\* From the invariant: the rows tell the truth,
LEMMA RowsTold ==
  ASSUME AnswerInv
  PROVE  Answering!RowsTellTheTruth
<1> SUFFICES ASSUME NEW c \in AnswerCallers, IsOver(answer[c])
             PROVE  LET me == answer[c] IN
    /\ Len(me.rows) = Len(me.chats)
    /\ \A i \in DOMAIN me.rows : me.rows[i] # None => answerRuns[me.rows[i]].reply = me.chats[i]
    /\ \A i, j \in DOMAIN me.rows : me.rows[i] = me.rows[j] /\ me.rows[i] # None => i = j
    /\ Answering!Row(me) # None =>
         CASE me.outcome \in {"returned", "unregistered"} ->
                answerRuns[Answering!Row(me)].status = "success"
           [] me.outcome = "client" -> answerRuns[Answering!Row(me)].status = "failed"
           [] me.outcome = "json"   -> me.stored => answerRuns[Answering!Row(me)].status = "failed"
           [] OTHER -> FALSE
    /\ me.opt.entry = "tracked" /\ Answering!Reply(me) = None => me.outcome = "client"
  BY DEF Answering!RowsTellTheTruth, Answering!Over, IsOver
<1> DEFINE me == answer[c]
           row == me.rows[Len(me.rows)]
<1>1. AnswerShape(me) /\ RowsAgree(c, me, answerRuns) /\ IsOver(me)
  BY AnswerFacts
<1> HIDE DEF me
<1>2. Answering!Row(me) = row /\ Answering!Reply(me) = me.chats[Len(me.chats)]
  BY DEF Answering!Row, Answering!Reply, Answering!Last
<1>3. /\ me.outcome \in {"returned", "unregistered", "client", "json", "record"}
      /\ me.opt.entry = "tracked" /\ me.chats[Len(me.chats)] = None => me.outcome = "client"
      /\ Len(me.rows) = Len(me.chats)
  BY <1>1 DEF AnswerShape
<1>4. row # None =>
        /\ me.outcome \in {"returned", "unregistered"} => answerRuns[row].status = "success"
        /\ me.outcome = "client" => answerRuns[row].status = "failed"
        /\ me.outcome = "json" /\ me.stored => answerRuns[row].status = "failed"
        /\ me.outcome # "record"
  BY <1>1 DEF RowsAgree
<1>5. row # None =>
         CASE me.outcome \in {"returned", "unregistered"} -> answerRuns[row].status = "success"
           [] me.outcome = "client" -> answerRuns[row].status = "failed"
           [] me.outcome = "json"   -> me.stored => answerRuns[row].status = "failed"
           [] OTHER -> FALSE
  BY <1>3, <1>4
<1>6. /\ \A i \in DOMAIN me.rows : me.rows[i] # None => answerRuns[me.rows[i]].reply = me.chats[i]
      /\ \A i, j \in DOMAIN me.rows : me.rows[i] = me.rows[j] /\ me.rows[i] # None => i = j
  BY <1>1 DEF RowsAgree
<1> QED  BY <1>2, <1>3, <1>5, <1>6 DEF me

\* a retry followed an answer worth one,
LEMMA RetriedTruly ==
  ASSUME AnswerInv
  PROVE  Answering!RetriedOnce
<1> SUFFICES ASSUME NEW c \in AnswerCallers, Len(answer[c].chats) > 1
             PROVE  LET me == answer[c] IN
    /\ Len(me.chats) = 2 /\ me.opt.json /\ me.opt.retry /\ me.chats[1] # None
    /\ Answering!TruncatedFromUsage(me.chats[1].finish) # TRUE
    /\ Answering!Parsed(me.chats[1].text, "any", me.opt.onTruncation, FALSE) = None
    /\ (Len(me.rows) = 2 /\ me.rows[2] # None) => answerRuns[me.rows[2]].parent = me.rows[1]
  BY DEF Answering!RetriedOnce
<1> DEFINE me == answer[c]
           k == Len(me.chats)
<1>1. AnswerShape(me) /\ RowsAgree(c, me, answerRuns) /\ k > 1
  BY AnswerFacts
<1> HIDE DEF me
<1>2. me.chats \in Seq(ChatEnds) /\ k <= 2 /\ (k = 2 => Retriable(me.opt, me.chats[1]))
  BY <1>1 DEF AnswerShape
<1>3. k \in Nat
  BY <1>2
<1> HIDE DEF k
<1>4. k = 2
  BY <1>1, <1>2, <1>3
<1>5. (Len(me.rows) = 2 /\ me.rows[2] # None) => answerRuns[me.rows[2]].parent = me.rows[1]
  BY <1>1 DEF RowsAgree
<1> QED  BY <1>2, <1>4, <1>5 DEF Retriable, me, k

\* what was asked for as a whole is whole,
LEMMA ReturnedWhole ==
  ASSUME AnswerInv
  PROVE  Answering!WholeOrRefused
<1> SUFFICES ASSUME NEW c \in AnswerCallers, IsOver(answer[c]),
                    answer[c].outcome = "returned", answer[c].opt.check = "none",
                    answer[c].opt.entry = "tracked", answer[c].opt.json,
                    answer[c].opt.onTruncation = "raise"
             PROVE  LET me == answer[c] IN
                    \/ me.value.whole
                    \/ Answering!Truncated(me) = None /\ Answering!Reply(me).text.recover = None
  BY DEF Answering!WholeOrRefused, Answering!Over, IsOver
<1> DEFINE me == answer[c]
           r == Answering!Reply(me)
<1>1. AnswerShape(me)
  BY AnswerFacts
<1>2. /\ IsOver(me) /\ me.outcome = "returned" /\ me.opt.check = "none"
      /\ me.opt.entry = "tracked" /\ me.opt.json /\ me.opt.onTruncation = "raise"
  OBVIOUS
<1> HIDE DEF me
<1>3. /\ me.value = Answering!Answer(me) /\ me.value # None
      /\ me.chats \in Seq(ChatEnds) /\ me.chats # <<>>
      /\ me.chats[Len(me.chats)] # None
  BY <1>1, <1>2 DEF AnswerShape
<1>4. r \in Answers
  <2> DEFINE ch == me.chats
  <2>1. r = ch[Len(ch)]
    BY DEF Answering!Reply, Answering!Last
  <2>2. ch \in Seq(ChatEnds) /\ ch # <<>> /\ ch[Len(ch)] # None
    BY <1>3
  <2> HIDE DEF ch
  <2>3. Len(ch) \in Nat /\ Len(ch) # 0
    BY <2>2
  <2>4. ch[Len(ch)] \in ChatEnds
    BY <2>2, <2>3
  <2> QED  BY <2>1, <2>2, <2>4 DEF ChatEnds
<1>5. me.value = Answering!Parsed(r.text, "any", "raise", Answering!TruncatedFromUsage(r.finish))
  BY <1>2, <1>3 DEF Answering!Answer, Answering!Truncated
<1> HIDE DEF r
<1>6. me.value.whole \/ (Answering!TruncatedFromUsage(r.finish) = None /\ r.text.recover = None)
  BY <1>3, <1>4, <1>5, StrictParse
<1> QED  BY <1>6 DEF Answering!Truncated, me, r

\* and the stored rows give the verdict.
LEMMA VerdictsStored ==
  ASSUME AnswerInv
  PROVE  Answering!VerdictStored
<1> SUFFICES ASSUME NEW c \in AnswerCallers, answer[c].pc = "apply",
                    Answering!Row(answer[c]) # None, answer[c].stored,
                    Answering!IsInjective([i \in DOMAIN answer[c].signals |->
                                             answer[c].signals[i].validator])
             PROVE  LET me == answer[c]
                        rows == {w \in verdicts : w.run = Answering!Row(me) /\ "signal" \in DOMAIN w}
                    IN /\ me.ok <=> ~\E w \in rows : (~w.signal.passed /\ w.signal.severity = "error")
                       /\ [run |-> Answering!Row(me), tag |-> me.version] \in verdicts
  BY DEF Answering!VerdictStored
<1> DEFINE me == answer[c]
           row == me.rows[Len(me.rows)]
           sig == me.signals
           rows == {w \in verdicts : w.run = row /\ "signal" \in DOMAIN w}
<1>1. Answering!Row(me) = row
  BY DEF Answering!Row, Answering!Last
<1>2. UniqueNames(sig)
  BY DEF Answering!IsInjective, UniqueNames
<1>3. VerdictsAgree(me, verdicts) /\ me.pc = "apply" /\ me.stored /\ row # None
  BY <1>1, AnswerFacts
<1> HIDE DEF me
<1>4. /\ \A w \in rows : \E i \in DOMAIN sig : w.signal = sig[i]
      /\ \A i \in DOMAIN sig : [run |-> row, signal |-> sig[i]] \in verdicts
      /\ [run |-> row, tag |-> me.version] \in verdicts
      /\ me.ok <=> Answering!Failures(sig) = {}
  BY <1>2, <1>3 DEF VerdictsAgree
<1>5. ASSUME NEW i \in DOMAIN sig
      PROVE  \E w \in rows : w.signal = sig[i]
  <2> DEFINE w == [run |-> row, signal |-> sig[i]]
  <2>1. w \in verdicts /\ w.run = row /\ "signal" \in DOMAIN w /\ w.signal = sig[i]
    BY <1>4
  <2> QED  BY <2>1
<1> HIDE DEF rows, sig
<1>6. Answering!Failures(sig) = {s \in {sig[i] : i \in DOMAIN sig} : ~s.passed /\ s.severity = "error"}
  BY DEF Answering!Failures, Answering!ToSet
<1>7. Answering!Failures(sig) = {}
        <=> ~\E w \in rows : (~w.signal.passed /\ w.signal.severity = "error")
  BY <1>4, <1>5, <1>6
<1> QED  BY <1>1, <1>4, <1>7 DEF me, rows, row

\* So both properties of the answers hold in every state of the invariant.
LEMMA AnswersSound ==
  ASSUME AnswerInv
  PROVE  RecordsAreTrue /\ VerdictsAreActedOn
<1>1. Answering!AppliesWhatItSaw
  BY DEF AnswerInv, Answering!AppliesWhatItSaw
<1> QED  BY <1>1, RowsTold, RetriedTruly, ReturnedWhole, VerdictsStored
         DEF RecordsAreTrue, VerdictsAreActedOn, Answering!RecordsAreTrue,
             Answering!VerdictsAreActedOn

-----------------------------------------------------------------------------
(* JsonRecovery: counting quotes and brackets. *)

\* What is counted on two sides is counted together.
LEMMA CountedTogether ==
  ASSUME NEW A, NEW B, NEW C, IsFiniteSet(C), A \cap B = {}, C = A \cup B
  PROVE  /\ Json!Cardinality(C) = Json!Cardinality(A) + Json!Cardinality(B)
         /\ Json!Cardinality(A) \in Nat /\ Json!Cardinality(B) \in Nat
<1>1. IsFiniteSet(A) /\ IsFiniteSet(B)
  BY FS_Subset
<1>2. Cardinality(A) \in Nat /\ Cardinality(B) \in Nat
  BY <1>1, FS_CardinalityType
<1>3. Cardinality(A \cap B) = 0
  BY FS_EmptySet
<1>4. Cardinality(C) = Cardinality(A) + Cardinality(B)
  <2>1. Cardinality(A \cup B) = Cardinality(A) + Cardinality(B) - Cardinality(A \cap B)
    BY <1>1, FS_Union
  <2> QED  BY <1>2, <1>3, <2>1
<1>5. \A S : Json!Cardinality(S) = Cardinality(S)
  BY DEF Json!Cardinality, Cardinality
<1> QED  BY <1>2, <1>4, <1>5

LEMMA CountedNone == Json!Cardinality({}) = 0
<1>1. \A S : Json!Cardinality(S) = Cardinality(S)
  BY DEF Json!Cardinality, Cardinality
<1> QED  BY <1>1, FS_EmptySet

LEMMA CountedOne == \A x : Json!Cardinality({x}) = 1
<1>1. \A S : Json!Cardinality(S) = Cardinality(S)
  BY DEF Json!Cardinality, Cardinality
<1> QED  BY <1>1, FS_Singleton

LEMMA QuotesOne ==
  ASSUME NEW t, NEW i \in Nat
  PROVE  /\ Json!Quotes(t, i, i) = 0 /\ Json!Bare(t, i, i)
         /\ Json!Quotes(t, i, i + 1) = IF t[i] = "quote" THEN 1 ELSE 0
<1>1. {j \in i .. i - 1 : t[j] = "quote"} = {}
  OBVIOUS
<1>2. Json!Quotes(t, i, i) = 0
  BY <1>1, CountedNone DEF Json!Quotes
<1>3. {j \in i .. (i + 1) - 1 : t[j] = "quote"} = IF t[i] = "quote" THEN {i} ELSE {}
  OBVIOUS
<1>4. Json!Quotes(t, i, i + 1) = IF t[i] = "quote" THEN 1 ELSE 0
  BY <1>3, CountedNone, CountedOne DEF Json!Quotes
<1> QED  BY <1>2, <1>4 DEF Json!Bare

LEMMA QuotesSplit ==
  ASSUME NEW t, NEW i \in Nat, NEW j \in Nat, NEW k \in Nat, i <= j, j <= k
  PROVE  /\ Json!Quotes(t, i, k) = Json!Quotes(t, i, j) + Json!Quotes(t, j, k)
         /\ Json!Quotes(t, i, j) \in Nat /\ Json!Quotes(t, j, k) \in Nat
<1> DEFINE A == {m \in i .. j - 1 : t[m] = "quote"}
           B == {m \in j .. k - 1 : t[m] = "quote"}
           C == {m \in i .. k - 1 : t[m] = "quote"}
<1>1. A \cap B = {} /\ C = A \cup B
  OBVIOUS
<1>2. IsFiniteSet(C)
  BY FS_Interval, FS_Subset, i \in Int, k - 1 \in Int, C \subseteq i .. k - 1
<1> HIDE DEF A, B, C
<1>3. /\ Json!Cardinality(C) = Json!Cardinality(A) + Json!Cardinality(B)
      /\ Json!Cardinality(A) \in Nat /\ Json!Cardinality(B) \in Nat
  BY <1>1, <1>2, CountedTogether
<1> QED  BY <1>3 DEF A, B, C, Json!Quotes

\* Past an even number of quotes, what is bare is counted from there.
LEMMA BareSplit ==
  ASSUME NEW t, NEW i \in Nat, NEW j \in Nat, NEW k \in Nat, i <= j, j <= k, Json!Bare(t, i, j)
  PROVE  Json!Bare(t, i, k) <=> Json!Bare(t, j, k)
<1>1. /\ Json!Quotes(t, i, k) = Json!Quotes(t, i, j) + Json!Quotes(t, j, k)
      /\ Json!Quotes(t, i, j) \in Nat /\ Json!Quotes(t, j, k) \in Nat
  BY QuotesSplit
<1>2. \A a, b \in Nat : a % 2 = 0 => ((a + b) % 2 = 0 <=> b % 2 = 0)
  OBVIOUS
<1> QED  BY <1>1, <1>2 DEF Json!Bare

\* What a token that is not in a string adds to the depth.
Adds(c, opener) == IF c = opener THEN 1 ELSE IF c = Json!Closer(opener) THEN -1 ELSE 0

LEMMA DepthOne ==
  ASSUME NEW t, NEW i \in Nat, NEW opener \in {"array", "object"}
  PROVE  /\ Json!Depth(t, i, i - 1, opener) = 0
         /\ Json!Depth(t, i, i, opener) = Adds(t[i], opener)
<1>1. ASSUME NEW c
      PROVE  /\ {j \in i .. i - 1 : t[j] = c /\ Json!Bare(t, i, j)} = {}
             /\ {j \in i .. i : t[j] = c /\ Json!Bare(t, i, j)} = IF t[i] = c THEN {i} ELSE {}
  <2>1. i .. i - 1 = {} /\ i .. i = {i} /\ Json!Bare(t, i, i)
    BY QuotesOne
  <2> QED  BY <2>1
<1>2. ASSUME NEW c
      PROVE  /\ Json!Cardinality({j \in i .. i - 1 : t[j] = c /\ Json!Bare(t, i, j)}) = 0
             /\ Json!Cardinality({j \in i .. i : t[j] = c /\ Json!Bare(t, i, j)}) =
                  IF t[i] = c THEN 1 ELSE 0
  BY <1>1, CountedNone, CountedOne
<1>3. opener # Json!Closer(opener)
  BY DEF Json!Closer
<1>4. Json!Depth(t, i, i - 1, opener) = 0 - 0
  BY <1>2 DEF Json!Depth
<1>5. Json!Depth(t, i, i, opener) = (IF t[i] = opener THEN 1 ELSE 0)
                                      - (IF t[i] = Json!Closer(opener) THEN 1 ELSE 0)
  BY <1>2 DEF Json!Depth
<1> QED  BY <1>3, <1>4, <1>5 DEF Adds

LEMMA DepthSplit ==
  ASSUME NEW t, NEW i \in Nat, NEW j \in Nat, NEW k \in Nat, i <= j, j <= k + 1,
         Json!Bare(t, i, j), NEW opener
  PROVE  /\ Json!Depth(t, i, k, opener) =
              Json!Depth(t, i, j - 1, opener) + Json!Depth(t, j, k, opener)
         /\ Json!Depth(t, i, j - 1, opener) \in Int /\ Json!Depth(t, j, k, opener) \in Int
<1> DEFINE A(c) == {m \in i .. j - 1 : t[m] = c /\ Json!Bare(t, i, m)}
           B(c) == {m \in j .. k : t[m] = c /\ Json!Bare(t, j, m)}
           C(c) == {m \in i .. k : t[m] = c /\ Json!Bare(t, i, m)}
<1>1. \A m \in j .. k : Json!Bare(t, i, m) <=> Json!Bare(t, j, m)
  <2> TAKE m \in j .. k
  <2>1. m \in Nat /\ j <= m
    OBVIOUS
  <2> QED  BY <2>1, BareSplit
<1>2. ASSUME NEW c
      PROVE  /\ Json!Cardinality(C(c)) = Json!Cardinality(A(c)) + Json!Cardinality(B(c))
             /\ Json!Cardinality(A(c)) \in Nat /\ Json!Cardinality(B(c)) \in Nat
  <2>1. A(c) \cap B(c) = {}
    OBVIOUS
  <2>2. C(c) = A(c) \cup B(c)
    <3>1. ASSUME NEW m PROVE m \in C(c) <=> m \in A(c) \cup B(c)
      <4>1. m \in i .. k <=> m \in i .. j - 1 \/ m \in j .. k
        OBVIOUS
      <4>2. CASE m \in i .. j - 1
        BY <4>1, <4>2
      <4>3. CASE m \in j .. k
        BY <1>1, <4>1, <4>3
      <4> QED  BY <4>1, <4>2, <4>3
    <3> QED  BY <3>1
  <2>3. IsFiniteSet(C(c))
    BY FS_Interval, FS_Subset, i \in Int, k \in Int, C(c) \subseteq i .. k
  <2> HIDE DEF A, B, C
  <2> QED  BY <2>1, <2>2, <2>3, CountedTogether
<1>3. /\ Json!Depth(t, i, k, opener) =
           Json!Cardinality(C(opener)) - Json!Cardinality(C(Json!Closer(opener)))
      /\ Json!Depth(t, i, j - 1, opener) =
           Json!Cardinality(A(opener)) - Json!Cardinality(A(Json!Closer(opener)))
      /\ Json!Depth(t, j, k, opener) =
           Json!Cardinality(B(opener)) - Json!Cardinality(B(Json!Closer(opener)))
  BY DEF Json!Depth
<1> HIDE DEF A, B, C
<1> QED  BY <1>2, <1>3

\* The inside of a string adds nothing.
LEMMA InString ==
  ASSUME NEW t, NEW i \in Nat, NEW e \in Nat, t[i] = "quote", i < e,
         \A j \in i + 1 .. e - 1 : t[j] # "quote"
  PROVE  /\ \A k \in i + 1 .. e : Json!Quotes(t, i, k) = 1 /\ ~Json!Bare(t, i, k)
         /\ \A k \in i .. e : \A opener \in {"array", "object"} : Json!Depth(t, i, k, opener) = 0
<1>1. ASSUME NEW k \in i + 1 .. e PROVE Json!Quotes(t, i, k) = 1 /\ ~Json!Bare(t, i, k)
  <2>1. {j \in i + 1 .. k - 1 : t[j] = "quote"} = {}
    OBVIOUS
  <2>2. Json!Quotes(t, i + 1, k) = 0
    BY <2>1, CountedNone DEF Json!Quotes
  <2>3. Json!Quotes(t, i, k) = Json!Quotes(t, i, i + 1) + Json!Quotes(t, i + 1, k)
    BY QuotesSplit
  <2>4. Json!Quotes(t, i, k) = 1
    BY <2>2, <2>3, QuotesOne
  <2> QED  BY <2>4 DEF Json!Bare
<1>2. ASSUME NEW k \in i .. e, NEW opener \in {"array", "object"}
      PROVE  Json!Depth(t, i, k, opener) = 0
  <2>1. ASSUME NEW c, c # "quote" PROVE {j \in i .. k : t[j] = c /\ Json!Bare(t, i, j)} = {}
    <3>1. \A j \in i .. k : j = i \/ j \in i + 1 .. e
      OBVIOUS
    <3> QED  BY <1>1, <2>1, <3>1
  <2>2. opener # "quote" /\ Json!Closer(opener) # "quote"
    BY DEF Json!Closer
  <2>3. Json!Depth(t, i, k, opener) = 0 - 0
    BY <2>1, <2>2, CountedNone DEF Json!Depth
  <2> QED  BY <2>3
<1> QED  BY <1>1, <1>2

-----------------------------------------------------------------------------
(* JsonRecovery: recursion to the end of a text. *)

Less == {ss \in Nat \X Nat : ss[1] < ss[2]}

\* Every set of numbers that is not empty has a least one.
LEMMA LeastNumber ==
  ASSUME NEW T \in SUBSET Nat, T # {}
  PROVE  \E m \in T : \A k \in T : m <= k
<1>1. IsWellFoundedOn(Less, Nat)
  BY NatLessThanWellFounded, Zenon DEF OpToRel, Less
<1>2. PICK m \in T : \A k \in T : ~(<<k, m>> \in Less)
  BY <1>1, WFMin, Zenon
<1>3. \A k \in T : k \in Nat /\ m \in Nat
  OBVIOUS
<1>4. \A k \in T : ~(k < m)
  BY <1>2, <1>3 DEF Less
<1> QED  BY <1>3, <1>4

\* What is wrong at some position, and then at a later one, is wrong at none.
LEMMA NoLast ==
  ASSUME NEW n \in Nat, NEW Wrong \in SUBSET (1 .. n + 1),
         \A i \in Wrong : \E j \in Wrong : i < j
  PROVE  Wrong = {}
<1> DEFINE Left == {m \in Nat : \E i \in Wrong : m = n + 1 - i}
<1> SUFFICES ASSUME Wrong # {}
             PROVE  FALSE
  OBVIOUS
<1>1. \A i \in Wrong : n + 1 - i \in Left
  OBVIOUS
<1>2. Left # {} /\ Left \in SUBSET Nat
  BY <1>1
<1>3. PICK m \in Left : \A k \in Left : m <= k
  BY <1>2, LeastNumber
<1>4. PICK i \in Wrong : m = n + 1 - i
  BY <1>3
<1>5. PICK j \in Wrong : i < j
  BY <1>4
<1>6. m <= n + 1 - j
  BY <1>1, <1>3
<1>7. i \in Nat /\ j \in Nat
  OBVIOUS
<1> QED  BY <1>4, <1>5, <1>6, <1>7

\* G tells a function of positions at each by what it is later on.
Downward(n, S, G) ==
  /\ S # {}
  /\ \A i \in 1 .. n + 1 : \A f \in [1 .. n + 1 -> S] : G[<<i, f>>] \in S
  /\ \A i \in 1 .. n + 1 : \A f, g \in [1 .. n + 1 -> S] :
       (\A j \in i + 1 .. n + 1 : f[j] = g[j]) => G[<<i, f>>] = G[<<i, g>>]

\* There is one it tells everywhere.
LEMMA DownwardFunction ==
  ASSUME NEW n \in Nat, NEW S, NEW G, Downward(n, S, G)
  PROVE  \E f \in [1 .. n + 1 -> S] : \A i \in 1 .. n + 1 : f[i] = G[<<i, f>>]
<1> DEFINE Told(i) == \E f \in [1 .. n + 1 -> S] : \A j \in i + 1 .. n + 1 : f[j] = G[<<j, f>>]
           Wrong == {i \in 1 .. n + 1 : ~Told(i)}
<1>0. /\ S # {}
      /\ \A i \in 1 .. n + 1 : \A f \in [1 .. n + 1 -> S] : G[<<i, f>>] \in S
      /\ \A i \in 1 .. n + 1 : \A f, g \in [1 .. n + 1 -> S] :
           (\A j \in i + 1 .. n + 1 : f[j] = g[j]) => G[<<i, f>>] = G[<<i, g>>]
  BY DEF Downward
<1>1. ASSUME NEW i \in 1 .. n + 1, Told(i) PROVE Told(i - 1)
  <2>1. PICK f \in [1 .. n + 1 -> S] : \A j \in i + 1 .. n + 1 : f[j] = G[<<j, f>>]
    BY <1>1
  <2>2. PICK v : v = G[<<i, f>>] /\ v \in S
    BY <1>0
  <2> DEFINE g == [f EXCEPT ![i] = v]
  <2>3. g \in [1 .. n + 1 -> S]
    BY <2>2
  <2>4. g[i] = v /\ \A j \in i + 1 .. n + 1 : g[j] = f[j]
    OBVIOUS
  <2> HIDE DEF g
  <2>5. ASSUME NEW j \in i .. n + 1 PROVE g[j] = G[<<j, g>>]
    <3>1. j \in 1 .. n + 1 /\ \A k \in j + 1 .. n + 1 : k \in i + 1 .. n + 1
      OBVIOUS
    <3>2. \A k \in j + 1 .. n + 1 : f[k] = g[k]
      BY <2>4, <3>1
    <3>3. G[<<j, f>>] = G[<<j, g>>]
      BY <1>0, <2>3, <3>1, <3>2
    <3>4. j = i \/ j \in i + 1 .. n + 1
      OBVIOUS
    <3>5. g[j] = G[<<j, f>>]
      BY <2>1, <2>2, <2>4, <3>4
    <3> QED  BY <3>3, <3>5
  <2>6. i - 1 + 1 = i
    OBVIOUS
  <2> QED  BY <2>3, <2>5, <2>6
<1>2. Told(n + 1)
  <2>1. PICK v \in S : TRUE
    BY <1>0
  <2>2. [i \in 1 .. n + 1 |-> v] \in [1 .. n + 1 -> S]
    OBVIOUS
  <2>3. (n + 1) + 1 .. n + 1 = {}
    OBVIOUS
  <2> QED  BY <2>2, <2>3
<1> HIDE DEF Told
<1>3. \A i \in Wrong : \E j \in Wrong : i < j
  <2> TAKE i \in Wrong
  <2>1. i # n + 1
    BY <1>2
  <2>2. i + 1 \in 1 .. n + 1 /\ (i + 1) - 1 = i /\ i < i + 1
    BY <2>1
  <2>3. i + 1 \in Wrong
    BY <1>1, <2>2
  <2> QED  BY <2>2, <2>3
<1>4. Wrong = {}
  <2>1. Wrong \in SUBSET (1 .. n + 1)
    OBVIOUS
  <2> HIDE DEF Wrong
  <2> QED  BY <1>3, <2>1, NoLast
<1>5. Told(0)
  <2>1. 1 \in 1 .. n + 1 /\ 1 - 1 = 0
    OBVIOUS
  <2>2. Told(1)
    BY <1>4, <2>1
  <2> QED  BY <1>1, <2>1, <2>2
<1>6. 0 + 1 = 1
  OBVIOUS
<1> QED  BY <1>5, <1>6 DEF Told

\* The least number of a set, and 0 for none.
LEMMA FirstFound ==
  ASSUME NEW s \in SUBSET (Nat \ {0})
  PROVE  /\ s = {} => Json!First(s) = 0
         /\ s # {} => Json!First(s) \in s /\ Json!First(s) = Json!Min(s)
         /\ \A k \in s : Json!First(s) <= k
<1>1. s # {} => Json!Min(s) \in s /\ \A k \in s : Json!Min(s) <= k
  <2> SUFFICES ASSUME s # {}
               PROVE  Json!Min(s) \in s /\ \A k \in s : Json!Min(s) <= k
    OBVIOUS
  <2>1. s \in SUBSET Nat
    OBVIOUS
  <2>2. \E m \in s : \A k \in s : m <= k
    BY <2>1, LeastNumber
  <2> QED  BY <2>2 DEF Json!Min
<1> QED  BY <1>1 DEF Json!First

-----------------------------------------------------------------------------
(* JsonRecovery: how far a value and the members of a container reach. *)

Closers == {"endarray", "endobject"}
Openers == {"array", "object"}

\* Where the members from i on are closed.
Closed(t, i, closer) == Json!Ends(t)[i][closer]

LEMMA TextIs ==
  ASSUME NEW t \in Seq(Json!Tokens)
  PROVE  Len(t) \in Nat /\ DOMAIN t = 1 .. Len(t) /\ \A i \in 1 .. Len(t) : t[i] \in Json!Tokens
OBVIOUS

\* Where the next quote is.
LEMMA NextQuote ==
  ASSUME NEW t \in Seq(Json!Tokens), NEW i \in 1 .. Len(t),
         NEW e, e = Json!Min({j \in i + 1 .. Len(t) : t[j] = "quote"} \cup {Len(t) + 1})
  PROVE  /\ e \in i + 1 .. Len(t) + 1
         /\ e <= Len(t) => t[e] = "quote"
         /\ \A j \in i + 1 .. e - 1 : t[j] # "quote"
<1> DEFINE n == Len(t)
           s == {j \in i + 1 .. Len(t) : t[j] = "quote"} \cup {Len(t) + 1}
<1>1. n \in Nat
  BY TextIs
<1>2. \A j \in i + 1 .. n : j \in Nat \ {0}
  OBVIOUS
<1>3. s \in SUBSET (Nat \ {0}) /\ s # {}
  BY <1>1, <1>2
<1>4. e = Json!Min(s)
  OBVIOUS
<1> HIDE DEF s
<1>5. e \in s /\ \A k \in s : e <= k
  <2>1. /\ s # {} => Json!First(s) \in s /\ Json!First(s) = Json!Min(s)
        /\ \A k \in s : Json!First(s) <= k
    BY <1>3, FirstFound
  <2> QED  BY <1>3, <1>4, <2>1
<1>6. e \in i + 1 .. n + 1 /\ (e <= n => t[e] = "quote")
  BY <1>1, <1>5 DEF s
<1>7. \A j \in i + 1 .. e - 1 : t[j] # "quote"
  <2> SUFFICES ASSUME NEW j \in i + 1 .. e - 1, t[j] = "quote"
               PROVE  FALSE
    OBVIOUS
  <2>1. j \in i + 1 .. n /\ j < e
    BY <1>1, <1>6
  <2>2. j \in s
    BY <2>1 DEF s
  <2>3. e <= j
    BY <1>5, <2>2
  <2> QED  BY <1>6, <2>1, <2>3
<1> QED  BY <1>6, <1>7

LEMMA ValueEndTyped ==
  ASSUME NEW t \in Seq(Json!Tokens), NEW i \in 1 .. Len(t),
         NEW f \in [1 .. Len(t) + 1 -> [Json!Kinds -> 0 .. Len(t) + 1]]
  PROVE  Json!ValueEnd(t, i, f) \in 0 .. Len(t) + 1
<1>1. Len(t) \in Nat /\ i \in 0 .. Len(t) + 1 /\ i + 1 \in 1 .. Len(t) + 1 /\ i + 1 \in 0 .. Len(t) + 1
      /\ 0 \in 0 .. Len(t) + 1
  BY TextIs
<1>2. CASE t[i] = "x"
  BY <1>1, <1>2 DEF Json!ValueEnd
<1>3. CASE t[i] = "quote"
  <2>1. Json!ValueEnd(t, i, f) = Json!Min({j \in i + 1 .. Len(t) : t[j] = "quote"} \cup {Len(t) + 1})
    BY <1>3 DEF Json!ValueEnd
  <2>2. Json!ValueEnd(t, i, f) \in i + 1 .. Len(t) + 1
    BY <2>1, NextQuote
  <2> QED  BY <1>1, <2>2
<1>4. CASE t[i] \in {"array", "object"}
  <2>1. f[i + 1][Json!Closer(t[i])] \in 0 .. Len(t) + 1
    BY <1>1, <1>4 DEF Json!Closer, Json!Kinds
  <2> QED  BY <1>1, <1>4, <2>1 DEF Json!ValueEnd
<1>5. CASE t[i] \notin {"x", "quote", "array", "object"}
  BY <1>1, <1>5 DEF Json!ValueEnd
<1> QED  BY <1>2, <1>3, <1>4, <1>5

LEMMA MembersEndTyped ==
  ASSUME NEW t \in Seq(Json!Tokens), NEW i \in 1 .. Len(t), NEW c \in Closers, NEW e,
         NEW f \in [1 .. Len(t) + 1 -> [Json!Kinds -> 0 .. Len(t) + 1]]
  PROVE  Json!MembersEnd(t, i, c, e, f) \in 0 .. Len(t) + 1
<1>1. Len(t) \in Nat /\ 0 \in 0 .. Len(t) + 1 /\ Len(t) + 1 \in 0 .. Len(t) + 1 /\ c \in Json!Kinds
  BY TextIs DEF Closers, Json!Kinds
<1>2. CASE e \notin i .. Len(t) - 1
  BY <1>1, <1>2 DEF Json!MembersEnd
<1>3. CASE e \in i .. Len(t) - 1
  <2>1. e + 1 \in 0 .. Len(t) + 1 /\ e + 2 \in 1 .. Len(t) + 1
    BY <1>1, <1>3
  <2>2. f[e + 2][c] \in 0 .. Len(t) + 1
    BY <1>1, <2>1
  <2> QED  BY <1>1, <1>3, <2>1, <2>2 DEF Json!MembersEnd
<1> QED  BY <1>2, <1>3

LEMMA ValueEndLater ==
  ASSUME NEW t \in Seq(Json!Tokens), NEW i \in 1 .. Len(t), NEW f, NEW g,
         \A j \in i + 1 .. Len(t) + 1 : f[j] = g[j]
  PROVE  Json!ValueEnd(t, i, f) = Json!ValueEnd(t, i, g)
<1>1. i + 1 \in i + 1 .. Len(t) + 1
  BY TextIs
<1>2. f[i + 1] = g[i + 1]
  BY <1>1
<1> QED  BY <1>2 DEF Json!ValueEnd

LEMMA MembersEndLater ==
  ASSUME NEW t \in Seq(Json!Tokens), NEW i \in 1 .. Len(t), NEW c, NEW e, NEW f, NEW g,
         \A j \in i + 1 .. Len(t) + 1 : f[j] = g[j]
  PROVE  Json!MembersEnd(t, i, c, e, f) = Json!MembersEnd(t, i, c, e, g)
<1>1. CASE e \notin i .. Len(t) - 1
  BY <1>1 DEF Json!MembersEnd
<1>2. CASE e \in i .. Len(t) - 1
  <2>1. e + 2 \in i + 1 .. Len(t) + 1
    BY <1>2, TextIs
  <2>2. f[e + 2] = g[e + 2]
    BY <2>1
  <2> QED  BY <1>2, <2>2 DEF Json!MembersEnd
<1> QED  BY <1>1, <1>2

\* The function of the ends is what its definition says.
LEMMA EndsIs ==
  ASSUME NEW t \in Seq(Json!Tokens)
  PROVE  Json!Ends(t) = [i \in 1 .. Len(t) + 1 |-> Json!EndsFrom(t, i, Json!Ends(t))]
<1> DEFINE n == Len(t)
           D == 1 .. n + 1
           S == [Json!Kinds -> 0 .. n + 1]
           G == [a \in D \X [D -> S] |-> Json!EndsFrom(t, a[1], a[2])]
<1>1. n \in Nat /\ S # {}
  <2>1. n \in Nat /\ 0 \in 0 .. n + 1
    BY TextIs
  <2>2. [k \in Json!Kinds |-> 0] \in S
    BY <2>1
  <2> QED  BY <2>1, <2>2
<1>2. ASSUME NEW i \in D, NEW f \in [D -> S] PROVE Json!EndsFrom(t, i, f) \in S
  <2>1. CASE i > Len(t)
    <3>1. n + 1 \in 0 .. n + 1
      BY <1>1
    <3> QED  BY <2>1, <3>1 DEF Json!EndsFrom
  <2>2. CASE ~(i > Len(t))
    <3>1. i \in 1 .. Len(t)
      BY <1>1, <2>2
    <3>2. Json!ValueEnd(t, i, f) \in 0 .. n + 1
      BY <3>1, ValueEndTyped
    <3>3. \A c \in Closers : Json!MembersEnd(t, i, c, Json!ValueEnd(t, i, f), f) \in 0 .. n + 1
      BY <3>1, MembersEndTyped
    <3>4. \A k \in Json!Kinds : k = "value" \/ k \in Closers
      BY DEF Json!Kinds, Closers
    <3> QED  BY <2>2, <3>2, <3>3, <3>4 DEF Json!EndsFrom
  <2> QED  BY <2>1, <2>2
<1>3. ASSUME NEW i \in D, NEW f, NEW g, \A j \in i + 1 .. n + 1 : f[j] = g[j]
      PROVE  Json!EndsFrom(t, i, f) = Json!EndsFrom(t, i, g)
  <2>1. CASE i > Len(t)
    BY <2>1 DEF Json!EndsFrom
  <2>2. CASE ~(i > Len(t))
    <3>1. i \in 1 .. Len(t)
      BY <1>1, <2>2
    <3>2. Json!ValueEnd(t, i, f) = Json!ValueEnd(t, i, g)
      BY <1>3, <3>1, ValueEndLater
    <3>3. \A c, e : Json!MembersEnd(t, i, c, e, f) = Json!MembersEnd(t, i, c, e, g)
      BY <1>3, <3>1, MembersEndLater
    <3> QED  BY <2>2, <3>2, <3>3 DEF Json!EndsFrom
  <2> QED  BY <2>1, <2>2
<1>4. \A i \in D : \A f \in [D -> S] : G[<<i, f>>] = Json!EndsFrom(t, i, f)
  OBVIOUS
<1> HIDE DEF G, S
<1>5. \E f \in [D -> S] : \A i \in D : f[i] = G[<<i, f>>]
  <2>1. \A i \in D : \A f \in [D -> S] : G[<<i, f>>] \in S
    BY <1>2, <1>4
  <2>2. \A i \in D : \A f, g \in [D -> S] :
          (\A j \in i + 1 .. n + 1 : f[j] = g[j]) => G[<<i, f>>] = G[<<i, g>>]
    <3> SUFFICES ASSUME NEW i \in D, NEW f \in [D -> S], NEW g \in [D -> S],
                        \A j \in i + 1 .. n + 1 : f[j] = g[j]
                 PROVE  G[<<i, f>>] = G[<<i, g>>]
      OBVIOUS
    <3>1. Json!EndsFrom(t, i, f) = Json!EndsFrom(t, i, g)
      BY <1>3
    <3> QED  BY <1>4, <3>1
  <2>3. Downward(n, S, G)
    BY <1>1, <2>1, <2>2 DEF Downward
  <2> HIDE DEF n
  <2> QED  BY <1>1, <2>3, DownwardFunction
<1>6. PICK f \in [D -> S] : \A i \in D : f[i] = G[<<i, f>>]
  BY <1>5
<1>7. f = [i \in 1 .. Len(t) + 1 |-> Json!EndsFrom(t, i, f)]
  BY <1>4, <1>6
<1> QED  BY <1>7 DEF Json!Ends

LEMMA ReachIs ==
  ASSUME NEW t \in Seq(Json!Tokens), NEW i \in 1 .. Len(t)
  PROVE  /\ Json!Reach(t, i) = Json!ValueEnd(t, i, Json!Ends(t))
         /\ \A c \in Closers :
              Closed(t, i, c) = Json!MembersEnd(t, i, c, Json!Reach(t, i), Json!Ends(t))
<1>1. Len(t) \in Nat /\ ~(i > Len(t)) /\ i \in 1 .. Len(t) + 1
  BY TextIs
<1>2. Json!Ends(t)[i] = Json!EndsFrom(t, i, Json!Ends(t))
  BY <1>1, EndsIs
<1>3. "value" \in Json!Kinds /\ \A c \in Closers : c \in Json!Kinds /\ c # "value"
  BY DEF Json!Kinds, Closers
<1> QED  BY <1>1, <1>2, <1>3 DEF Json!EndsFrom, Json!Reach, Closed

LEMMA ReachPast ==
  ASSUME NEW t \in Seq(Json!Tokens)
  PROVE  /\ Json!Reach(t, Len(t) + 1) = Len(t) + 1
         /\ \A c \in Closers : Closed(t, Len(t) + 1, c) = Len(t) + 1
<1>1. Len(t) \in Nat /\ Len(t) + 1 > Len(t) /\ Len(t) + 1 \in 1 .. Len(t) + 1
  BY TextIs
<1>2. Json!Ends(t)[Len(t) + 1] = Json!EndsFrom(t, Len(t) + 1, Json!Ends(t))
  BY <1>1, EndsIs
<1>3. "value" \in Json!Kinds /\ \A c \in Closers : c \in Json!Kinds
  BY DEF Json!Kinds, Closers
<1> QED  BY <1>1, <1>2, <1>3 DEF Json!EndsFrom, Json!Reach, Closed

-----------------------------------------------------------------------------
(* JsonRecovery: the brackets and quotes of a value match. *)

LEMMA AddsIs ==
  ASSUME NEW opener \in Openers
  PROVE  /\ Adds("x", opener) = 0 /\ Adds("comma", opener) = 0
         /\ \A c \in Openers : /\ Adds(c, opener) \in {0, 1} /\ Adds(c, c) = 1
                               /\ Adds(c, opener) + Adds(Json!Closer(c), opener) = 0
BY DEF Openers, Adds, Json!Closer

LEMMA CloserIs ==
  ASSUME NEW c \in Openers
  PROVE  Json!Closer(c) \in Closers /\ Json!Closer(c) # c /\ Json!Closer(c) # "quote"
BY DEF Openers, Closers, Json!Closer

\* How far a value reaches, by the token it starts with.
LEMMA ReachCases ==
  ASSUME NEW t \in Seq(Json!Tokens), NEW i \in 1 .. Len(t)
  PROVE  /\ t[i] = "x" => Json!Reach(t, i) = i
         /\ t[i] = "quote" => /\ Json!Reach(t, i) \in i + 1 .. Len(t) + 1
                              /\ Json!Reach(t, i) <= Len(t) => t[Json!Reach(t, i)] = "quote"
                              /\ \A j \in i + 1 .. Json!Reach(t, i) - 1 : t[j] # "quote"
         /\ t[i] \in Openers =>
              IF i < Len(t) /\ t[i + 1] = Json!Closer(t[i]) THEN Json!Reach(t, i) = i + 1
              ELSE Json!Reach(t, i) = Closed(t, i + 1, Json!Closer(t[i]))
         /\ t[i] \notin Openers \cup {"x", "quote"} => Json!Reach(t, i) = 0
<1>1. Json!Reach(t, i) = Json!ValueEnd(t, i, Json!Ends(t))
  BY ReachIs
<1>2. CASE t[i] = "quote"
  <2>1. Json!Reach(t, i) = Json!Min({j \in i + 1 .. Len(t) : t[j] = "quote"} \cup {Len(t) + 1})
    BY <1>1, <1>2 DEF Json!ValueEnd
  <2> QED  BY <1>2, <2>1, NextQuote DEF Openers
<1>3. CASE t[i] # "quote"
  BY <1>1, <1>3 DEF Json!ValueEnd, Closed, Openers
<1> QED  BY <1>2, <1>3

\* Where the members are closed, by what follows the first of them.
LEMMA ClosedCases ==
  ASSUME NEW t \in Seq(Json!Tokens), NEW i \in 1 .. Len(t), NEW c \in Closers,
         NEW v, v = Json!Reach(t, i)
  PROVE  /\ v \notin i .. Len(t) - 1 => Closed(t, i, c) = IF v = 0 THEN 0 ELSE Len(t) + 1
         /\ v \in i .. Len(t) - 1 =>
              Closed(t, i, c) = IF t[v + 1] = c THEN v + 1
                                ELSE IF t[v + 1] = "comma" THEN Closed(t, v + 2, c) ELSE 0
BY ReachIs DEF Json!MembersEnd, Closed

\* What is between an opener and where it is closed, from i to before e.
Inner(t, i, e, c) ==
  /\ e \in {0} \cup i .. Len(t) + 1
  /\ e # 0 => \A k \in i .. Len(t) : k < e => \A o \in Openers : Json!Depth(t, i, k, o) >= 0
  /\ e \in i .. Len(t) => /\ t[e] = c /\ Json!Bare(t, i, e)
                          /\ \A o \in Openers : Json!Depth(t, i, e - 1, o) = 0

MembersOk(t, i, c) ==
  /\ Inner(t, i, Closed(t, i, c), c)
  /\ Closed(t, i, c) # i \/ Closed(t, i, c) = Len(t) + 1

\* A value from i to e leaves the depth as it was, and its opener is closed at its end only.
ValueTo(t, i, e) ==
  /\ e \in {0} \cup i .. Len(t) + 1
  /\ e # 0 => \A k \in i .. Len(t) : k <= e => \A o \in Openers : Json!Depth(t, i, k, o) >= 0
  /\ e \in i .. Len(t) => /\ Json!Bare(t, i, e + 1)
                          /\ \A o \in Openers : Json!Depth(t, i, e, o) = 0
  /\ i <= Len(t) /\ t[i] \in Openers =>
       /\ e # 0 => \A k \in i .. Len(t) : k < e => Json!Depth(t, i, k, t[i]) >= 1
       /\ e \in i .. Len(t) => t[e] = Json!Closer(t[i]) /\ Json!Bare(t, i, e)

ValueOk(t, i) == ValueTo(t, i, Json!Reach(t, i))

\* A token that is no quote leaves what is bare.
LEMMA BareNext ==
  ASSUME NEW t, NEW i \in Nat, NEW j \in Nat, i <= j, Json!Bare(t, i, j), t[j] # "quote"
  PROVE  Json!Bare(t, i, j + 1)
<1>1. Json!Quotes(t, j, j + 1) = 0
  BY QuotesOne
<1>2. Json!Bare(t, j, j + 1)
  BY <1>1 DEF Json!Bare
<1>3. j + 1 \in Nat /\ j <= j + 1
  OBVIOUS
<1> QED  BY <1>2, <1>3, BareSplit

\* A bare token adds to the depth what it adds by itself.
LEMMA DepthNext ==
  ASSUME NEW t, NEW i \in Nat, NEW j \in Nat, i <= j, Json!Bare(t, i, j), NEW o \in Openers
  PROVE  /\ Json!Depth(t, i, j, o) = Json!Depth(t, i, j - 1, o) + Adds(t[j], o)
         /\ Json!Depth(t, i, j - 1, o) \in Int
<1>1. Json!Depth(t, j, j, o) = Adds(t[j], o)
  BY DepthOne DEF Openers
<1>2. j <= j + 1
  OBVIOUS
<1> QED  BY <1>1, <1>2, DepthSplit

\* An opener before members that balance, up to their closer, makes a value that does.
LEMMA ContainerTo ==
  ASSUME NEW t \in Seq(Json!Tokens), NEW i \in 1 .. Len(t), t[i] \in Openers, NEW e,
         Inner(t, i + 1, e, Json!Closer(t[i]))
  PROVE  ValueTo(t, i, e)
<1> DEFINE n == Len(t)
<1>1. n \in Nat /\ i \in Nat /\ i + 1 \in Nat /\ i + 1 - 1 = i /\ i <= i + 1
  BY TextIs
<1>2. Json!Bare(t, i, i) /\ Json!Bare(t, i, i + 1)
  <2>1. t[i] # "quote"
    BY DEF Openers
  <2>2. Json!Bare(t, i, i)
    BY <1>1, QuotesOne
  <2> QED  BY <1>1, <2>1, <2>2, BareNext
<1>3. ASSUME NEW o \in Openers
      PROVE  Json!Depth(t, i, i, o) = Adds(t[i], o) /\ Adds(t[i], o) \in {0, 1}
  BY <1>1, DepthOne, AddsIs DEF Openers
<1>4. ASSUME NEW k \in i .. n + 1, NEW o \in Openers
      PROVE  /\ Json!Depth(t, i, k, o) = Adds(t[i], o) + Json!Depth(t, i + 1, k, o)
             /\ Json!Depth(t, i + 1, k, o) \in Int
  <2>1. k \in Nat /\ i + 1 <= k + 1
    BY <1>1
  <2>2. PICK j \in Nat : j = i + 1
    BY <1>1
  <2>3. /\ i \in Nat /\ j \in Nat /\ k \in Nat /\ i <= j /\ j <= k + 1
        /\ Json!Bare(t, i, j)
    BY <1>1, <1>2, <2>1, <2>2
  <2>4. /\ Json!Depth(t, i, k, o) = Json!Depth(t, i, j - 1, o) + Json!Depth(t, j, k, o)
        /\ Json!Depth(t, j, k, o) \in Int
    BY <2>3, DepthSplit
  <2>5. j - 1 = i
    BY <1>1, <2>2
  <2> QED  BY <1>3, <2>2, <2>4, <2>5
<1>5. e \in {0} \cup i .. n + 1
  BY <1>1 DEF Inner
<1>6. ASSUME e # 0, NEW k \in i .. n, k < e, NEW o \in Openers
      PROVE  Json!Depth(t, i, k, o) >= Adds(t[i], o)
  <2>1. CASE k = i
    BY <1>3, <2>1
  <2>2. CASE k # i
    <3>1. k \in i + 1 .. Len(t) /\ k \in i .. n + 1
      BY <1>1, <2>2
    <3>2. Json!Depth(t, i + 1, k, o) >= 0
      BY <1>6, <3>1 DEF Inner
    <3> QED  BY <1>3, <1>4, <3>1, <3>2
  <2> QED  BY <2>1, <2>2
<1>7. ASSUME e \in i .. n
      PROVE  /\ t[e] = Json!Closer(t[i]) /\ Json!Bare(t, i, e) /\ Json!Bare(t, i, e + 1)
             /\ \A o \in Openers : Json!Depth(t, i, e, o) = 0
  <2>1. e \in i + 1 .. Len(t) /\ e \in Nat /\ i <= e /\ i + 1 <= e /\ e - 1 \in i .. n + 1
    BY <1>1, <1>7 DEF Inner
  <2>2. t[e] = Json!Closer(t[i]) /\ Json!Bare(t, i + 1, e)
    BY <2>1 DEF Inner
  <2>3. Json!Bare(t, i, e)
    BY <1>1, <1>2, <2>1, <2>2, BareSplit
  <2>4. Json!Bare(t, i, e + 1)
    BY <1>1, <2>1, <2>2, <2>3, BareNext, CloserIs
  <2>5. ASSUME NEW o \in Openers PROVE Json!Depth(t, i, e, o) = 0
    <3>1. Json!Depth(t, i + 1, e - 1, o) = 0
      BY <2>1 DEF Inner
    <3>2. Json!Depth(t, i, e - 1, o) = Adds(t[i], o)
      <4>1. Json!Depth(t, i, e - 1, o) = Adds(t[i], o) + Json!Depth(t, i + 1, e - 1, o)
        BY <1>4, <2>1
      <4> QED  BY <1>3, <3>1, <4>1
    <3>3. Json!Depth(t, i, e, o) = Json!Depth(t, i, e - 1, o) + Adds(t[e], o)
      BY <1>1, <2>1, <2>3, DepthNext
    <3>4. Adds(t[i], o) + Adds(t[e], o) = 0
      BY <2>2, AddsIs
    <3> QED  BY <3>2, <3>3, <3>4
  <2> QED  BY <2>2, <2>3, <2>4, <2>5
<1>8. ASSUME e # 0, NEW k \in i .. n, k <= e, NEW o \in Openers
      PROVE  Json!Depth(t, i, k, o) >= 0
  <2>1. CASE k = e
    BY <1>7, <1>8, <2>1
  <2>2. CASE k # e
    <3>1. k < e
      BY <1>1, <1>5, <1>8, <2>2
    <3>2. Adds(t[i], o) >= 0 /\ Adds(t[i], o) \in Int
      BY <1>3
    <3>3. Json!Depth(t, i, k, o) \in Int
      BY <1>1, <1>3, <1>4
    <3> QED  BY <1>6, <1>8, <3>1, <3>2, <3>3
  <2> QED  BY <2>1, <2>2
<1>9. ASSUME e # 0, NEW k \in i .. n, k < e PROVE Json!Depth(t, i, k, t[i]) >= 1
  <2>1. Adds(t[i], t[i]) = 1
    BY AddsIs
  <2> QED  BY <1>6, <1>9, <2>1
<1> QED  BY <1>5, <1>7, <1>8, <1>9 DEF ValueTo

\* A value balances if the members inside it do.
LEMMA ValueFromMembers ==
  ASSUME NEW t \in Seq(Json!Tokens), NEW i \in 1 .. Len(t),
         \A c \in Closers : MembersOk(t, i + 1, c)
  PROVE  ValueOk(t, i)
<1> DEFINE n == Len(t)
           e == Json!Reach(t, i)
<1>1. n \in Nat /\ i \in Nat /\ i + 1 \in Nat /\ i + 1 - 1 = i
  BY TextIs
<1>2. CASE t[i] \in Openers
  <2>1. Inner(t, i + 1, e, Json!Closer(t[i]))
    <3>1. CASE i < Len(t) /\ t[i + 1] = Json!Closer(t[i])
      <4>1. e = i + 1 /\ e \in i + 1 .. n /\ e - 1 = i
        BY <1>1, <1>2, <3>1, ReachCases
      <4>2. Json!Bare(t, i + 1, i + 1)
        BY <1>1, QuotesOne
      <4>3. \A o \in Openers : Json!Depth(t, i + 1, i, o) = 0
        BY <1>1, DepthOne DEF Openers
      <4>4. \A k \in i + 1 .. n : ~(k < i + 1)
        BY <1>1
      <4> QED  BY <1>1, <3>1, <4>1, <4>2, <4>3, <4>4 DEF Inner
    <3>2. CASE ~(i < Len(t) /\ t[i + 1] = Json!Closer(t[i]))
      <4>1. e = Closed(t, i + 1, Json!Closer(t[i]))
        BY <1>2, <3>2, ReachCases
      <4> QED  BY <1>2, <4>1, CloserIs DEF MembersOk
    <3> QED  BY <3>1, <3>2
  <2> HIDE DEF e
  <2>2. ValueTo(t, i, e)
    BY <1>2, <2>1, ContainerTo
  <2> QED  BY <2>2 DEF ValueOk, e
<1>3. CASE t[i] = "x"
  <2>1. e = i
    BY <1>3, ReachCases
  <2>2. Json!Bare(t, i, i) /\ Json!Bare(t, i, i + 1)
    BY <1>1, <1>3, QuotesOne, BareNext
  <2>3. \A o \in Openers : Json!Depth(t, i, i, o) = 0
    BY <1>1, <1>3, DepthOne, AddsIs DEF Openers
  <2>4. i \in i .. n + 1 /\ t[i] \notin Openers /\ \A k \in i .. n : k <= i => k = i
    BY <1>1, <1>3 DEF Openers
  <2>5. ValueTo(t, i, i)
    BY <1>1, <2>2, <2>3, <2>4 DEF ValueTo
  <2> QED  BY <2>1, <2>5 DEF ValueOk
<1>4. CASE t[i] = "quote"
  <2>1. /\ e \in i + 1 .. n + 1 /\ (e <= n => t[e] = "quote")
        /\ \A j \in i + 1 .. e - 1 : t[j] # "quote"
    BY <1>4, ReachCases
  <2> HIDE DEF e
  <2>2. e \in Nat /\ i < e /\ e \in {0} \cup i .. n + 1
    BY <1>1, <2>1
  <2>3. /\ \A k \in i + 1 .. e : Json!Quotes(t, i, k) = 1
        /\ \A k \in i .. e : \A o \in {"array", "object"} : Json!Depth(t, i, k, o) = 0
    BY <1>1, <1>4, <2>1, <2>2, InString
  <2>4. \A k \in i .. n : k <= e => \A o \in Openers : Json!Depth(t, i, k, o) = 0
    <3>1. \A k \in i .. n : k <= e => k \in i .. e
      BY <1>1, <2>2
    <3> QED  BY <2>3, <3>1 DEF Openers
  <2>5. ASSUME e \in i .. n PROVE Json!Bare(t, i, e + 1)
    <3>1. e \in i + 1 .. e /\ e <= n /\ e + 1 \in Nat /\ e <= e + 1 /\ i <= e
      BY <1>1, <2>1, <2>5
    <3>2. Json!Quotes(t, i, e) = 1 /\ Json!Quotes(t, e, e + 1) = 1
      BY <2>1, <2>2, <2>3, <3>1, QuotesOne
    <3>3. Json!Quotes(t, i, e + 1) = Json!Quotes(t, i, e) + Json!Quotes(t, e, e + 1)
      BY <1>1, <2>2, <3>1, QuotesSplit
    <3>4. Json!Quotes(t, i, e + 1) = 2
      BY <3>2, <3>3
    <3> QED  BY <3>4 DEF Json!Bare
  <2>6. t[i] \notin Openers
    BY <1>4 DEF Openers
  <2>7. e \in i .. n => e <= e
    BY <2>2
  <2>8. ValueTo(t, i, e)
    BY <1>1, <2>2, <2>4, <2>5, <2>6, <2>7 DEF ValueTo
  <2> QED  BY <2>8 DEF ValueOk, e
<1>5. CASE t[i] \notin Openers \cup {"x", "quote"}
  <2>1. e = 0 /\ 0 \notin i .. n
    BY <1>1, <1>5, ReachCases
  <2>2. ValueTo(t, i, 0)
    BY <1>5, <2>1 DEF ValueTo
  <2> QED  BY <2>1, <2>2 DEF ValueOk
<1> QED  BY <1>2, <1>3, <1>4, <1>5

\* After a value and a comma the depth is what it was, and is counted on from there.
LEMMA AfterComma ==
  ASSUME NEW t \in Seq(Json!Tokens), NEW i \in 1 .. Len(t), NEW v \in i .. Len(t) - 1,
         Json!Bare(t, i, v + 1), \A o \in Openers : Json!Depth(t, i, v, o) = 0,
         t[v + 1] = "comma"
  PROVE  /\ \A o \in Openers : Json!Depth(t, i, v + 1, o) = 0
         /\ \A k \in v + 2 .. Len(t) + 1 : Json!Bare(t, i, k) <=> Json!Bare(t, v + 2, k)
         /\ \A k \in v + 1 .. Len(t) + 1 : \A o \in Openers :
              Json!Depth(t, i, k, o) = Json!Depth(t, v + 2, k, o)
<1>1. Len(t) \in Nat /\ i \in Nat /\ v \in Nat
  BY TextIs
<1>2. PICK w \in Nat : w = v + 2
  BY <1>1
<1>3. v + 1 \in Nat /\ i <= v + 1 /\ v + 1 - 1 = v /\ v + 1 + 1 = w /\ i <= w /\ w - 1 = v + 1
  BY <1>1, <1>2
<1>4. Json!Bare(t, i, w)
  BY <1>1, <1>3, BareNext
<1>5. ASSUME NEW o \in Openers PROVE Json!Depth(t, i, v + 1, o) = 0
  <2>1. Json!Depth(t, i, v + 1, o) = Json!Depth(t, i, v + 1 - 1, o) + Adds(t[v + 1], o)
    BY <1>1, <1>3, DepthNext
  <2>2. Adds(t[v + 1], o) = 0
    BY AddsIs
  <2> QED  BY <1>3, <2>1, <2>2
<1>6. ASSUME NEW k \in v + 2 .. Len(t) + 1 PROVE Json!Bare(t, i, k) <=> Json!Bare(t, v + 2, k)
  <2>1. k \in Nat /\ w <= k
    BY <1>1, <1>2
  <2> QED  BY <1>1, <1>2, <1>3, <1>4, <2>1, BareSplit
<1>7. ASSUME NEW k \in v + 1 .. Len(t) + 1, NEW o \in Openers
      PROVE  Json!Depth(t, i, k, o) = Json!Depth(t, v + 2, k, o)
  <2>1. i \in Nat /\ w \in Nat /\ k \in Nat /\ i <= w /\ w <= k + 1 /\ Json!Bare(t, i, w)
    BY <1>1, <1>2, <1>3, <1>4
  <2>2. /\ Json!Depth(t, i, k, o) = Json!Depth(t, i, w - 1, o) + Json!Depth(t, w, k, o)
        /\ Json!Depth(t, w, k, o) \in Int
    BY <2>1, DepthSplit
  <2>3. Json!Depth(t, i, w - 1, o) = 0
    BY <1>3, <1>5
  <2>4. Json!Depth(t, i, k, o) = Json!Depth(t, w, k, o)
    BY <2>2, <2>3
  <2> QED  BY <1>2, <2>4
<1> QED  BY <1>5, <1>6, <1>7

\* Members balance if the first of them does and what follows it.
LEMMA MembersFromValue ==
  ASSUME NEW t \in Seq(Json!Tokens), NEW i \in 1 .. Len(t), NEW c \in Closers, ValueOk(t, i),
         \A j \in i + 2 .. Len(t) + 1 : MembersOk(t, j, c)
  PROVE  MembersOk(t, i, c)
<1> DEFINE n == Len(t)
<1>1. PICK v : v = Json!Reach(t, i)
  OBVIOUS
<1>2. PICK e : e = Closed(t, i, c)
  OBVIOUS
<1>3. ValueTo(t, i, v) /\ n \in Nat /\ i \in Nat
  BY <1>1, TextIs DEF ValueOk
<1>4. v \in {0} \cup i .. n + 1
  BY <1>3 DEF ValueTo
<1> SUFFICES Inner(t, i, e, c) /\ (e # i \/ e = Len(t) + 1)
  BY <1>2 DEF MembersOk
<1>5. CASE v = 0
  <2>1. v \notin i .. Len(t) - 1
    BY <1>3, <1>5
  <2>2. e = 0 /\ 0 \notin i .. Len(t)
    <3>1. Closed(t, i, c) = IF v = 0 THEN 0 ELSE Len(t) + 1
      BY <1>1, <2>1, ClosedCases
    <3> QED  BY <1>2, <1>3, <1>5, <3>1
  <2> QED  BY <2>2 DEF Inner
<1>6. CASE v # 0 /\ v \notin i .. n - 1
  <2>1. e = n + 1
    BY <1>1, <1>2, <1>6, ClosedCases
  <2>2. n + 1 \in i .. n + 1 /\ n + 1 \notin i .. n /\ n + 1 # 0 /\ \A k \in i .. n : k <= v
    BY <1>3, <1>4, <1>6
  <2>3. \A k \in i .. n : \A o \in Openers : Json!Depth(t, i, k, o) >= 0
    BY <1>3, <1>6, <2>2 DEF ValueTo
  <2> QED  BY <2>1, <2>2, <2>3 DEF Inner
<1>7. CASE v \in i .. n - 1
  <2>1. /\ v # 0 /\ v \in i .. n /\ v + 1 \in i .. n /\ v + 1 - 1 = v /\ v + 1 # i
        /\ v + 2 \in i + 2 .. n + 1 /\ 0 \notin i .. n
    BY <1>3, <1>7
  <2>2. Json!Bare(t, i, v + 1) /\ \A o \in Openers : Json!Depth(t, i, v, o) = 0
    BY <1>3, <2>1 DEF ValueTo
  <2>3. \A k \in i .. n : k <= v => \A o \in Openers : Json!Depth(t, i, k, o) >= 0
    BY <1>3, <2>1 DEF ValueTo
  <2>4. CASE t[v + 1] = c
    <3>1. e = v + 1
      BY <1>1, <1>2, <1>7, <2>4, ClosedCases
    <3>2. \A k \in i .. n : k < v + 1 => k <= v
      BY <1>3, <1>7
    <3>3. v + 1 \in {0} \cup i .. n + 1
      BY <1>3, <1>7
    <3> QED  BY <2>1, <2>2, <2>3, <2>4, <3>1, <3>2, <3>3 DEF Inner
  <2>5. CASE t[v + 1] = "comma" /\ t[v + 1] # c
    <3>1. e = Closed(t, v + 2, c)
      BY <1>1, <1>2, <1>7, <2>5, ClosedCases
    <3>2. Inner(t, v + 2, e, c) /\ (e # v + 2 \/ e = Len(t) + 1)
      BY <2>1, <3>1 DEF MembersOk
    <3>3. e \in {0} \cup v + 2 .. n + 1
      BY <3>2 DEF Inner
    <3>4. e \in {0} \cup i .. n + 1 /\ (e # i \/ e = n + 1)
      BY <1>3, <1>7, <3>3
    <3>5. ASSUME e # 0, NEW k \in i .. n, k < e, NEW o \in Openers
          PROVE  Json!Depth(t, i, k, o) >= 0
      <4>1. CASE k <= v
        BY <2>3, <4>1
      <4>2. CASE k = v + 1
        BY <1>7, <2>2, <2>5, <4>2, AfterComma
      <4>3. CASE k \in v + 2 .. n
        <5>1. Json!Depth(t, v + 2, k, o) >= 0
          BY <3>2, <3>5, <4>3 DEF Inner
        <5>2. k \in v + 1 .. n + 1
          BY <1>3, <1>7, <4>3
        <5> QED  BY <1>7, <2>2, <2>5, <5>1, <5>2, AfterComma
      <4> QED  BY <1>3, <1>7, <4>1, <4>2, <4>3
    <3>6. ASSUME e \in i .. n
          PROVE  t[e] = c /\ Json!Bare(t, i, e) /\ \A o \in Openers : Json!Depth(t, i, e - 1, o) = 0
      <4>1. e \in v + 2 .. n /\ e \in v + 2 .. n + 1 /\ e - 1 \in v + 1 .. n + 1
        BY <1>3, <1>7, <3>3, <3>6
      <4>2. t[e] = c /\ Json!Bare(t, v + 2, e) /\ \A o \in Openers : Json!Depth(t, v + 2, e - 1, o) = 0
        BY <3>2, <4>1 DEF Inner
      <4> QED  BY <1>7, <2>2, <2>5, <4>1, <4>2, AfterComma
    <3> QED  BY <3>4, <3>5, <3>6 DEF Inner
  <2>6. CASE t[v + 1] # "comma" /\ t[v + 1] # c
    <3>1. e = 0
      BY <1>1, <1>2, <1>7, <2>6, ClosedCases
    <3> QED  BY <2>1, <3>1 DEF Inner
  <2> QED  BY <2>4, <2>5, <2>6
<1> QED  BY <1>4, <1>5, <1>6, <1>7

\* So it is of every value and of the members of every container.
LEMMA EveryValue ==
  ASSUME NEW t \in Seq(Json!Tokens)
  PROVE  \A i \in 1 .. Len(t) + 1 : /\ i <= Len(t) => ValueOk(t, i)
                                    /\ \A c \in Closers : MembersOk(t, i, c)
<1> DEFINE Wrong == {i \in 1 .. Len(t) + 1 : ~(/\ i <= Len(t) => ValueOk(t, i)
                                               /\ \A c \in Closers : MembersOk(t, i, c))}
<1>1. Len(t) \in Nat
  BY TextIs
<1>2. ASSUME NEW i \in Wrong, \A j \in Wrong : ~(i < j)
      PROVE  FALSE
  <2>1. \A j \in i + 1 .. Len(t) + 1 : j \in 1 .. Len(t) + 1 /\ i < j
    BY <1>1
  <2>2. \A j \in i + 1 .. Len(t) + 1 : \A c \in Closers : MembersOk(t, j, c)
    BY <1>2, <2>1
  <2>3. CASE i = Len(t) + 1
    <3>1. ASSUME NEW c \in Closers PROVE MembersOk(t, i, c)
      <4>1. Closed(t, i, c) = Len(t) + 1
        BY <2>3, ReachPast
      <4>2. i .. Len(t) = {} /\ Len(t) + 1 \in i .. Len(t) + 1
        BY <1>1, <2>3
      <4> QED  BY <4>1, <4>2 DEF MembersOk, Inner
    <3>2. ~(i <= Len(t))
      BY <1>1, <2>3
    <3> QED  BY <3>1, <3>2
  <2>4. CASE i # Len(t) + 1
    <3>1. i \in 1 .. Len(t) /\ i + 1 \in i + 1 .. Len(t) + 1
      BY <1>1, <2>4
    <3>2. ValueOk(t, i)
      BY <2>2, <3>1, ValueFromMembers
    <3>3. \A j \in i + 2 .. Len(t) + 1 : j \in i + 1 .. Len(t) + 1
      BY <1>1
    <3>4. \A c \in Closers : MembersOk(t, i, c)
      BY <2>2, <3>1, <3>2, <3>3, MembersFromValue
    <3> QED  BY <3>2, <3>4
  <2> QED  BY <2>3, <2>4
<1>3. \A i \in Wrong : \E j \in Wrong : i < j
  BY <1>2
<1>4. Wrong \in SUBSET (1 .. Len(t) + 1)
  OBVIOUS
<1> HIDE DEF Wrong
<1>5. Wrong = {}
  BY <1>1, <1>3, <1>4, NoLast
<1> QED  BY <1>5 DEF Wrong

\* An opener is closed where its value ends, and never if that is cut off.
LEMMA MatchingClose ==
  ASSUME NEW t \in Seq(Json!Tokens), NEW i \in 1 .. Len(t), t[i] \in Openers
  PROVE  /\ Json!Reach(t, i) \in i .. Len(t) =>
              Json!FindMatchingClose(t, i, t[i]) = Json!Reach(t, i)
         /\ Json!Reach(t, i) = Len(t) + 1 => Json!FindMatchingClose(t, i, t[i]) = 0
<1> DEFINE K == {k \in i .. Len(t) : /\ t[k] = Json!Closer(t[i]) /\ Json!Bare(t, i, k)
                                     /\ Json!Depth(t, i, k, t[i]) = 0}
<1>1. Len(t) \in Nat /\ i \in Nat /\ i \in 1 .. Len(t) + 1 /\ i <= Len(t)
  BY TextIs
<1>2. PICK e : e = Json!Reach(t, i)
  OBVIOUS
<1>3. ValueTo(t, i, e)
  BY <1>1, <1>2, EveryValue DEF ValueOk
<1>4. e # 0 => \A k \in K : ~(k < e)
  <2> SUFFICES ASSUME e # 0, NEW k \in K, k < e
               PROVE  FALSE
    OBVIOUS
  <2>1. Json!Depth(t, i, k, t[i]) >= 1
    BY <1>1, <1>3 DEF ValueTo
  <2> QED  BY <2>1
<1>5. K \in SUBSET (Nat \ {0})
  BY <1>1
<1>6. Json!FindMatchingClose(t, i, t[i]) = Json!First(K)
  BY DEF Json!FindMatchingClose
<1>7. CASE e \in i .. Len(t)
  <2>1. e \in K
    BY <1>1, <1>3, <1>7 DEF ValueTo
  <2> HIDE DEF K
  <2>2. Json!First(K) \in K /\ Json!First(K) <= e
    BY <1>5, <2>1, FirstFound
  <2>3. ~(Json!First(K) < e) /\ Json!First(K) \in Nat /\ e \in Nat
    <3>1. e \in Nat /\ e # 0 /\ \A k \in K : k \in Nat
      BY <1>1, <1>5, <1>7
    <3> QED  BY <1>4, <2>2, <3>1
  <2>4. Json!First(K) = e
    BY <2>2, <2>3
  <2>5. e # Len(t) + 1
    BY <1>1, <1>7
  <2> QED  BY <1>2, <1>6, <2>4, <2>5
<1>8. CASE e = Len(t) + 1
  <2>1. e # 0 /\ e \notin i .. Len(t) /\ \A k \in i .. Len(t) : k < e
    BY <1>1, <1>8
  <2>2. K = {}
    BY <1>4, <2>1
  <2> HIDE DEF K
  <2>3. Json!First(K) = 0
    BY <1>5, <2>2, FirstFound
  <2> QED  BY <1>2, <1>6, <2>1, <2>3
<1> QED  BY <1>2, <1>7, <1>8

-----------------------------------------------------------------------------
(* JsonRecovery: a value reads the same wherever it stands. *)

\* u begins with what t has from d + 1 to b.
Shifted(t, u, d, b) ==
  /\ t \in Seq(Json!Tokens) /\ u \in Seq(Json!Tokens)
  /\ d \in Nat /\ b \in d .. Len(t) /\ b - d <= Len(u)
  /\ \A k \in 1 .. b - d : u[k] = t[k + d]

\* What ends by b at a position of t ends at the same place of u.
ReadsAlike(t, u, d, b, q) ==
  /\ Json!Reach(t, q + d) \in q + d .. b => Json!Reach(u, q) = Json!Reach(t, q + d) - d
  /\ \A c \in Closers :
       Closed(t, q + d, c) \in q + d .. b => Closed(u, q, c) = Closed(t, q + d, c) - d

\* A value is read alike if what is inside it is,
LEMMA ValueAlike ==
  ASSUME NEW t, NEW u, NEW d, NEW b, Shifted(t, u, d, b), NEW q \in 1 .. b - d,
         q + 1 <= b - d => ReadsAlike(t, u, d, b, q + 1), NEW e, e = Json!Reach(t, q + d),
         e \in q + d .. b
  PROVE  Json!Reach(u, q) = e - d
<1>1. /\ Len(t) \in Nat /\ Len(u) \in Nat /\ d \in Nat /\ b \in d .. Len(t) /\ b - d <= Len(u)
      /\ t \in Seq(Json!Tokens) /\ u \in Seq(Json!Tokens) /\ q \in Nat
  BY TextIs DEF Shifted
<1>2. PICK p \in Nat : p = q + d
  BY <1>1
<1>3. /\ p \in 1 .. Len(t) /\ q \in 1 .. Len(u) /\ e \in p .. b /\ e \in Nat
      /\ e = Json!Reach(t, p) /\ e # 0
  BY <1>1, <1>2
<1>4. \A k \in 1 .. b - d : u[k] = t[k + d]
  BY DEF Shifted
<1>5. u[q] = t[p]
  BY <1>2, <1>4
<1>6. CASE t[p] = "x"
  <2>1. e = p /\ Json!Reach(u, q) = q
    BY <1>1, <1>3, <1>5, <1>6, ReachCases
  <2> QED  BY <1>1, <1>2, <2>1
<1>7. CASE t[p] = "quote"
  <2>1. PICK f : f = Json!Reach(u, q)
    OBVIOUS
  <2>2. /\ e \in p + 1 .. Len(t) + 1 /\ (e <= Len(t) => t[e] = "quote")
        /\ \A j \in p + 1 .. e - 1 : t[j] # "quote"
    BY <1>1, <1>3, <1>7, ReachCases
  <2>3. /\ f \in q + 1 .. Len(u) + 1 /\ (f <= Len(u) => u[f] = "quote")
        /\ \A j \in q + 1 .. f - 1 : u[j] # "quote"
    <3>1. u \in Seq(Json!Tokens) /\ q \in 1 .. Len(u) /\ u[q] = "quote"
      BY <1>1, <1>3, <1>5, <1>7
    <3> QED  BY <2>1, <3>1, ReachCases
  <2>4. ~(f < e - d)
    <3> SUFFICES ASSUME f < e - d
                 PROVE  FALSE
      OBVIOUS
    <3>1. f \in 1 .. b - d /\ f <= Len(u) /\ f + d \in p + 1 .. e - 1
      BY <1>1, <1>2, <1>3, <2>3
    <3> QED  BY <1>4, <2>2, <2>3, <3>1
  <2>5. ~(e - d < f)
    <3> SUFFICES ASSUME e - d < f
                 PROVE  FALSE
      OBVIOUS
    <3>1. PICK g \in Int : g = e - d
      BY <1>1, <1>3
    <3>2. g \in 1 .. b - d /\ g \in q + 1 .. f - 1 /\ g + d = e /\ e <= Len(t)
      <4>1. f \in Int /\ q \in Nat /\ b \in Nat /\ d \in Nat /\ e \in Nat /\ b <= Len(t)
        BY <1>1, <1>3, <2>3
      <4>2. q + d + 1 <= e /\ e <= b
        BY <1>1, <1>2, <1>3, <2>2
      <4> QED  BY <1>1, <3>1, <4>1, <4>2
    <3>3. u[g] = t[e]
      BY <1>4, <3>2
    <3> QED  BY <2>2, <2>3, <3>2, <3>3
  <2>6. f \in Int /\ e - d \in Int
    BY <1>1, <1>3, <2>3
  <2> QED  BY <2>1, <2>4, <2>5, <2>6
<1>8. CASE t[p] \in Openers
  <2>1. PICK c \in Closers : c = Json!Closer(t[p])
    BY <1>8, CloserIs
  <2>2. p + 1 \in 1 .. Len(t) + 1
    BY <1>1, <1>3
  <2>3. CASE p < Len(t) /\ t[p + 1] = c
    <3>1. e = p + 1
      BY <1>1, <1>3, <1>8, <2>1, <2>3, ReachCases
    <3>2. q + 1 \in 1 .. b - d /\ q + 1 + d = p + 1 /\ q < Len(u)
      BY <1>1, <1>2, <1>3, <3>1
    <3>3. u[q + 1] = c
      BY <1>4, <2>3, <3>2
    <3>4. Json!Reach(u, q) = q + 1
      BY <1>1, <1>3, <1>5, <1>8, <2>1, <3>2, <3>3, ReachCases
    <3> QED  BY <1>1, <1>2, <3>1, <3>4
  <2>4. CASE ~(p < Len(t) /\ t[p + 1] = c)
    <3>1. e = Closed(t, p + 1, c)
      BY <1>1, <1>3, <1>8, <2>1, <2>4, ReachCases
    <3>2. MembersOk(t, p + 1, c)
      BY <1>1, <2>2, EveryValue
    <3>3. e \in {0} \cup p + 1 .. Len(t) + 1 /\ (e # p + 1 \/ e = Len(t) + 1)
      BY <3>1, <3>2 DEF MembersOk, Inner
    <3>4. e \in p + 2 .. b
      BY <1>1, <1>3, <3>3
    <3>5. /\ q + 1 \in 1 .. b - d /\ q + 1 <= b - d /\ q + 1 + d = p + 1 /\ q < Len(u) /\ p < Len(t)
          /\ e \in p + 1 .. b
      BY <1>1, <1>2, <1>3, <3>4
    <3>6. u[q + 1] # c
      BY <1>4, <2>4, <3>5
    <3>7. Json!Reach(u, q) = Closed(u, q + 1, c)
      BY <1>1, <1>3, <1>5, <1>8, <2>1, <3>6, ReachCases
    <3>8. Closed(u, q + 1, c) = e - d
      BY <3>1, <3>5 DEF ReadsAlike
    <3> QED  BY <3>7, <3>8
  <2> QED  BY <2>3, <2>4
<1>9. CASE t[p] \notin Openers \cup {"x", "quote"}
  BY <1>1, <1>3, <1>9, ReachCases
<1> QED  BY <1>6, <1>7, <1>8, <1>9

\* and members are if the values among them are.
LEMMA MembersAlike ==
  ASSUME NEW t, NEW u, NEW d, NEW b, Shifted(t, u, d, b), NEW q \in 1 .. b - d,
         Json!Reach(t, q + d) \in q + d .. b => Json!Reach(u, q) = Json!Reach(t, q + d) - d,
         \A k \in q + 1 .. b - d : ReadsAlike(t, u, d, b, k), NEW c \in Closers,
         NEW e, e = Closed(t, q + d, c), e \in q + d .. b
  PROVE  Closed(u, q, c) = e - d
<1>1. /\ Len(t) \in Nat /\ Len(u) \in Nat /\ d \in Nat /\ b \in d .. Len(t) /\ b - d <= Len(u)
      /\ t \in Seq(Json!Tokens) /\ u \in Seq(Json!Tokens) /\ q \in Nat
  BY TextIs DEF Shifted
<1>2. PICK p \in Nat : p = q + d
  BY <1>1
<1>3. /\ p \in 1 .. Len(t) /\ q \in 1 .. Len(u) /\ e \in p .. b /\ e \in Nat
      /\ e = Closed(t, p, c) /\ e # 0 /\ e # Len(t) + 1
  BY <1>1, <1>2
<1>4. \A k \in 1 .. b - d : u[k] = t[k + d]
  BY DEF Shifted
<1>5. PICK v : v = Json!Reach(t, p)
  OBVIOUS
<1>6. v \in p .. Len(t) - 1
  <2>1. t \in Seq(Json!Tokens) /\ p \in 1 .. Len(t) /\ v = Json!Reach(t, p)
    BY <1>1, <1>3, <1>5
  <2>2. v \notin p .. Len(t) - 1 => Closed(t, p, c) \in {0, Len(t) + 1}
    BY <2>1, ClosedCases
  <2> QED  BY <1>3, <2>2
<1>7. e = IF t[v + 1] = c THEN v + 1 ELSE IF t[v + 1] = "comma" THEN Closed(t, v + 2, c) ELSE 0
  <2>1. t \in Seq(Json!Tokens) /\ p \in 1 .. Len(t) /\ v = Json!Reach(t, p)
    BY <1>1, <1>3, <1>5
  <2> QED  BY <1>3, <1>6, <2>1, ClosedCases
<1>8. t[v + 1] # c => t[v + 1] = "comma" /\ e = Closed(t, v + 2, c) /\ e \in v + 3 .. b
  <2> SUFFICES ASSUME t[v + 1] # c
               PROVE  t[v + 1] = "comma" /\ e = Closed(t, v + 2, c) /\ e \in v + 3 .. b
    OBVIOUS
  <2>1. t[v + 1] = "comma" /\ e = Closed(t, v + 2, c)
    BY <1>3, <1>7
  <2>2. v + 2 \in 1 .. Len(t) + 1
    BY <1>1, <1>3, <1>6
  <2>3. MembersOk(t, v + 2, c)
    BY <1>1, <2>2, EveryValue
  <2>4. e \in {0} \cup v + 2 .. Len(t) + 1 /\ (e # v + 2 \/ e = Len(t) + 1)
    BY <2>1, <2>3 DEF MembersOk, Inner
  <2>5. e \in v + 3 .. b
    <3>1. e \in Nat /\ v \in Nat /\ b \in Nat /\ e <= b /\ e # 0 /\ e # Len(t) + 1
      BY <1>1, <1>3, <1>6
    <3>2. e \in v + 2 .. Len(t) + 1 /\ e # v + 2
      BY <2>4, <3>1
    <3>3. v + 2 <= e /\ e # v + 2
      BY <3>2
    <3> QED  BY <3>1, <3>3
  <2> QED  BY <2>1, <2>5
<1>9. v + 1 \in p + 1 .. b
  BY <1>1, <1>3, <1>6, <1>7, <1>8
<1>10. PICK w \in Int : w = v - d
  BY <1>1, <1>6
<1>11. /\ v \in q + d .. b /\ w \in q .. Len(u) - 1 /\ w + 1 \in 1 .. b - d /\ w + 1 + d = v + 1
       /\ w + 2 + d = v + 2 /\ v = Json!Reach(t, q + d)
  <2>1. v \in Nat /\ v \in q + d .. b /\ v + 1 <= b /\ q + d <= v /\ b \in Nat
    BY <1>1, <1>2, <1>6, <1>9
  <2>2. w + 1 + d = v + 1 /\ w + 2 + d = v + 2 /\ q <= w /\ w + 1 <= b - d
    BY <1>1, <1>10, <2>1
  <2>3. w \in q .. Len(u) - 1 /\ w + 1 \in 1 .. b - d
    BY <1>1, <2>1, <2>2
  <2> QED  BY <1>2, <1>5, <2>1, <2>2, <2>3
<1>12. Json!Reach(u, q) = w /\ u[w + 1] = t[v + 1]
  BY <1>4, <1>10, <1>11
<1>13. Closed(u, q, c) = IF u[w + 1] = c THEN w + 1
                         ELSE IF u[w + 1] = "comma" THEN Closed(u, w + 2, c) ELSE 0
  <2>1. w \in q .. Len(u) - 1 /\ w = Json!Reach(u, q) /\ u \in Seq(Json!Tokens) /\ q \in 1 .. Len(u)
    BY <1>1, <1>3, <1>11, <1>12
  <2> QED  BY <2>1, ClosedCases
<1>14. CASE t[v + 1] = c
  <2>1. e = v + 1 /\ Closed(u, q, c) = w + 1
    BY <1>7, <1>12, <1>13, <1>14
  <2> QED  BY <1>1, <1>6, <1>10, <2>1
<1>15. CASE t[v + 1] # c
  <2>1. w + 2 \in q + 1 .. b - d /\ e \in w + 2 + d .. b /\ e = Closed(t, w + 2 + d, c)
    <3>1. e \in v + 3 .. b /\ e = Closed(t, v + 2, c) /\ v \in Nat /\ e \in Nat
      BY <1>1, <1>3, <1>6, <1>8, <1>15
    <3>2. e \in w + 2 + d .. b /\ e = Closed(t, w + 2 + d, c)
      BY <1>11, <3>1
    <3>3. w + 2 <= b - d /\ q + 1 <= w + 2
      <4>1. b \in Int /\ d \in Int /\ q \in Int /\ v + 3 <= b /\ q <= w /\ w \in Int /\ v \in Int
        <5>1. b \in Int /\ d \in Int /\ q \in Int /\ v \in Int /\ w \in Int
          BY <1>1, <1>10, <3>1
        <5>2. v + 3 <= b
          BY <3>1, <5>1
        <5>3. q <= w
          BY <1>11
        <5> QED  BY <5>1, <5>2, <5>3
      <4> QED  BY <1>10, <4>1
    <3>4. w + 2 \in q + 1 .. b - d
      BY <1>1, <1>10, <3>3
    <3> QED  BY <3>2, <3>4
  <2>2. Closed(u, w + 2, c) = e - d
    BY <2>1 DEF ReadsAlike
  <2> QED  BY <1>8, <1>12, <1>13, <1>15, <2>2
<1> QED  BY <1>14, <1>15

\* Nothing that lies between d and b is read otherwise where it stands alone.
LEMMA EveryReading ==
  ASSUME NEW t, NEW u, NEW d, NEW b, Shifted(t, u, d, b)
  PROVE  \A q \in 1 .. b - d : ReadsAlike(t, u, d, b, q)
<1> DEFINE n == b - d
           Wrong == {q \in 1 .. n + 1 : q <= n /\ ~ReadsAlike(t, u, d, b, q)}
<1>1. n \in Nat
  BY TextIs DEF Shifted
<1>2. ASSUME NEW q \in Wrong, \A j \in Wrong : ~(q < j)
      PROVE  FALSE
  <2>1. \A k \in q + 1 .. n : k \in 1 .. n + 1 /\ k <= n /\ q < k
    BY <1>1
  <2>2. \A k \in q + 1 .. b - d : ReadsAlike(t, u, d, b, k)
    BY <1>2, <2>1
  <2>3. q \in 1 .. b - d /\ (q + 1 <= b - d => q + 1 \in q + 1 .. b - d)
    BY <1>1
  <2>4. Json!Reach(t, q + d) \in q + d .. b => Json!Reach(u, q) = Json!Reach(t, q + d) - d
    BY <2>2, <2>3, ValueAlike
  <2>5. \A c \in Closers :
          Closed(t, q + d, c) \in q + d .. b => Closed(u, q, c) = Closed(t, q + d, c) - d
    BY <2>2, <2>3, <2>4, MembersAlike
  <2> QED  BY <2>4, <2>5 DEF ReadsAlike
<1>3. \A q \in Wrong : \E j \in Wrong : q < j
  BY <1>2
<1>4. Wrong \in SUBSET (1 .. n + 1)
  OBVIOUS
<1> HIDE DEF Wrong
<1>5. Wrong = {}
  <2> HIDE DEF n
  <2> QED  BY <1>1, <1>3, <1>4, NoLast
<1>6. \A q \in 1 .. n : q \in 1 .. n + 1 /\ q <= n
  BY <1>1
<1> QED  BY <1>5, <1>6 DEF Wrong

-----------------------------------------------------------------------------
(* JsonRecovery: the loops over the openers of a text. *)

\* Find is the first opener from i on, and 0 if there is none.
LEMMA FindIs ==
  ASSUME NEW t \in Seq(Json!Tokens), NEW o, NEW i \in 1 .. Len(t) + 1
  PROVE  \/ Json!Find(t, o, i) = 0 /\ \A j \in i .. Len(t) : t[j] # o
         \/ /\ Json!Find(t, o, i) \in i .. Len(t) /\ t[Json!Find(t, o, i)] = o
            /\ \A j \in i .. Len(t) : t[j] = o => Json!Find(t, o, i) <= j
<1> DEFINE s == {j \in i .. Len(t) : t[j] = o}
<1>1. s \in SUBSET (Nat \ {0})
  BY TextIs
<1>2. Json!Find(t, o, i) = Json!First(s)
  BY DEF Json!Find
<1>3. CASE s = {}
  <2>1. \A j \in i .. Len(t) : t[j] # o
    BY <1>3
  <2> HIDE DEF s
  <2>2. Json!First(s) = 0
    BY <1>1, <1>3, FirstFound
  <2> QED  BY <1>2, <2>1, <2>2
<1>4. CASE s # {}
  <2> HIDE DEF s
  <2>1. Json!First(s) \in s /\ \A k \in s : Json!First(s) <= k
    BY <1>1, <1>4, FirstFound
  <2> QED  BY <1>2, <2>1 DEF s
<1> QED  BY <1>3, <1>4

\* What FindMatchingClose finds is a closer, at i or later; 0 says that there is none.
LEMMA MatchingCloseIs ==
  ASSUME NEW t \in Seq(Json!Tokens), NEW o, NEW i \in 1 .. Len(t)
  PROVE  \/ Json!FindMatchingClose(t, i, o) = 0
         \/ /\ Json!FindMatchingClose(t, i, o) \in i .. Len(t)
            /\ t[Json!FindMatchingClose(t, i, o)] = Json!Closer(o)
<1> DEFINE s == {k \in i .. Len(t) : t[k] = Json!Closer(o) /\ Json!Bare(t, i, k)
                                     /\ Json!Depth(t, i, k, o) = 0}
<1>1. s \in SUBSET (Nat \ {0})
  BY TextIs
<1>2. Json!FindMatchingClose(t, i, o) = Json!First(s)
  BY DEF Json!FindMatchingClose
<1>3. \A k \in s : k \in i .. Len(t) /\ t[k] = Json!Closer(o)
  OBVIOUS
<1> HIDE DEF s
<1>4. Json!First(s) = 0 \/ Json!First(s) \in s
  BY <1>1, FirstFound
<1> QED  BY <1>2, <1>3, <1>4

\* The loop of _first_unclosed, from every position.
Unclosed(t, o) ==
  CHOOSE f : f = [i \in 1 .. Len(t) + 1 |-> Json!UnclosedFrom(t, o, i, f)]

\* One round of it: no opener, one that is not closed, or on past where it is closed.
UnclosedRound(t, o, i, f, u) ==
  \/ u = 0 /\ \A j \in i .. Len(t) : t[j] # o
  \/ \E at \in i .. Len(t) : /\ t[at] = o /\ u = at /\ at = Json!Find(t, o, i)
                             /\ Json!FindMatchingClose(t, at, o) = 0
  \/ \E at \in i .. Len(t) : \E e \in at .. Len(t) :
       /\ t[at] = o /\ at = Json!Find(t, o, i)
       /\ e = Json!FindMatchingClose(t, at, o)
       /\ u = f[e + 1]

LEMMA UnclosedCases ==
  ASSUME NEW t \in Seq(Json!Tokens), NEW o, NEW i \in 1 .. Len(t) + 1, NEW f
  PROVE  UnclosedRound(t, o, i, f, Json!UnclosedFrom(t, o, i, f))
<1>1. PICK at : at = Json!Find(t, o, i)
  OBVIOUS
<1>2. PICK e : e = Json!FindMatchingClose(t, at, o)
  OBVIOUS
<1>3. Json!UnclosedFrom(t, o, i, f) = IF at = 0 THEN 0 ELSE IF e = 0 THEN at ELSE f[e + 1]
  BY <1>1, <1>2 DEF Json!UnclosedFrom
<1>4. \/ at = 0 /\ \A j \in i .. Len(t) : t[j] # o
      \/ at \in i .. Len(t) /\ t[at] = o
  BY <1>1, FindIs
<1>5. CASE at = 0 /\ \A j \in i .. Len(t) : t[j] # o
  BY <1>3, <1>5 DEF UnclosedRound
<1>6. CASE at \in i .. Len(t) /\ t[at] = o
  <2>1. at \in 1 .. Len(t) /\ at # 0
    BY <1>6, TextIs
  <2>2. e = 0 \/ (e \in at .. Len(t) /\ e # 0)
    BY <1>2, <2>1, MatchingCloseIs
  <2> QED  BY <1>1, <1>2, <1>3, <1>6, <2>1, <2>2 DEF UnclosedRound
<1> QED  BY <1>4, <1>5, <1>6

\* FirstUnclosed, round by round: each is one of UnclosedFrom, on what the later ones give.
LEMMA UnclosedIs ==
  ASSUME NEW t \in Seq(Json!Tokens), NEW o
  PROVE  /\ Json!FirstUnclosed(t, o) = Unclosed(t, o)[1]
         /\ \A i \in 1 .. Len(t) + 1 :
              Unclosed(t, o)[i] = Json!UnclosedFrom(t, o, i, Unclosed(t, o))
<1> DEFINE n == Len(t)
           D == 1 .. n + 1
           S == 0 .. n
           G == [a \in D \X [D -> S] |-> Json!UnclosedFrom(t, o, a[1], a[2])]
<1>1. n \in Nat /\ S # {} /\ 0 \in S
  <2>1. n \in Nat
    BY TextIs
  <2>2. 0 \in S
    BY <2>1
  <2> QED  BY <2>1, <2>2
<1>2. ASSUME NEW i \in D, NEW f \in [D -> S] PROVE Json!UnclosedFrom(t, o, i, f) \in S
  <2>1. ASSUME NEW at \in i .. n PROVE at \in S
    BY <1>1
  <2>2. ASSUME NEW at \in i .. n, NEW e \in at .. n PROVE f[e + 1] \in S
    <3>1. e + 1 \in D
      BY <1>1
    <3> QED  BY <3>1
  <2>3. UnclosedRound(t, o, i, f, Json!UnclosedFrom(t, o, i, f))
    BY UnclosedCases
  <2> QED  BY <1>1, <2>1, <2>2, <2>3 DEF UnclosedRound
<1>3. ASSUME NEW i \in D, NEW f, NEW g, \A j \in i + 1 .. n + 1 : f[j] = g[j]
      PROVE  Json!UnclosedFrom(t, o, i, f) = Json!UnclosedFrom(t, o, i, g)
  <2>1. PICK at : at = Json!Find(t, o, i)
    OBVIOUS
  <2>2. PICK e : e = Json!FindMatchingClose(t, at, o)
    OBVIOUS
  <2>3. at # 0 /\ e # 0 => f[e + 1] = g[e + 1]
    <3> SUFFICES ASSUME at # 0, e # 0
                 PROVE  f[e + 1] = g[e + 1]
      OBVIOUS
    <3>1. at \in i .. n
      BY <2>1, FindIs
    <3>2. at \in 1 .. n
      BY <1>1, <3>1
    <3>3. e \in at .. n
      BY <2>2, <3>2, MatchingCloseIs
    <3>4. e + 1 \in i + 1 .. n + 1
      BY <1>1, <3>1, <3>3
    <3> QED  BY <1>3, <3>4
  <2> QED  BY <2>1, <2>2, <2>3 DEF Json!UnclosedFrom
<1>4. \A i \in D : \A f \in [D -> S] : G[<<i, f>>] = Json!UnclosedFrom(t, o, i, f)
  OBVIOUS
<1> HIDE DEF G, S
<1>5. \E f \in [D -> S] : \A i \in D : f[i] = G[<<i, f>>]
  <2>1. \A i \in D : \A f \in [D -> S] : G[<<i, f>>] \in S
    BY <1>2, <1>4
  <2>2. \A i \in D : \A f, g \in [D -> S] :
          (\A j \in i + 1 .. n + 1 : f[j] = g[j]) => G[<<i, f>>] = G[<<i, g>>]
    <3> SUFFICES ASSUME NEW i \in D, NEW f \in [D -> S], NEW g \in [D -> S],
                        \A j \in i + 1 .. n + 1 : f[j] = g[j]
                 PROVE  G[<<i, f>>] = G[<<i, g>>]
      OBVIOUS
    <3>1. Json!UnclosedFrom(t, o, i, f) = Json!UnclosedFrom(t, o, i, g)
      BY <1>3
    <3> QED  BY <1>4, <3>1
  <2>3. Downward(n, S, G)
    BY <1>1, <2>1, <2>2 DEF Downward
  <2>4. n \in Nat
    BY <1>1
  <2> HIDE DEF n
  <2> QED  BY <2>3, <2>4, DownwardFunction
<1>6. \E f : f = [i \in 1 .. Len(t) + 1 |-> Json!UnclosedFrom(t, o, i, f)]
  BY <1>4, <1>5
<1> DEFINE h == Unclosed(t, o)
<1>7. h = [i \in 1 .. Len(t) + 1 |-> Json!UnclosedFrom(t, o, i, h)]
  BY <1>6 DEF Unclosed
<1>8. Json!FirstUnclosed(t, o) = h[1]
  BY DEF Json!FirstUnclosed, Unclosed
<1> HIDE DEF h
<1>9. \A i \in 1 .. Len(t) + 1 : h[i] = Json!UnclosedFrom(t, o, i, h)
  BY <1>7
<1> QED  BY <1>8, <1>9 DEF h

\* What it finds is an opener.
LEMMA UnclosedIsOpener ==
  ASSUME NEW t \in Seq(Json!Tokens), NEW o
  PROVE  \A i \in 1 .. Len(t) + 1 :
           \/ Unclosed(t, o)[i] = 0
           \/ (Unclosed(t, o)[i] \in i .. Len(t) /\ t[Unclosed(t, o)[i]] = o)
<1> DEFINE h == Unclosed(t, o)
           Right(i) == h[i] = 0 \/ (h[i] \in i .. Len(t) /\ t[h[i]] = o)
           Wrong == {i \in 1 .. Len(t) + 1 : ~Right(i)}
<1>1. Len(t) \in Nat
  BY TextIs
<1> HIDE DEF h
<1>2. ASSUME NEW i \in Wrong, \A j \in Wrong : ~(i < j)
      PROVE  FALSE
  <2>1. h[i] = Json!UnclosedFrom(t, o, i, h)
    BY UnclosedIs DEF h
  <2>2. \/ h[i] = 0 \/ (\E at \in i .. Len(t) : t[at] = o /\ h[i] = at)
        \/ (\E at \in i .. Len(t) : \E e \in at .. Len(t) : h[i] = h[e + 1])
    <3>1. UnclosedRound(t, o, i, h, Json!UnclosedFrom(t, o, i, h))
      BY UnclosedCases
    <3> QED  BY <2>1, <3>1 DEF UnclosedRound
  <2>3. PICK at \in i .. Len(t) : \E e \in at .. Len(t) : h[i] = h[e + 1]
    BY <2>2
  <2>4. PICK e \in at .. Len(t) : h[i] = h[e + 1]
    BY <2>3
  <2>5. e + 1 \in 1 .. Len(t) + 1 /\ i < e + 1
    BY <1>1, <2>3, <2>4
  <2>6. Right(e + 1)
    BY <1>2, <2>5
  <2>7. e + 1 .. Len(t) \subseteq i .. Len(t)
    BY <1>1, <2>3, <2>4
  <2> QED  BY <2>4, <2>6, <2>7
<1>3. \A i \in Wrong : \E j \in Wrong : i < j
  BY <1>2
<1>4. Wrong \in SUBSET (1 .. Len(t) + 1)
  OBVIOUS
<1> HIDE DEF Wrong
<1>5. Wrong = {}
  BY <1>1, <1>3, <1>4, NoLast
<1> QED  BY <1>5 DEF Wrong, h

\* The loop of _scan_candidates, from every position and number of failures.
Scanned(t, o) ==
  CHOOSE f : f = [i \in 1 .. Len(t) + 1 |->
                    [failures \in 0 .. MaxScanFailures |-> Json!ScanFrom(t, o, i, failures, f)]]

Span(t, at, e) == [at |-> at, value |-> Json!Cut(t, at, e)]

\* One round of it: it ends, goes on with a failure more, or with a span more.
ScanRound(t, o, i, m, f, r) ==
  \/ r = {}
  \/ /\ m < MaxScanFailures
     /\ \E at \in i .. Len(t) : r = f[at + 1][m + 1]
  \/ \E at \in i .. Len(t) : \E e \in at .. Len(t) :
       /\ t[at] = o /\ t[e] = Json!Closer(o)
       /\ r = {Span(t, at, e)} \/ r = {Span(t, at, e)} \cup f[e + 1][m]

LEMMA ScanCases ==
  ASSUME NEW t \in Seq(Json!Tokens), NEW o, NEW i \in 1 .. Len(t) + 1,
         NEW m \in 0 .. MaxScanFailures, NEW f
  PROVE  ScanRound(t, o, i, m, f, Json!ScanFrom(t, o, i, m, f))
<1>1. PICK at : at = Json!Find(t, o, i)
  OBVIOUS
<1>2. PICK e : e = Json!FindMatchingClose(t, at, o)
  OBVIOUS
<1>3. PICK r : r = Json!ScanFrom(t, o, i, m, f)
  OBVIOUS
<1>4. CASE at = 0 \/ at >= Json!PayloadCut(t) \/ m >= MaxScanFailures
  BY <1>1, <1>4 DEF Json!ScanFrom, ScanRound
<1>5. CASE ~(at = 0 \/ at >= Json!PayloadCut(t) \/ m >= MaxScanFailures)
  <2>1. at \in i .. Len(t) /\ t[at] = o
    BY <1>1, <1>5, FindIs
  <2>2. m < MaxScanFailures
    BY <1>5, JsonAssumption DEF Json!ScanAssumption
  <2>3. at \in 1 .. Len(t)
    BY <2>1, TextIs
  <2>4. e = 0 \/ (e \in at .. Len(t) /\ e # 0 /\ t[e] = Json!Closer(o))
    BY <1>2, <2>3, MatchingCloseIs
  <2>5. CASE e = 0
    <3>1. r = f[at + 1][m + 1]
      BY <1>1, <1>2, <1>3, <1>5, <2>5 DEF Json!ScanFrom
    <3> QED  BY <1>3, <2>1, <2>2, <3>1 DEF ScanRound
  <2>6. CASE e \in at .. Len(t) /\ e # 0 /\ t[e] = Json!Closer(o)
    <3>1. CASE ~Json!Parses(Json!Cut(t, at, e))
      <4>1. r = f[e + 1][m + 1]
        BY <1>1, <1>2, <1>3, <1>5, <2>6, <3>1 DEF Json!ScanFrom
      <4>2. e \in i .. Len(t)
        BY <2>1, <2>6, TextIs
      <4> QED  BY <1>3, <2>2, <4>1, <4>2 DEF ScanRound
    <3>2. CASE Json!Parses(Json!Cut(t, at, e))
      <4>1. r = {Span(t, at, e)} \/ r = {Span(t, at, e)} \cup f[e + 1][m]
        BY <1>1, <1>2, <1>3, <1>5, <2>6, <3>2 DEF Json!ScanFrom, Span
      <4> QED  BY <1>3, <2>1, <2>6, <4>1 DEF ScanRound
    <3> QED  BY <3>1, <3>2
  <2> QED  BY <2>4, <2>5, <2>6
<1> QED  BY <1>4, <1>5

LEMMA ScanLater ==
  ASSUME NEW t \in Seq(Json!Tokens), NEW o, NEW i \in 1 .. Len(t) + 1,
         NEW m \in 0 .. MaxScanFailures, NEW f, NEW g,
         \A j \in i + 1 .. Len(t) + 1 : f[j] = g[j]
  PROVE  Json!ScanFrom(t, o, i, m, f) = Json!ScanFrom(t, o, i, m, g)
<1>1. PICK at : at = Json!Find(t, o, i)
  OBVIOUS
<1>2. PICK e : e = Json!FindMatchingClose(t, at, o)
  OBVIOUS
<1>3. at # 0 => f[at + 1] = g[at + 1] /\ (e # 0 => f[e + 1] = g[e + 1])
  <2> SUFFICES ASSUME at # 0
               PROVE  f[at + 1] = g[at + 1] /\ (e # 0 => f[e + 1] = g[e + 1])
    OBVIOUS
  <2>1. at \in i .. Len(t)
    BY <1>1, FindIs
  <2>2. at \in 1 .. Len(t) /\ at + 1 \in i + 1 .. Len(t) + 1
    BY <2>1, TextIs
  <2>3. e = 0 \/ e \in at .. Len(t)
    BY <1>2, <2>2, MatchingCloseIs
  <2>4. e # 0 => e + 1 \in i + 1 .. Len(t) + 1
    BY <2>1, <2>3, TextIs
  <2> QED  BY <2>2, <2>4
<1> QED  BY <1>1, <1>2, <1>3 DEF Json!ScanFrom

\* The scan, round by round: each is one of ScanFrom, on what the later ones find.
LEMMA ScanIs ==
  ASSUME NEW t \in Seq(Json!Tokens), NEW o
  PROVE  /\ Json!Scan(t, o) = Scanned(t, o)[1][0]
         /\ \A i \in 1 .. Len(t) + 1 : \A m \in 0 .. MaxScanFailures :
              Scanned(t, o)[i][m] = Json!ScanFrom(t, o, i, m, Scanned(t, o))
<1> DEFINE n == Len(t)
           D == 1 .. n + 1
           F == 0 .. MaxScanFailures
           Spans == {Span(t, a[1], a[2]) : a \in (1 .. n) \X (1 .. n)}
           S == [F -> SUBSET Spans]
           From(i, f) == [m \in F |-> Json!ScanFrom(t, o, i, m, f)]
           G == [a \in D \X [D -> S] |-> From(a[1], a[2])]
<1>1. n \in Nat
  BY TextIs
<1>2. S # {}
  <2>1. [m \in F |-> {}] \in S
    OBVIOUS
  <2> QED  BY <2>1
<1>3. ASSUME NEW i \in D, NEW f \in [D -> S] PROVE From(i, f) \in S
  <2>1. ASSUME NEW m \in F PROVE Json!ScanFrom(t, o, i, m, f) \in SUBSET Spans
    <3>1. ScanRound(t, o, i, m, f, Json!ScanFrom(t, o, i, m, f))
      BY ScanCases
    <3>2. ASSUME NEW at \in i .. n, m < MaxScanFailures PROVE f[at + 1][m + 1] \in SUBSET Spans
      <4>1. at + 1 \in D
        BY <1>1
      <4>2. m + 1 \in F
        BY <3>2, JsonAssumption DEF Json!ScanAssumption
      <4> HIDE DEF D, F, Spans
      <4> QED  BY <4>1, <4>2
    <3>3. ASSUME NEW at \in i .. n, NEW e \in at .. n
          PROVE  f[e + 1][m] \in SUBSET Spans /\ Span(t, at, e) \in Spans
      <4>1. e + 1 \in D /\ <<at, e>> \in (1 .. n) \X (1 .. n)
        BY <1>1
      <4>2. Span(t, at, e) \in Spans
        BY <4>1
      <4> HIDE DEF D, F, Spans
      <4> QED  BY <4>1, <4>2
    <3> HIDE DEF Spans
    <3> QED  BY <3>1, <3>2, <3>3 DEF ScanRound
  <2> HIDE DEF Spans, F
  <2> QED  BY <2>1
<1>4. ASSUME NEW i \in D, NEW f, NEW g, \A j \in i + 1 .. n + 1 : f[j] = g[j]
      PROVE  From(i, f) = From(i, g)
  <2>1. \A m \in F : Json!ScanFrom(t, o, i, m, f) = Json!ScanFrom(t, o, i, m, g)
    BY <1>4, ScanLater
  <2> QED  BY <2>1
<1>5. \A i \in D : \A f \in [D -> S] : G[<<i, f>>] = From(i, f)
  OBVIOUS
<1> HIDE DEF G, S, From
<1>6. \E f \in [D -> S] : \A i \in D : f[i] = G[<<i, f>>]
  <2>1. \A i \in D : \A f \in [D -> S] : G[<<i, f>>] \in S
    BY <1>3, <1>5
  <2>2. \A i \in D : \A f, g \in [D -> S] :
          (\A j \in i + 1 .. n + 1 : f[j] = g[j]) => G[<<i, f>>] = G[<<i, g>>]
    <3> SUFFICES ASSUME NEW i \in D, NEW f \in [D -> S], NEW g \in [D -> S],
                        \A j \in i + 1 .. n + 1 : f[j] = g[j]
                 PROVE  G[<<i, f>>] = G[<<i, g>>]
      OBVIOUS
    <3>1. From(i, f) = From(i, g)
      BY <1>4
    <3> QED  BY <1>5, <3>1
  <2>3. Downward(n, S, G)
    BY <1>2, <2>1, <2>2 DEF Downward
  <2> HIDE DEF n
  <2> QED  BY <1>1, <2>3, DownwardFunction
<1>7. \E f : f = [i \in D |-> From(i, f)]
  BY <1>5, <1>6
<1> DEFINE h == Scanned(t, o)
<1>8. h = [i \in D |-> From(i, h)]
  BY <1>7 DEF Scanned, From
<1>9. Json!Scan(t, o) = h[1][0]
  BY DEF Json!Scan, Scanned
<1> HIDE DEF h
<1>10. \A i \in D : \A m \in F : h[i][m] = Json!ScanFrom(t, o, i, m, h)
  <2>1. \A i \in D : h[i] = From(i, h)
    BY <1>8
  <2> QED  BY <2>1 DEF From
<1> QED  BY <1>9, <1>10 DEF h

\* What is found are spans from an opener to a closer.
SpanOf(t, o, r) ==
  \E at \in 1 .. Len(t) : \E e \in at .. Len(t) :
    t[at] = o /\ t[e] = Json!Closer(o) /\ r = Span(t, at, e)

\* Every span that the scan finds is one.
LEMMA ScanFindsSpans ==
  ASSUME NEW t \in Seq(Json!Tokens), NEW o
  PROVE  \A r \in Json!Scan(t, o) : SpanOf(t, o, r)
<1> DEFINE h == Scanned(t, o)
           Right(i) == \A m \in 0 .. MaxScanFailures : \A r \in h[i][m] : SpanOf(t, o, r)
           Wrong == {i \in 1 .. Len(t) + 1 : ~Right(i)}
<1>1. Len(t) \in Nat /\ MaxScanFailures \in Nat
  BY TextIs, JsonAssumption DEF Json!ScanAssumption
<1> HIDE DEF h
<1>2. ASSUME NEW i \in Wrong, \A j \in Wrong : ~(i < j)
      PROVE  FALSE
  <2>1. PICK m \in 0 .. MaxScanFailures : ~\A r \in h[i][m] : SpanOf(t, o, r)
    OBVIOUS
  <2>2. h[i][m] = Json!ScanFrom(t, o, i, m, h)
    BY ScanIs DEF h
  <2>3. ScanRound(t, o, i, m, h, h[i][m])
    BY <2>2, ScanCases
  <2>4. \A j \in i .. Len(t) : j + 1 \in 1 .. Len(t) + 1 /\ i < j + 1
    BY <1>1
  <2>5. \A j \in i .. Len(t) : Right(j + 1)
    BY <1>2, <2>4
  <2>6. ASSUME NEW at \in i .. Len(t), m < MaxScanFailures, h[i][m] = h[at + 1][m + 1]
        PROVE  FALSE
    <3>1. m + 1 \in 0 .. MaxScanFailures
      BY <1>1, <2>6
    <3> QED  BY <2>1, <2>5, <2>6, <3>1
  <2>7. ASSUME NEW at \in i .. Len(t), NEW e \in at .. Len(t), t[at] = o, t[e] = Json!Closer(o),
               h[i][m] = {Span(t, at, e)} \/ h[i][m] = {Span(t, at, e)} \cup h[e + 1][m]
        PROVE  FALSE
    <3>1. e \in i .. Len(t) /\ at \in 1 .. Len(t)
      BY <1>1
    <3>2. SpanOf(t, o, Span(t, at, e))
      BY <2>7, <3>1 DEF SpanOf
    <3> QED  BY <2>1, <2>5, <2>7, <3>1, <3>2
  <2> QED  BY <2>1, <2>3, <2>6, <2>7 DEF ScanRound
<1>3. \A i \in Wrong : \E j \in Wrong : i < j
  BY <1>2
<1>4. Wrong \in SUBSET (1 .. Len(t) + 1)
  OBVIOUS
<1> HIDE DEF Wrong
<1>5. Wrong = {}
  BY <1>1, <1>3, <1>4, NoLast
<1>6. 1 \in 1 .. Len(t) + 1 /\ 0 \in 0 .. MaxScanFailures
  BY <1>1
<1>7. Json!Scan(t, o) = h[1][0]
  BY ScanIs DEF h
<1> QED  BY <1>5, <1>6, <1>7 DEF Wrong

-----------------------------------------------------------------------------
(* JsonRecovery: replies. *)

LEMMA CutIs ==
  ASSUME NEW t \in Seq(Json!Tokens), NEW i \in 1 .. Len(t), NEW e \in i .. Len(t)
  PROVE  /\ Json!Cut(t, i, e) \in Seq(Json!Tokens) /\ Len(Json!Cut(t, i, e)) = e - i + 1
         /\ Shifted(t, Json!Cut(t, i, e), i - 1, e)
<1>1. Len(t) \in Nat /\ i \in Nat /\ e \in Nat /\ i <= e + 1 /\ i <= e
  BY TextIs
<1>2. Json!Cut(t, i, e) = SubSeq(t, i, e)
  BY DEF Json!Cut
<1>3. /\ SubSeq(t, i, e) \in Seq(Json!Tokens) /\ Len(SubSeq(t, i, e)) = e - i + 1
      /\ \A k \in 1 .. e - i + 1 : SubSeq(t, i, e)[k] = t[i + k - 1]
  <2>1. \A k \in i .. e : t[k] \in Json!Tokens
    BY <1>1, TextIs
  <2> QED  BY <1>1, <2>1
<1>4. \A k \in 1 .. e - (i - 1) : k \in 1 .. e - i + 1 /\ i + k - 1 = k + (i - 1)
  BY <1>1
<1>5. i - 1 \in Nat /\ e \in i - 1 .. Len(t) /\ e - (i - 1) <= e - i + 1
  BY <1>1
<1> QED  BY <1>2, <1>3, <1>4, <1>5 DEF Shifted

\* A value that is cut out of a text parses.
LEMMA CutParses ==
  ASSUME NEW t \in Seq(Json!Tokens), NEW i \in 1 .. Len(t), Json!Reach(t, i) \in i .. Len(t)
  PROVE  Json!Parses(Json!Cut(t, i, Json!Reach(t, i)))
<1>1. PICK e : e = Json!Reach(t, i)
  OBVIOUS
<1>2. PICK u : u = Json!Cut(t, i, e)
  OBVIOUS
<1>3. e \in i .. Len(t) /\ Len(t) \in Nat
  BY <1>1, TextIs
<1>4. u \in Seq(Json!Tokens) /\ Len(u) = e - i + 1 /\ Shifted(t, u, i - 1, e)
  BY <1>2, <1>3, CutIs
<1>5. 1 \in 1 .. e - (i - 1) /\ 1 + (i - 1) = i /\ e - (i - 1) = e - i + 1 /\ Len(u) # 0
  BY <1>3, <1>4
<1>6. ReadsAlike(t, u, i - 1, e, 1)
  BY <1>4, <1>5, EveryReading
<1>7. Json!Reach(t, i) \in i .. e
  BY <1>1, <1>3
<1>8. Json!Reach(u, 1) = e - (i - 1)
  BY <1>1, <1>5, <1>6, <1>7 DEF ReadsAlike
<1>9. u # <<>>
  BY <1>5
<1> QED  BY <1>1, <1>2, <1>4, <1>5, <1>8, <1>9 DEF Json!Parses

\* Words, and an opener.
LEMMA ReplyIs ==
  ASSUME NEW t \in Seq(Json!Tokens), Json!IsReply(t), NEW s, s = Json!Start(t)
  PROVE  s \in 1 .. Len(t) /\ t[s] \in Openers /\ \A k \in 1 .. s - 1 : t[k] = "x"
<1> DEFINE c == {k \in 1 .. Len(t) : t[k] # "x"}
<1>1. c \in SUBSET (Nat \ {0})
  BY TextIs
<1>2. s = Json!First(c) /\ s # 0 /\ t[s] \in Openers
  BY DEF Json!Start, Json!IsReply, Openers
<1>3. s \in c /\ \A k \in c : s <= k
  <2> HIDE DEF c
  <2> QED  BY <1>1, <1>2, FirstFound
<1>4. s \in 1 .. Len(t)
  BY <1>3
<1>5. ASSUME NEW k \in 1 .. s - 1 PROVE t[k] = "x"
  <2>1. k \in 1 .. Len(t) /\ ~(s <= k)
    BY <1>4, TextIs
  <2> QED  BY <1>3, <2>1
<1> QED  BY <1>2, <1>4, <1>5

\* No opener comes before the one a reply starts with.
LEMMA NothingBefore ==
  ASSUME NEW t \in Seq(Json!Tokens), Json!IsReply(t), NEW s, s = Json!Start(t)
  PROVE  /\ \A k \in 1 .. Len(t) : t[k] # "x" => s <= k
         /\ \A o \in Openers : \/ Json!Find(t, o, 1) = 0 /\ o # t[s]
                               \/ Json!Find(t, o, 1) \in s .. Len(t) /\ t[Json!Find(t, o, 1)] = o
         /\ Json!Find(t, t[s], 1) = s
<1>1. s \in 1 .. Len(t) /\ t[s] \in Openers /\ \A k \in 1 .. s - 1 : t[k] = "x"
  BY ReplyIs
<1>2. Len(t) \in Nat /\ 1 \in 1 .. Len(t) + 1
  BY TextIs
<1>3. ASSUME NEW k \in 1 .. Len(t), t[k] # "x" PROVE s <= k
  <2>1. k \notin 1 .. s - 1
    BY <1>1, <1>3
  <2> QED  BY <1>1, <2>1
<1>4. ASSUME NEW o \in Openers
      PROVE  \/ Json!Find(t, o, 1) = 0 /\ o # t[s]
             \/ Json!Find(t, o, 1) \in s .. Len(t) /\ t[Json!Find(t, o, 1)] = o
  <2>1. CASE Json!Find(t, o, 1) = 0 /\ \A j \in 1 .. Len(t) : t[j] # o
    BY <1>1, <2>1
  <2>2. CASE Json!Find(t, o, 1) \in 1 .. Len(t) /\ t[Json!Find(t, o, 1)] = o
    <3>1. o # "x"
      BY DEF Openers
    <3>2. s <= Json!Find(t, o, 1)
      BY <1>3, <2>2, <3>1
    <3> QED  BY <1>1, <1>2, <2>2, <3>2
  <2> QED  BY <1>2, <2>1, <2>2, FindIs
<1>5. Json!Find(t, t[s], 1) = s
  <2>1. Json!Find(t, t[s], 1) \in s .. Len(t)
    BY <1>1, <1>4
  <2>2. 0 \notin s .. Len(t)
    BY <1>1
  <2>3. Json!Find(t, t[s], 1) <= s
    BY <1>1, <1>2, <2>1, <2>2, FindIs
  <2> QED  BY <1>1, <1>2, <2>1, <2>3
<1> QED  BY <1>3, <1>4, <1>5

\* The cut is at the first unclosed opener, or past the text.
LEMMA PayloadCutIs ==
  ASSUME NEW t \in Seq(Json!Tokens)
  PROVE  /\ \/ Json!PayloadCut(t) = Len(t) + 1
            \/ \E o \in Openers : Json!FirstUnclosed(t, o) # 0
                                  /\ Json!PayloadCut(t) = Json!FirstUnclosed(t, o)
         /\ \A o \in Openers : Json!FirstUnclosed(t, o) # 0 =>
              Json!PayloadCut(t) <= Json!FirstUnclosed(t, o)
<1> DEFINE c == {Len(t) + 1} \cup
                  ({Json!FirstUnclosed(t, "object"), Json!FirstUnclosed(t, "array")} \ {0})
<1>1. Len(t) \in Nat /\ 1 \in 1 .. Len(t) + 1
  BY TextIs
<1>2. \A o : Json!FirstUnclosed(t, o) = 0 \/ Json!FirstUnclosed(t, o) \in 1 .. Len(t)
  <2> TAKE o
  <2>1. Unclosed(t, o)[1] = 0 \/ Unclosed(t, o)[1] \in 1 .. Len(t)
    BY <1>1, UnclosedIsOpener
  <2> QED  BY <2>1, UnclosedIs
<1>3. c \in SUBSET (Nat \ {0}) /\ c # {}
  BY <1>1, <1>2
<1>4. Json!PayloadCut(t) = Json!Min(c)
  BY DEF Json!PayloadCut
<1>5. Json!Min(c) \in c /\ \A k \in c : Json!Min(c) <= k
  <2> HIDE DEF c
  <2>1. /\ c # {} => Json!First(c) \in c /\ Json!First(c) = Json!Min(c)
        /\ \A k \in c : Json!First(c) <= k
    BY <1>3, FirstFound
  <2> QED  BY <1>3, <2>1
<1>6. Openers = {"array", "object"}
  BY DEF Openers
<1> QED  BY <1>4, <1>5, <1>6

\* Only words parse that are not the reply in one piece.
LEMMA ParsesWhole ==
  ASSUME NEW t \in Seq(Json!Tokens), Json!IsReply(t), Json!Parses(t)
  PROVE  Json!Start(t) = 1 /\ Json!Reach(t, 1) = Len(t)
<1>1. PICK s : s = Json!Start(t)
  OBVIOUS
<1>2. s \in 1 .. Len(t) /\ \A k \in 1 .. s - 1 : t[k] = "x"
  BY <1>1, ReplyIs
<1>3. Json!Reach(t, 1) = Len(t)
  BY DEF Json!Parses
<1>4. s = 1
  <2> SUFFICES ASSUME s # 1
               PROVE  FALSE
    OBVIOUS
  <2>1. 1 \in 1 .. s - 1 /\ 1 \in 1 .. Len(t)
    BY <1>2, TextIs
  <2>2. Json!Reach(t, 1) = 1
    BY <1>2, <2>1, ReachCases
  <2> QED  BY <1>2, <1>3, <2>2, TextIs
<1> QED  BY <1>1, <1>3, <1>4

\* The payload of a reply in one piece is never cut off before its end.
LEMMA WholeIsPayload ==
  ASSUME NEW t \in Seq(Json!Tokens), Json!Whole(t), NEW s, s = Json!Start(t),
         NEW e, e = Json!Reach(t, s)
  PROVE  /\ e \in s .. Len(t) /\ \A k \in e + 1 .. Len(t) : t[k] = "x"
         /\ Json!FindMatchingClose(t, s, t[s]) = e
         /\ s < Json!PayloadCut(t)
<1>1. /\ s \in 1 .. Len(t) /\ t[s] \in Openers /\ \A k \in 1 .. s - 1 : t[k] = "x"
      /\ Json!IsReply(t)
  BY ReplyIs DEF Json!Whole
<1>2. Len(t) \in Nat /\ 1 \in 1 .. Len(t) + 1 /\ s \in 1 .. Len(t) + 1 /\ s <= Len(t)
  BY <1>1, TextIs
<1>3. e \in 1 .. Len(t) /\ \A k \in e + 1 .. Len(t) : t[k] = "x"
  BY DEF Json!Whole
<1>4. e \in s .. Len(t)
  <2>1. ValueTo(t, s, e)
    BY <1>1, <1>2, EveryValue DEF ValueOk
  <2> QED  BY <1>2, <1>3, <2>1 DEF ValueTo
<1>5. Json!FindMatchingClose(t, s, t[s]) = e
  BY <1>1, <1>4, MatchingClose
<1>6. ASSUME NEW o \in Openers, Json!FirstUnclosed(t, o) # 0
      PROVE  s < Json!FirstUnclosed(t, o)
  <2>1. PICK h : h = Unclosed(t, o)
    OBVIOUS
  <2>2. /\ Json!FirstUnclosed(t, o) = h[1]
        /\ \A i \in 1 .. Len(t) + 1 : UnclosedRound(t, o, i, h, h[i])
    BY <2>1, UnclosedIs, UnclosedCases
  <2>3. h[1] \in 1 .. Len(t) /\ t[h[1]] = o
    BY <1>2, <1>6, <2>1, <2>2, UnclosedIsOpener
  <2>4. s <= h[1]
    <3>1. o # "x"
      BY DEF Openers
    <3> QED  BY <1>1, <2>3, <3>1, NothingBefore
  <2>5. h[1] # s
    <3> SUFFICES ASSUME h[1] = s
                 PROVE  FALSE
      OBVIOUS
    <3>1. o = t[s] /\ Json!Find(t, o, 1) = s
      BY <1>1, <2>3, NothingBefore
    <3>2. UnclosedRound(t, o, 1, h, s)
      BY <1>2, <2>2
    <3>3. e # 0
      BY <1>3
    <3>4. h[e + 1] = s
      BY <1>1, <1>5, <3>1, <3>2, <3>3 DEF UnclosedRound
    <3>5. e + 1 \in 1 .. Len(t) + 1
      BY <1>2, <1>3
    <3>6. h[e + 1] = 0 \/ h[e + 1] \in e + 1 .. Len(t)
      BY <2>1, <3>5, UnclosedIsOpener
    <3>7. s # 0 /\ s \notin e + 1 .. Len(t)
      BY <1>1, <1>2, <1>4
    <3> QED  BY <3>4, <3>6, <3>7
  <2> QED  BY <1>1, <2>2, <2>3, <2>4, <2>5
<1>7. s < Json!PayloadCut(t)
  BY <1>2, <1>6, PayloadCutIs
<1> QED  BY <1>3, <1>4, <1>5, <1>7

\* It is what the scan for its opener finds.
LEMMA WholeIsFound ==
  ASSUME NEW t \in Seq(Json!Tokens), Json!Whole(t), NEW s, s = Json!Start(t),
         NEW e, e = Json!Reach(t, s)
  PROVE  Json!Scan(t, t[s]) = {Span(t, s, e)}
<1>1. s \in 1 .. Len(t) /\ t[s] \in Openers /\ Json!IsReply(t)
  BY ReplyIs DEF Json!Whole
<1>2. /\ e \in s .. Len(t) /\ \A k \in e + 1 .. Len(t) : t[k] = "x"
      /\ Json!FindMatchingClose(t, s, t[s]) = e
      /\ s < Json!PayloadCut(t)
  BY WholeIsPayload
<1>3. /\ Len(t) \in Nat /\ 1 \in 1 .. Len(t) + 1 /\ e + 1 \in 1 .. Len(t) + 1 /\ e # 0 /\ s # 0
      /\ 0 \in 0 .. MaxScanFailures /\ ~(0 >= MaxScanFailures)
  BY <1>1, <1>2, TextIs, JsonAssumption DEF Json!ScanAssumption
<1>4. Json!Find(t, t[s], 1) = s
  BY <1>1, NothingBefore
<1>5. Json!Parses(Json!Cut(t, s, e))
  BY <1>1, <1>2, CutParses
<1>6. Json!PayloadCut(t) \in Nat
  <2>1. \A o \in Openers : Json!FirstUnclosed(t, o) # 0 => Json!FirstUnclosed(t, o) \in Nat
    <3> TAKE o \in Openers
    <3>1. Unclosed(t, o)[1] = 0 \/ Unclosed(t, o)[1] \in 1 .. Len(t)
      BY <1>3, UnclosedIsOpener
    <3> QED  BY <1>3, <3>1, UnclosedIs
  <2> QED  BY <1>3, <2>1, PayloadCutIs
<1>7. ~(s >= Json!PayloadCut(t))
  BY <1>1, <1>2, <1>6
<1>8. PICK h : h = Scanned(t, t[s])
  OBVIOUS
<1>9. /\ Json!Scan(t, t[s]) = Json!ScanFrom(t, t[s], 1, 0, h)
      /\ h[e + 1][0] = Json!ScanFrom(t, t[s], e + 1, 0, h)
  BY <1>3, <1>8, ScanIs
<1>10. h[e + 1][0] = {}
  <2>1. t[s] # "x"
    BY <1>1 DEF Openers
  <2>2. Json!Find(t, t[s], e + 1) = 0
    BY <1>2, <1>3, <2>1, FindIs
  <2> QED  BY <1>9, <2>2 DEF Json!ScanFrom
<1>11. Json!ScanFrom(t, t[s], 1, 0, h) = {Span(t, s, e)} \cup {}
  BY <1>2, <1>3, <1>4, <1>5, <1>7, <1>10 DEF Json!ScanFrom, Span
<1> QED  BY <1>9, <1>11

\* What the other scan finds lies inside of it.
LEMMA OthersNested ==
  ASSUME NEW t \in Seq(Json!Tokens), Json!Whole(t), NEW s, s = Json!Start(t),
         NEW e, e = Json!Reach(t, s), NEW o \in Openers, o # t[s], NEW r \in Json!Scan(t, o)
  PROVE  /\ r.at \in Nat /\ s < r.at /\ Len(r.value) \in Nat
         /\ r.at + Len(r.value) <= e + 1
<1>1. s \in 1 .. Len(t) /\ t[s] \in Openers /\ Json!IsReply(t)
  BY ReplyIs DEF Json!Whole
<1>2. e \in s .. Len(t) /\ \A k \in e + 1 .. Len(t) : t[k] = "x"
  BY WholeIsPayload
<1>3. SpanOf(t, o, r)
  BY ScanFindsSpans
<1> PICK at \in 1 .. Len(t) : \E f \in at .. Len(t) :
      t[at] = o /\ t[f] = Json!Closer(o) /\ r = Span(t, at, f)
  BY <1>3 DEF SpanOf
<1>4. PICK f \in at .. Len(t) : t[at] = o /\ t[f] = Json!Closer(o) /\ r = Span(t, at, f)
  OBVIOUS
<1>5. o # "x" /\ Json!Closer(o) # "x"
  BY DEF Openers, Json!Closer
<1>6. s <= at /\ s # at
  BY <1>1, <1>4, <1>5, NothingBefore
<1>7. f <= e
  <2>1. f \notin e + 1 .. Len(t)
    BY <1>2, <1>4, <1>5
  <2> QED  BY <1>1, <1>2, <1>4, <2>1, TextIs
<1>8. r.at = at /\ Len(r.value) = f - at + 1
  BY <1>4, CutIs DEF Span
<1> QED  BY <1>1, <1>2, <1>4, <1>6, <1>7, <1>8

\* A span that contains all others is what is left of them.
LEMMA OutermostIsBest ==
  ASSUME NEW v, NEW others, v.at \in Nat, Len(v.value) \in Nat,
         \A r \in others : /\ r.at \in Nat /\ Len(r.value) \in Nat /\ v.at < r.at
                           /\ r.at + Len(r.value) <= v.at + Len(v.value)
  PROVE  Json!Best(Json!DropNested({v} \cup others)) = v.value
<1>1. v \notin others
  OBVIOUS
<1>2. Json!DropNested({v} \cup others) = {v}
  <2>1. v \in Json!DropNested({v} \cup others)
    BY DEF Json!DropNested
  <2>2. ASSUME NEW r \in others PROVE r \notin Json!DropNested({v} \cup others)
    <3>1. v \in ({v} \cup others) \ {r} /\ v.at <= r.at
      BY <1>1
    <3> QED  BY <3>1 DEF Json!DropNested
  <2> QED  BY <2>1, <2>2 DEF Json!DropNested
<1>3. Json!Outranks(v, v)
  BY DEF Json!Outranks
<1>4. (CHOOSE c \in {v} : \A r \in {v} : Json!Outranks(c, r)) = v
  BY <1>3
<1> QED  BY <1>2, <1>4 DEF Json!Best

\* So a reply in one piece is extracted as it is.
LEMMA WholeIsExtracted ==
  ASSUME NEW t \in Seq(Json!Tokens), Json!Whole(t)
  PROVE  Json!ExtractJson(t) = Json!Answer(t)
<1>1. PICK s : s = Json!Start(t)
  OBVIOUS
<1>2. PICK e : e = Json!Reach(t, s)
  OBVIOUS
<1>3. s \in 1 .. Len(t) /\ t[s] \in Openers /\ Json!IsReply(t)
  BY <1>1, ReplyIs DEF Json!Whole
<1>4. e \in s .. Len(t)
  BY <1>1, <1>2, WholeIsPayload
<1>5. Json!Answer(t) = Json!Cut(t, s, e)
  BY <1>1, <1>2 DEF Json!Answer
<1>6. CASE Json!Parses(t)
  <2>1. s = 1 /\ e = Len(t)
    BY <1>1, <1>2, <1>3, <1>6, ParsesWhole
  <2>2. Json!Cut(t, 1, Len(t)) = t
    BY DEF Json!Cut
  <2> QED  BY <1>5, <1>6, <2>1, <2>2 DEF Json!ExtractJson
<1>7. CASE ~Json!Parses(t)
  <2>1. Json!Scan(t, t[s]) = {Span(t, s, e)}
    BY <1>1, <1>2, WholeIsFound
  <2>2. PICK o \in Openers : o # t[s] /\ Openers = {o, t[s]}
    BY <1>3 DEF Openers
  <2>3. Json!Scan(t, "object") \cup Json!Scan(t, "array") = {Span(t, s, e)} \cup Json!Scan(t, o)
    BY <2>1, <2>2 DEF Openers
  <2>4. /\ Span(t, s, e).at = s /\ Span(t, s, e).value = Json!Cut(t, s, e)
        /\ Len(Json!Cut(t, s, e)) = e - s + 1 /\ s \in Nat
    BY <1>3, <1>4, CutIs DEF Span
  <2>5. s + (e - s + 1) = e + 1 /\ e - s + 1 \in Nat
    BY <1>3, <1>4
  <2>6. \A r \in Json!Scan(t, o) : /\ r.at \in Nat /\ Len(r.value) \in Nat /\ s < r.at
                                   /\ r.at + Len(r.value) <= e + 1
    BY <1>1, <1>2, <2>2, OthersNested
  <2>7. PICK v : v = Span(t, s, e)
    OBVIOUS
  <2>8. Json!Best(Json!DropNested({v} \cup Json!Scan(t, o))) = v.value
    BY <2>4, <2>5, <2>6, <2>7, OutermostIsBest
  <2> QED  BY <1>5, <1>7, <2>3, <2>4, <2>7, <2>8 DEF Json!ExtractJson
<1> QED  BY <1>6, <1>7

\* The first unclosed opener is that of a reply that was cut off.
LEMMA CutOffUnclosed ==
  ASSUME NEW t \in Seq(Json!Tokens), Json!CutOff(t), NEW s, s = Json!Start(t)
  PROVE  Json!FirstUnclosed(t, t[s]) = s
<1>1. s \in 1 .. Len(t) /\ t[s] \in Openers /\ Json!IsReply(t) /\ Json!Reach(t, s) = Len(t) + 1
  BY ReplyIs DEF Json!CutOff
<1>2. Len(t) \in Nat /\ 1 \in 1 .. Len(t) + 1
  BY TextIs
<1>3. Json!FindMatchingClose(t, s, t[s]) = 0
  BY <1>1, MatchingClose
<1>4. Json!Find(t, t[s], 1) = s /\ s # 0
  BY <1>1, NothingBefore
<1>5. Json!FirstUnclosed(t, t[s]) = Json!UnclosedFrom(t, t[s], 1, Unclosed(t, t[s]))
  BY <1>2, UnclosedIs
<1> QED  BY <1>3, <1>4, <1>5 DEF Json!UnclosedFrom

\* Where a reply was cut off nothing counts as payload, so that recovery has its turn.
LEMMA CutOffIsLeft ==
  ASSUME NEW t \in Seq(Json!Tokens), Json!CutOff(t)
  PROVE  Json!ExtractJson(t) = <<>>
<1>1. PICK s : s = Json!Start(t)
  OBVIOUS
<1>2. s \in 1 .. Len(t) /\ t[s] \in Openers /\ Json!IsReply(t) /\ Json!Reach(t, s) = Len(t) + 1
  BY <1>1, ReplyIs DEF Json!CutOff
<1>3. /\ Len(t) \in Nat /\ 1 \in 1 .. Len(t) + 1
      /\ MaxScanFailures \in Nat /\ 0 \in 0 .. MaxScanFailures
  BY TextIs, JsonAssumption DEF Json!ScanAssumption
<1>4. ~Json!Parses(t)
  BY <1>1, <1>2, <1>3, ParsesWhole
<1>5. Json!FirstUnclosed(t, t[s]) = s
  BY <1>1, CutOffUnclosed
<1>6. Json!PayloadCut(t) \in Nat /\ Json!PayloadCut(t) <= s
  <2>1. \A o \in Openers : Json!FirstUnclosed(t, o) # 0 => Json!FirstUnclosed(t, o) \in Nat
    <3> TAKE o \in Openers
    <3>1. Unclosed(t, o)[1] = 0 \/ Unclosed(t, o)[1] \in 1 .. Len(t)
      BY <1>3, UnclosedIsOpener
    <3> QED  BY <1>3, <3>1, UnclosedIs
  <2>2. s # 0
    BY <1>2
  <2> QED  BY <1>2, <1>3, <1>5, <2>1, <2>2, PayloadCutIs
<1>7. ASSUME NEW o \in Openers PROVE Json!Scan(t, o) = {}
  <2>1. Json!Scan(t, o) = Json!ScanFrom(t, o, 1, 0, Scanned(t, o))
    BY <1>3, ScanIs
  <2>2. Json!Find(t, o, 1) = 0 \/ Json!Find(t, o, 1) \in s .. Len(t)
    BY <1>1, <1>2, NothingBefore
  <2>3. Json!Find(t, o, 1) = 0 \/ Json!Find(t, o, 1) >= Json!PayloadCut(t)
    BY <1>2, <1>3, <1>6, <2>2
  <2> QED  BY <2>1, <2>3 DEF Json!ScanFrom
<1>8. Json!Scan(t, "object") \cup Json!Scan(t, "array") = {}
  BY <1>7 DEF Openers
<1>9. Json!DropNested({}) = {} /\ Json!Best({}) = <<>>
  BY DEF Json!DropNested, Json!Best
<1> QED  BY <1>4, <1>8, <1>9 DEF Json!ExtractJson

-----------------------------------------------------------------------------
(* JsonRecovery: what is recovered of an array of objects. *)

\* Where elements start is where the first does, and those after the comma that follows it.
LEMMA StartsIs ==
  ASSUME NEW t \in Seq(Json!Tokens)
  PROVE  \A i \in 1 .. Len(t) + 1 : Json!Starts(t)[i] = Json!StartsFrom(t, i, Json!Starts(t))
<1> DEFINE n == Len(t)
           D == 1 .. n + 1
           S == SUBSET (1 .. n)
           G == [a \in D \X [D -> S] |-> Json!StartsFrom(t, a[1], a[2])]
<1>1. n \in Nat
  BY TextIs
<1>2. S # {}
  OBVIOUS
<1>3. ASSUME NEW i \in D, NEW f \in [D -> S] PROVE Json!StartsFrom(t, i, f) \in S
  <2>1. CASE i > Len(t)
    BY <2>1 DEF Json!StartsFrom
  <2>2. CASE ~(i > Len(t))
    <3>1. i \in 1 .. n
      BY <1>1, <2>2
    <3>2. \A e \in i .. Len(t) - 1 : f[e + 2] \in S
      <4> TAKE e \in i .. Len(t) - 1
      <4>1. e + 2 \in D
        BY <1>1
      <4> HIDE DEF D
      <4> QED  BY <4>1
    <3> QED  BY <2>2, <3>1, <3>2 DEF Json!StartsFrom
  <2> QED  BY <2>1, <2>2
<1>4. ASSUME NEW i \in D, NEW f, NEW g, \A j \in i + 1 .. n + 1 : f[j] = g[j]
      PROVE  Json!StartsFrom(t, i, f) = Json!StartsFrom(t, i, g)
  <2>1. \A e \in i .. Len(t) - 1 : f[e + 2] = g[e + 2]
    <3> TAKE e \in i .. Len(t) - 1
    <3>1. e + 2 \in i + 1 .. n + 1
      BY <1>1
    <3> QED  BY <1>4, <3>1
  <2> QED  BY <2>1 DEF Json!StartsFrom
<1>5. \A i \in D : \A f \in [D -> S] : G[<<i, f>>] = Json!StartsFrom(t, i, f)
  OBVIOUS
<1> HIDE DEF G, S
<1>6. \E f \in [D -> S] : \A i \in D : f[i] = G[<<i, f>>]
  <2>1. \A i \in D : \A f \in [D -> S] : G[<<i, f>>] \in S
    BY <1>3, <1>5
  <2>2. \A i \in D : \A f, g \in [D -> S] :
          (\A j \in i + 1 .. n + 1 : f[j] = g[j]) => G[<<i, f>>] = G[<<i, g>>]
    <3> SUFFICES ASSUME NEW i \in D, NEW f \in [D -> S], NEW g \in [D -> S],
                        \A j \in i + 1 .. n + 1 : f[j] = g[j]
                 PROVE  G[<<i, f>>] = G[<<i, g>>]
      OBVIOUS
    <3>1. Json!StartsFrom(t, i, f) = Json!StartsFrom(t, i, g)
      BY <1>4
    <3> QED  BY <1>5, <3>1
  <2>3. Downward(n, S, G)
    BY <1>2, <2>1, <2>2 DEF Downward
  <2> HIDE DEF n
  <2> QED  BY <1>1, <2>3, DownwardFunction
<1>7. \E f : f = [i \in 1 .. Len(t) + 1 |-> Json!StartsFrom(t, i, f)]
  BY <1>5, <1>6
<1> DEFINE h == Json!Starts(t)
<1>8. h = [i \in 1 .. Len(t) + 1 |-> Json!StartsFrom(t, i, h)]
  BY <1>7 DEF Json!Starts
<1> HIDE DEF h
<1>9. \A i \in 1 .. Len(t) + 1 : h[i] = Json!StartsFrom(t, i, h)
  BY <1>8
<1> QED  BY <1>9 DEF h

\* The objects from p on: the first of them, and those after the comma.
LEMMA ObjectsCases ==
  ASSUME NEW t \in Seq(Json!Tokens), NEW p \in 1 .. Len(t), Json!ObjectsOnly(t, p),
         NEW e, e = Json!Reach(t, p)
  PROVE  /\ t[p] = "object"
         /\ e \in p .. Len(t) - 1 => Json!ObjectsOnly(t, e + 2)
         /\ Json!ObjectEnds(t, p) =
              ({e} \cap 1 .. Len(t)) \cup
                (IF e \in p .. Len(t) - 1 THEN Json!ObjectEnds(t, e + 2) ELSE {})
<1>1. ~(p > Len(t)) /\ p \in 1 .. Len(t) + 1
  BY TextIs
<1>2. Json!Starts(t)[p] = {p} \cup IF e \in p .. Len(t) - 1 THEN Json!Starts(t)[e + 2] ELSE {}
  BY <1>1, StartsIs DEF Json!StartsFrom
<1>3. t[p] = "object" /\ (e \in p .. Len(t) - 1 => Json!ObjectsOnly(t, e + 2))
  BY <1>2 DEF Json!ObjectsOnly
<1>4. CASE e \in p .. Len(t) - 1
  <2>1. Json!Starts(t)[p] = {p} \cup Json!Starts(t)[e + 2]
    BY <1>2, <1>4
  <2> QED  BY <1>3, <1>4, <2>1 DEF Json!ObjectEnds
<1>5. CASE e \notin p .. Len(t) - 1
  <2>1. Json!Starts(t)[p] = {p}
    BY <1>2, <1>5
  <2> QED  BY <1>3, <1>5, <2>1 DEF Json!ObjectEnds
<1> QED  BY <1>4, <1>5

LEMMA NoObjectsPast ==
  ASSUME NEW t \in Seq(Json!Tokens)
  PROVE  Json!ObjectEnds(t, Len(t) + 1) = {}
<1>1. Len(t) + 1 > Len(t) /\ Len(t) + 1 \in 1 .. Len(t) + 1
  BY TextIs
<1>2. Json!Starts(t)[Len(t) + 1] = {}
  BY <1>1, StartsIs DEF Json!StartsFrom
<1> QED  BY <1>2 DEF Json!ObjectEnds

\* Where braces are balanced from i on, as recover_truncated_json tells the objects.
Closes(t, i) == {k \in i .. Len(t) : /\ t[k] = "endobject" /\ Json!Bare(t, i, k)
                                     /\ Json!Depth(t, i, k, "object") = 0}

\* An array that is not closed goes on with a comma, or is cut off.
LEMMA NotClosed ==
  ASSUME NEW t \in Seq(Json!Tokens), NEW p \in 1 .. Len(t),
         Closed(t, p, "endarray") = Len(t) + 1, NEW e, e = Json!Reach(t, p)
  PROVE  /\ ValueTo(t, p, e) /\ e \in p .. Len(t) + 1
         /\ e \in p .. Len(t) - 1 => /\ t[e + 1] = "comma"
                                     /\ Closed(t, e + 2, "endarray") = Len(t) + 1
<1>1. Len(t) \in Nat /\ p \in 1 .. Len(t) + 1 /\ p <= Len(t) /\ "endarray" \in Closers
  BY TextIs DEF Closers
<1>2. ValueTo(t, p, e)
  BY <1>1, EveryValue DEF ValueOk
<1>3. e \in {0} \cup p .. Len(t) + 1
  BY <1>2 DEF ValueTo
<1>4. e # 0
  <2> SUFFICES ASSUME e = 0
               PROVE  FALSE
    OBVIOUS
  <2>1. e \notin p .. Len(t) - 1
    BY <1>1
  <2>2. Closed(t, p, "endarray") = 0
    BY <1>1, <2>1, ClosedCases
  <2> QED  BY <1>1, <2>2
<1>5. ASSUME e \in p .. Len(t) - 1
      PROVE  t[e + 1] = "comma" /\ Closed(t, e + 2, "endarray") = Len(t) + 1
  <2>1. Closed(t, p, "endarray") =
          IF t[e + 1] = "endarray" THEN e + 1
          ELSE IF t[e + 1] = "comma" THEN Closed(t, e + 2, "endarray") ELSE 0
    BY <1>1, <1>5, ClosedCases
  <2>2. e + 1 # Len(t) + 1 /\ 0 # Len(t) + 1
    BY <1>1, <1>5
  <2> QED  BY <2>1, <2>2
<1> QED  BY <1>2, <1>3, <1>4, <1>5

LEMMA ClosesFrom ==
  ASSUME NEW t \in Seq(Json!Tokens), NEW p \in 1 .. Len(t),
         Closed(t, p, "endarray") = Len(t) + 1, t[p] = "object", NEW e, e = Json!Reach(t, p)
  PROVE  Closes(t, p) = ({e} \cap 1 .. Len(t)) \cup
                          (IF e \in p .. Len(t) - 1 THEN Closes(t, e + 2) ELSE {})
<1>1. Len(t) \in Nat /\ p \in Nat /\ p <= Len(t)
  BY TextIs
<1>2. /\ ValueTo(t, p, e) /\ e \in p .. Len(t) + 1
      /\ e \in p .. Len(t) - 1 => t[e + 1] = "comma"
  BY NotClosed
<1>3. t[p] \in Openers /\ "object" \in Openers /\ Json!Closer("object") = "endobject"
  BY DEF Openers, Json!Closer
<1>4. e \in Nat /\ e # 0
  BY <1>1, <1>2
<1>5. ASSUME NEW k \in p .. Len(t), k < e PROVE k \notin Closes(t, p)
  <2>1. Json!Depth(t, p, k, "object") >= 1
    BY <1>1, <1>2, <1>3, <1>4, <1>5 DEF ValueTo
  <2> QED  BY <2>1 DEF Closes
<1>6. ASSUME e \in p .. Len(t) PROVE e \in Closes(t, p)
  BY <1>1, <1>2, <1>3, <1>6 DEF ValueTo, Closes
<1>7. ASSUME e \in p .. Len(t) - 1, NEW k \in p .. Len(t), e < k
      PROVE  k \in Closes(t, p) <=> k \in Closes(t, e + 2)
  <2>1. e \in p .. Len(t) /\ t[e + 1] = "comma"
    BY <1>1, <1>2, <1>7
  <2>2. Json!Bare(t, p, e + 1) /\ \A o \in Openers : Json!Depth(t, p, e, o) = 0
    BY <1>2, <2>1 DEF ValueTo
  <2>3. CASE k = e + 1
    <3>1. t[k] # "endobject" /\ k \notin e + 2 .. Len(t)
      BY <1>1, <1>4, <2>1, <2>3
    <3> QED  BY <3>1 DEF Closes
  <2>4. CASE k # e + 1
    <3>1. k \in e + 2 .. Len(t) /\ k \in e + 2 .. Len(t) + 1 /\ k \in e + 1 .. Len(t) + 1
      BY <1>1, <1>4, <1>7, <2>4
    <3>2. /\ Json!Bare(t, p, k) <=> Json!Bare(t, e + 2, k)
          /\ Json!Depth(t, p, k, "object") = Json!Depth(t, e + 2, k, "object")
      BY <1>3, <1>7, <2>1, <2>2, <3>1, AfterComma
    <3> QED  BY <3>1, <3>2 DEF Closes
  <2> QED  BY <2>3, <2>4
<1>8. CASE e \in p .. Len(t) - 1
  <2>1. ASSUME NEW k PROVE k \in Closes(t, p) <=> k = e \/ k \in Closes(t, e + 2)
    <3>1. k \in Closes(t, p) => k \in p .. Len(t)
      BY DEF Closes
    <3>2. k \in Closes(t, e + 2) => k \in p .. Len(t) /\ e < k
      BY <1>1, <1>4, <1>8 DEF Closes
    <3>3. e \in p .. Len(t)
      BY <1>1, <1>8
    <3>4. k \in p .. Len(t) => k < e \/ k = e \/ e < k
      BY <1>1, <1>4
    <3>5. ~(e < e)
      BY <1>4
    <3> QED  BY <1>4, <1>5, <1>6, <1>7, <1>8, <3>1, <3>2, <3>3, <3>4
  <2>2. e \in 1 .. Len(t)
    BY <1>1, <1>8
  <2>3. Closes(t, p) = {e} \cup Closes(t, e + 2)
    BY <2>1
  <2> QED  BY <1>8, <2>2, <2>3
<1>9. CASE e = Len(t)
  <2>1. \A k \in p .. Len(t) : k < e \/ k = e
    BY <1>1, <1>9
  <2>2. e \in p .. Len(t) /\ e \in 1 .. Len(t) /\ e \notin p .. Len(t) - 1
    BY <1>1, <1>9
  <2>3. Closes(t, p) = {e}
    <3>1. \A k \in Closes(t, p) : k \in p .. Len(t)
      BY DEF Closes
    <3> QED  BY <1>5, <1>6, <2>1, <2>2, <3>1
  <2> QED  BY <2>2, <2>3
<1>10. CASE e = Len(t) + 1
  <2>1. \A k \in p .. Len(t) : k < e
    BY <1>1, <1>10
  <2>2. e \notin 1 .. Len(t) /\ e \notin p .. Len(t) - 1
    BY <1>1, <1>10
  <2>3. Closes(t, p) = {}
    <3>1. \A k \in Closes(t, p) : k \in p .. Len(t)
      BY DEF Closes
    <3> QED  BY <1>5, <2>1, <3>1
  <2> QED  BY <2>2, <2>3
<1>11. e \in p .. Len(t) - 1 \/ e = Len(t) \/ e = Len(t) + 1
  BY <1>1, <1>2
<1> QED  BY <1>8, <1>9, <1>10, <1>11

\* So the braces tell the objects that arrived.
LEMMA ClosesAreEnds ==
  ASSUME NEW t \in Seq(Json!Tokens)
  PROVE  \A p \in 1 .. Len(t) + 1 :
           Closed(t, p, "endarray") = Len(t) + 1 /\ Json!ObjectsOnly(t, p) =>
             Closes(t, p) = Json!ObjectEnds(t, p)
<1> DEFINE Right(p) == Closed(t, p, "endarray") = Len(t) + 1 /\ Json!ObjectsOnly(t, p) =>
                         Closes(t, p) = Json!ObjectEnds(t, p)
           Wrong == {p \in 1 .. Len(t) + 1 : ~Right(p)}
<1>1. Len(t) \in Nat
  BY TextIs
<1>2. ASSUME NEW p \in Wrong, \A j \in Wrong : ~(p < j)
      PROVE  FALSE
  <2>1. CASE p = Len(t) + 1
    <3>1. Closes(t, p) = {}
      BY <1>1, <2>1 DEF Closes
    <3> QED  BY <2>1, <3>1, NoObjectsPast
  <2>2. CASE p # Len(t) + 1
    <3>1. p \in 1 .. Len(t)
      BY <1>1, <2>2
    <3>2. Closed(t, p, "endarray") = Len(t) + 1 /\ Json!ObjectsOnly(t, p)
      OBVIOUS
    <3>3. PICK e : e = Json!Reach(t, p)
      OBVIOUS
    <3>4. /\ t[p] = "object"
          /\ e \in p .. Len(t) - 1 => Json!ObjectsOnly(t, e + 2)
          /\ Json!ObjectEnds(t, p) =
               ({e} \cap 1 .. Len(t)) \cup
                 (IF e \in p .. Len(t) - 1 THEN Json!ObjectEnds(t, e + 2) ELSE {})
      BY <3>1, <3>2, <3>3, ObjectsCases
    <3>5. e \in p .. Len(t) - 1 => Closed(t, e + 2, "endarray") = Len(t) + 1
      BY <3>1, <3>2, <3>3, NotClosed
    <3>6. Closes(t, p) = ({e} \cap 1 .. Len(t)) \cup
                           (IF e \in p .. Len(t) - 1 THEN Closes(t, e + 2) ELSE {})
      BY <3>1, <3>2, <3>3, <3>4, ClosesFrom
    <3>7. e \in p .. Len(t) - 1 => e + 2 \in 1 .. Len(t) + 1 /\ p < e + 2
      BY <1>1, <3>1
    <3>8. e \in p .. Len(t) - 1 => Right(e + 2)
      BY <1>2, <3>7
    <3>9. Closes(t, p) = Json!ObjectEnds(t, p)
      BY <3>4, <3>5, <3>6, <3>8
    <3> QED  BY <3>9
  <2> QED  BY <2>1, <2>2
<1>3. \A p \in Wrong : \E j \in Wrong : p < j
  BY <1>2
<1>4. Wrong \in SUBSET (1 .. Len(t) + 1)
  OBVIOUS
<1> HIDE DEF Wrong
<1>5. Wrong = {}
  BY <1>1, <1>3, <1>4, NoLast
<1> QED  BY <1>5 DEF Wrong

\* u has what t has from d + 1 to m, and a bracket after it.
ClosedAt(t, u, d, m) ==
  /\ Shifted(t, u, d, m)
  /\ Len(u) = m - d + 1 /\ u[m - d + 1] = "endarray"

LastEnd(t, p, m) == m \in Json!ObjectEnds(t, p) /\ \A k \in Json!ObjectEnds(t, p) : k <= m

\* From p on there are objects, not closed, and the last that arrived ends at m.
ObjectsTo(t, d, m, p) ==
  /\ Closed(t, p, "endarray") = Len(t) + 1 /\ Json!ObjectsOnly(t, p)
  /\ LastEnd(t, p, m) /\ d < p

ClosedAfter(u, d, m, p) ==
  \A q \in Nat : q + d = p => Closed(u, q, "endarray") = m - d + 1

\* An array of objects is closed by a bracket after the last that arrived.
LEMMA ClosedAfterLast ==
  ASSUME NEW t, NEW u, NEW d, NEW m, ClosedAt(t, u, d, m)
  PROVE  \A p \in 1 .. Len(t) + 1 : ObjectsTo(t, d, m, p) => ClosedAfter(u, d, m, p)
<1> DEFINE Wrong == {p \in 1 .. Len(t) + 1 : ~(ObjectsTo(t, d, m, p) => ClosedAfter(u, d, m, p))}
<1>1. /\ t \in Seq(Json!Tokens) /\ u \in Seq(Json!Tokens) /\ Len(t) \in Nat /\ d \in Nat
      /\ m \in d .. Len(t) /\ Len(u) = m - d + 1 /\ u[m - d + 1] = "endarray"
      /\ Shifted(t, u, d, m) /\ \A k \in 1 .. m - d : u[k] = t[k + d]
  BY TextIs DEF ClosedAt, Shifted
<1>2. ASSUME NEW p \in Wrong, \A j \in Wrong : ~(p < j)
      PROVE  FALSE
  <2>1. ObjectsTo(t, d, m, p) /\ ~ClosedAfter(u, d, m, p)
    OBVIOUS
  <2>2. p \in 1 .. Len(t)
    <3>1. p # Len(t) + 1
      BY <1>1, <2>1, NoObjectsPast DEF ObjectsTo, LastEnd
    <3> QED  BY <1>1, <3>1
  <2>3. PICK e : e = Json!Reach(t, p)
    OBVIOUS
  <2>4. /\ t[p] = "object"
        /\ e \in p .. Len(t) - 1 => Json!ObjectsOnly(t, e + 2)
        /\ Json!ObjectEnds(t, p) =
             ({e} \cap 1 .. Len(t)) \cup
               (IF e \in p .. Len(t) - 1 THEN Json!ObjectEnds(t, e + 2) ELSE {})
    BY <1>1, <2>1, <2>2, <2>3, ObjectsCases DEF ObjectsTo
  <2>5. /\ e \in p .. Len(t) + 1
        /\ e \in p .. Len(t) - 1 => /\ t[e + 1] = "comma"
                                    /\ Closed(t, e + 2, "endarray") = Len(t) + 1
    BY <1>1, <2>1, <2>2, <2>3, NotClosed DEF ObjectsTo
  <2>6. e \in p .. Len(t) /\ e \in 1 .. Len(t)
    <3>1. Json!ObjectEnds(t, p) # {}
      BY <2>1 DEF ObjectsTo, LastEnd
    <3>2. e # Len(t) + 1
      <4> SUFFICES ASSUME e = Len(t) + 1
                   PROVE  FALSE
        OBVIOUS
      <4>1. e \notin 1 .. Len(t) /\ e \notin p .. Len(t) - 1
        BY <1>1
      <4> QED  BY <2>4, <3>1, <4>1
    <3>3. e \in Nat /\ p \in Nat /\ p <= e /\ e <= Len(t) + 1 /\ 1 <= p
      BY <1>1, <2>2, <2>5
    <3> QED  BY <1>1, <3>2, <3>3
  <2>7. e <= m
    BY <2>1, <2>4, <2>6 DEF ObjectsTo, LastEnd
  <2>8. PICK q \in Nat : q + d = p /\ Closed(u, q, "endarray") # m - d + 1
    BY <2>1 DEF ClosedAfter
  <2>9. PICK w \in Nat : w = e - d
    BY <1>1, <2>1, <2>2, <2>6 DEF ObjectsTo
  <2>10. /\ q \in 1 .. m - d /\ q + d = p /\ e \in p .. m /\ w \in q .. Len(u) - 1 /\ q \in 1 .. Len(u)
         /\ w + d = e /\ p \in Nat /\ e \in Nat /\ m \in Nat
    <3>1. p \in Nat /\ e \in Nat /\ m \in Nat /\ d < p /\ p <= e /\ e <= m
      BY <1>1, <2>1, <2>2, <2>6, <2>7 DEF ObjectsTo
    <3>2. q + d = p /\ w + d = e /\ 1 <= q /\ q <= w /\ w <= m - d /\ w <= Len(u) - 1
      BY <1>1, <2>8, <2>9, <3>1
    <3> QED  BY <1>1, <3>1, <3>2
  <2>11. Json!Reach(u, q) = w
    <3>1. ReadsAlike(t, u, d, m, q)
      BY <1>1, <2>10, EveryReading
    <3> QED  BY <2>3, <2>9, <2>10, <3>1 DEF ReadsAlike
  <2>12. Closed(u, q, "endarray") = IF u[w + 1] = "endarray" THEN w + 1
                                    ELSE IF u[w + 1] = "comma" THEN Closed(u, w + 2, "endarray") ELSE 0
    <3>1. "endarray" \in Closers
      BY DEF Closers
    <3>2. /\ u \in Seq(Json!Tokens) /\ q \in 1 .. Len(u) /\ w = Json!Reach(u, q)
          /\ w \in q .. Len(u) - 1
      BY <1>1, <2>10, <2>11
    <3> QED  BY <3>1, <3>2, ClosedCases
  <2>13. CASE m = e
    <3>1. w + 1 = m - d + 1
      BY <2>9, <2>13
    <3>2. Closed(u, q, "endarray") = m - d + 1
      BY <1>1, <2>12, <3>1
    <3> QED  BY <2>8, <3>2
  <2>14. CASE m # e
    <3>1. e \in p .. Len(t) - 1
      BY <2>1, <2>4, <2>14 DEF ObjectsTo, LastEnd
    <3>2. LastEnd(t, e + 2, m)
      BY <2>1, <2>4, <2>14, <3>1 DEF ObjectsTo, LastEnd
    <3>3. e + 2 \in 1 .. Len(t) + 1 /\ p < e + 2 /\ d < e + 2
      BY <1>1, <2>1, <2>10, <3>1 DEF ObjectsTo
    <3>4. ObjectsTo(t, d, m, e + 2)
      BY <2>4, <2>5, <3>1, <3>2, <3>3 DEF ObjectsTo
    <3>5. ClosedAfter(u, d, m, e + 2)
      BY <1>2, <3>3, <3>4
    <3>6. w + 2 \in Nat /\ w + 2 + d = e + 2
      BY <1>1, <2>9, <2>10
    <3>7. u[w + 1] = "comma"
      <4>1. e < m
        BY <2>7, <2>10, <2>14
      <4>2. w + 1 \in 1 .. m - d /\ w + 1 + d = e + 1
        BY <1>1, <2>9, <2>10, <4>1
      <4> QED  BY <1>1, <2>5, <3>1, <4>2
    <3>8. Closed(u, w + 2, "endarray") = m - d + 1
      BY <3>5, <3>6 DEF ClosedAfter
    <3>9. Closed(u, q, "endarray") = m - d + 1
      BY <2>12, <3>7, <3>8
    <3> QED  BY <2>8, <3>9
  <2> QED  BY <2>13, <2>14
<1>3. \A p \in Wrong : \E j \in Wrong : p < j
  BY <1>2
<1>4. Wrong \in SUBSET (1 .. Len(t) + 1)
  OBVIOUS
<1> HIDE DEF Wrong
<1>5. Wrong = {}
  BY <1>1, <1>3, <1>4, NoLast
<1> QED  BY <1>5 DEF Wrong

LEMMA GreatestIs ==
  ASSUME NEW n \in Nat, NEW c \in SUBSET (1 .. n + 1), c # {}
  PROVE  Json!Max(c) \in c /\ \A k \in c : k <= Json!Max(c)
<1>1. \E m \in c : \A k \in c : m >= k
  <2> SUFFICES ASSUME ~\E m \in c : \A k \in c : m >= k
               PROVE  FALSE
    OBVIOUS
  <2>1. \A m \in c : \E k \in c : m < k
    OBVIOUS
  <2> QED  BY <2>1, NoLast
<1>2. Json!Max(c) \in c /\ \A k \in c : Json!Max(c) >= k
  BY <1>1 DEF Json!Max
<1>3. \A k \in c : k \in Nat
  OBVIOUS
<1> QED  BY <1>2, <1>3

\* So recovery has the objects of a cut array that arrived in whole, and nothing else.
LEMMA ObjectsAreRecovered ==
  ASSUME NEW t \in Seq(Json!Tokens), Json!CutOff(t), NEW s, s = Json!Start(t), t[s] = "array",
         Json!ObjectsOnly(t, s + 1), NEW ends, ends = Json!ObjectEnds(t, s + 1)
  PROVE  Json!RecoverTruncated(t) =
           IF ends = {} THEN <<>> ELSE Append(Json!Cut(t, s, Json!Max(ends)), "endarray")
<1>1. s \in 1 .. Len(t) /\ t[s] \in Openers /\ Json!IsReply(t) /\ Json!Reach(t, s) = Len(t) + 1
  BY ReplyIs DEF Json!CutOff
<1>2. Len(t) \in Nat /\ s \in Nat /\ s + 1 \in 1 .. Len(t) + 1 /\ s # 0 /\ Json!Closer("array") = "endarray"
  BY <1>1, TextIs DEF Json!Closer
<1>3. Json!FirstUnclosed(t, "array") = s
  BY <1>1, CutOffUnclosed
<1>4. Closed(t, s + 1, "endarray") = Len(t) + 1
  <2>1. Len(t) + 1 # s + 1 \/ ~(s < Len(t))
    BY <1>1, <1>2
  <2> QED  BY <1>1, <1>2, <2>1, ReachCases
<1>5. ends = Closes(t, s + 1)
  BY <1>2, <1>4, ClosesAreEnds
<1>6. PICK m : m = Json!Max(ends)
  OBVIOUS
<1>7. PICK u : u = Append(Json!Cut(t, s, m), "endarray")
  OBVIOUS
<1>8. Json!RecoverTruncated(t) = IF ends = {} THEN <<>> ELSE IF Json!Parses(u) THEN u ELSE <<>>
  BY <1>2, <1>3, <1>5, <1>6, <1>7 DEF Json!RecoverTruncated, Closes
<1>9. CASE ends = {}
  BY <1>8, <1>9
<1>10. CASE ends # {}
  <2>1. ends \in SUBSET (1 .. Len(t) + 1) /\ \A k \in ends : k \in s + 1 .. Len(t)
    BY <1>2, <1>5 DEF Closes
  <2>2. m \in ends /\ \A k \in ends : k <= m
    BY <1>2, <1>6, <1>10, <2>1, GreatestIs
  <2>3. m \in s + 1 .. Len(t) /\ m \in s .. Len(t) /\ m \in Nat /\ s - 1 \in Nat
    BY <1>1, <1>2, <2>1, <2>2
  <2>4. PICK c : c = Json!Cut(t, s, m)
    OBVIOUS
  <2>5. c \in Seq(Json!Tokens) /\ Len(c) = m - s + 1 /\ Shifted(t, c, s - 1, m)
    BY <1>1, <2>3, <2>4, CutIs
  <2>6. /\ u \in Seq(Json!Tokens) /\ Len(u) = m - s + 2 /\ u[m - s + 2] = "endarray"
        /\ \A k \in 1 .. m - s + 1 : u[k] = c[k]
    <3>1. "endarray" \in Json!Tokens /\ Len(c) + 1 = m - s + 2
      BY <1>2, <2>3, <2>5 DEF Json!Tokens
    <3>2. /\ u \in Seq(Json!Tokens) /\ Len(u) = Len(c) + 1 /\ u[Len(c) + 1] = "endarray"
          /\ \A k \in 1 .. Len(c) : u[k] = c[k]
      BY <1>7, <2>4, <2>5, <3>1
    <3> QED  BY <2>5, <3>1, <3>2
  <2>7. PICK d \in Nat : d = s - 1
    BY <2>3
  <2>8. /\ m - d = m - s + 1 /\ m - d + 1 = m - s + 2 /\ m \in d .. Len(t) /\ m - d <= Len(u)
        /\ s + 1 - d = 2 /\ d < s + 1
    <3>1. s \in Int /\ m \in Int /\ d \in Int /\ d = s - 1 /\ s <= m /\ m <= Len(t)
      BY <1>2, <2>3, <2>7
    <3>2. m - d = m - s + 1 /\ m - d + 1 = m - s + 2 /\ s + 1 - d = 2 /\ d < s + 1 /\ d <= m
      BY <3>1
    <3>3. m - d <= Len(u)
      BY <2>6, <3>1
    <3> QED  BY <1>2, <3>1, <3>2, <3>3
  <2>9. ClosedAt(t, u, d, m)
    <3>1. \A k \in 1 .. m - d : u[k] = t[k + d]
      BY <2>5, <2>6, <2>7, <2>8 DEF Shifted
    <3> QED  BY <2>6, <2>7, <2>8, <3>1 DEF ClosedAt, Shifted
  <2>10. ObjectsTo(t, d, m, s + 1)
    BY <1>4, <2>2, <2>8 DEF ObjectsTo, LastEnd
  <2>11. Closed(u, 2, "endarray") = Len(u)
    <3>1. ClosedAfter(u, d, m, s + 1)
      BY <1>2, <2>9, <2>10, ClosedAfterLast
    <3>2. 2 + d = s + 1
      BY <1>2, <2>7
    <3>3. Closed(u, 2, "endarray") = m - d + 1
      BY <3>1, <3>2 DEF ClosedAfter
    <3> QED  BY <2>6, <2>8, <3>3
  <2>12. u[1] = "array" /\ u[2] = "object" /\ Len(u) >= 3
    <3>1. 1 \in 1 .. m - d /\ 2 \in 1 .. m - d /\ 1 + d = s /\ 2 + d = s + 1 /\ m - s + 2 >= 3
      <4>1. s \in Int /\ m \in Int /\ d \in Int /\ d = s - 1 /\ s + 1 <= m
        BY <1>2, <2>3, <2>7
      <4> QED  BY <4>1
    <3>2. u[1] = t[s] /\ u[2] = t[s + 1]
      BY <2>9, <3>1 DEF ClosedAt, Shifted
    <3>3. s + 1 \in 1 .. Len(t)
      BY <1>2, <2>3
    <3>4. t[s + 1] = "object"
      BY <3>3, ObjectsCases
    <3> QED  BY <2>6, <3>1, <3>2, <3>4
  <2>13. Json!Reach(u, 1) = Len(u)
    <3>1. 1 \in 1 .. Len(u) /\ 1 + 1 = 2 /\ u[1] \in Openers /\ u[2] # Json!Closer(u[1])
      BY <1>2, <2>6, <2>12 DEF Openers
    <3>2. Json!Reach(u, 1) = Closed(u, 1 + 1, Json!Closer(u[1]))
      BY <2>6, <3>1, ReachCases
    <3> QED  BY <1>2, <2>11, <2>12, <3>1, <3>2
  <2>14. u # <<>>
    BY <2>12
  <2>15. Json!Parses(u)
    BY <2>13, <2>14 DEF Json!Parses
  <2> QED  BY <1>6, <1>7, <1>8, <1>10, <2>15
<1> QED  BY <1>9, <1>10

-----------------------------------------------------------------------------
(* The text of a reply. *)

TextTyped == text \in Seq(Json!Tokens)

\* RepliesAreRead: of every text, whatever its length, a reply in one piece is extracted
\* as it is, nothing is of one that was cut off, and recovery finds the objects that arrived.
LEMMA EveryTextIsRead ==
  ASSUME TextTyped
  PROVE  Json!RepliesAreRead
<1>1. text \in Seq(Json!Tokens)
  BY DEF TextTyped
<1>2. Json!Whole(text) => Json!ExtractJson(text) = Json!Answer(text)
  BY <1>1, WholeIsExtracted
<1>3. Json!CutOff(text) => Json!ExtractJson(text) = <<>>
  BY <1>1, CutOffIsLeft
<1>4. ASSUME Json!CutOff(text), text[Json!Start(text)] = "array",
             Json!ObjectsOnly(text, Json!Start(text) + 1)
      PROVE  LET ends == Json!ObjectEnds(text, Json!Start(text) + 1)
             IN  Json!RecoverTruncated(text) =
                   IF ends = {} THEN <<>>
                   ELSE Append(Json!Cut(text, Json!Start(text), Json!Max(ends)), "endarray")
  BY <1>1, <1>4, ObjectsAreRecovered
<1> QED  BY <1>2, <1>3, <1>4 DEF Json!RepliesAreRead

-----------------------------------------------------------------------------
(* The theorems. *)

\* CallsNext: every behaviour of the composition is one of the router and one of the answers,
\* each of which moves alone or stutters.
THEOREM EachPartRunsAlone ==
  CallsSpec => Agent!Spec /\ Answering!Spec
<1>1. CallsInit => Agent!Init /\ Answering!Init
  BY DEF CallsInit, PartsInit
<1>2. [CallsNext]_callsVars => [Agent!Next]_Agent!vars /\ [Answering!Next]_Answering!vars
  BY DEF CallsNext, callsVars, agentVars, answerVars, Agent!vars, Answering!vars
<1> QED  BY <1>1, <1>2, PTL DEF CallsSpec, Agent!Spec, Answering!Spec

\* call_with_fallback (llm/router.py): while every load finds a nested block, a request names the
\* model of the backend it goes to; the requests to one backend stay together, none follows a good
\* answer or an error of the caller's own, and a second backend is tried only if the agent opted
\* in; a call ends as its last request did, however often the file, the environment and the
\* registry changed while it ran.
THEOREM RoutesAsDeclared ==
  CallsSpec => []RoutedAsDeclared
<1>1. Agent!Init => RouterInv
  BY RouterStart
<1>2. RouterInv => RoutedAsDeclared
  BY RoutedSoundly
<1>3. RouterInv /\ [Agent!Next]_Agent!vars => RouterInv'
  BY RouterStep
<1> QED  BY <1>1, <1>2, <1>3, EachPartRunsAlone, PTL DEF Agent!Spec

\* The chat of each client (clients/) under call_with_fallback: a backend is asked at most once
\* more than its kwargs allow, and Anthropic is not sent again what it may have answered and
\* charged for.
THEOREM RetriesAsTuned ==
  CallsSpec => []RetriedAsTuned
<1>1. Agent!Init => RouterInv
  BY RouterStart
<1>2. RouterInv => RetriedAsTuned
  BY RetriedSoundly
<1>3. RouterInv /\ [Agent!Next]_Agent!vars => RouterInv'
  BY RouterStep
<1> QED  BY <1>1, <1>2, <1>3, EachPartRunsAlone, PTL DEF Agent!Spec

\* tracked_call (llm/tracked.py): the rows of a call that is over are those of its answers, with
\* the statuses its caller was told; the one retry is linked to the answer it repeats, and an
\* answer asked for as a whole is not a part of one.
THEOREM RecordsStayTrue ==
  CallsSpec => []RecordsAreTrue
<1>1. Answering!Init => AnswerInv
  BY AnswerStart
<1>2. AnswerInv => RecordsAreTrue
  BY AnswersSound
<1>3. AnswerInv /\ [Answering!Next]_Answering!vars => AnswerInv'
  BY AnswerStep
<1> QED  BY <1>1, <1>2, <1>3, EachPartRunsAlone, PTL DEF Answering!Spec

\* ValidationPipeline (llm/validate/_pipeline.py) and safe_apply (llm/safe_apply.py): once its
\* writes succeeded the rows of a run give the verdict its caller acts on, and a plan changes only
\* the targets it was made from, whatever is edited and registered meanwhile.
THEOREM ActsOnVerdicts ==
  CallsSpec => []VerdictsAreActedOn
<1>1. Answering!Init => AnswerInv
  BY AnswerStart
<1>2. AnswerInv => VerdictsAreActedOn
  BY AnswersSound
<1>3. AnswerInv /\ [Answering!Next]_Answering!vars => AnswerInv'
  BY AnswerStep
<1> QED  BY <1>1, <1>2, <1>3, EachPartRunsAlone, PTL DEF Answering!Spec

\* utils/json_recovery.py: of every text, however long, a reply in one piece is extracted as it
\* stands, between whatever words; of one that was cut off nothing is extracted, and recovery
\* returns exactly the objects of its array that arrived in whole.
THEOREM ReadsEveryReply ==
  CallsSpec => []RepliesAreRead
<1>1. CallsInit => TextTyped
  BY DEF CallsInit, PartsInit, Json!Init, TextTyped
<1>2. TextTyped /\ [CallsNext]_callsVars => TextTyped'
  <2> SUFFICES ASSUME TextTyped, [CallsNext]_callsVars PROVE TextTyped'
    OBVIOUS
  <2>1. CASE UNCHANGED text
    BY <2>1 DEF TextTyped
  <2>2. CASE Json!Next
    BY <2>2 DEF Json!Next, TextTyped
  <2> QED  BY <2>1, <2>2 DEF CallsNext, callsVars
<1>3. TextTyped => RepliesAreRead
  BY EveryTextIsRead DEF RepliesAreRead
<1> QED  BY <1>1, <1>2, <1>3, PTL DEF CallsSpec
=============================================================================
