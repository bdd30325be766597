----------------------------- MODULE AgentCall ------------------------------
(***************************************************************************)
(* One agent routed to a backend and called: resolve_agent and             *)
(* call_with_fallback (llm/router.py) over a model_router.yaml that is     *)
(* edited meanwhile, the client registry (clients/routing.py), and the     *)
(* retry loop of each built-in client.                                     *)
(*                                                                         *)
(* A resolution loads the document up to three times and each load may     *)
(* see another one.  ReloadCache models the cache behind a load; here a    *)
(* load returns the document served so far or, if it is due, the file's.   *)
(***************************************************************************)
EXTENDS Naturals, Sequences, SequencesExt, FiniteSets

CONSTANTS
  Callers,
  Backends,
  Kind,         \* [Backends -> the client behind a built-in name]
  Docs,         \* what the file may hold, valid or not
  Envs,         \* values of <PREFIX>_<SLUG>_BACKEND, None if unset
  Replies,      \* what a request may come to
  MaxCalls, MaxEdits, MaxRegistrations,   \* bounds
  None

Kinds == {"openrouter", "anthropic", "claude_code"}

\* One agent's block with the document's default_client.  A nested block names its backends in
\* order, with the client_kwargs of each (its retry, None for no kwargs); an absent one is a
\* document without the agent.  A nested block without backends stands for every shape the
\* schema refuses.
DocShape ==
  [form : {"flat", "nested", "absent"}, declared : Seq(Backends), default : Backends \cup {None},
   client : Backends \cup {None}, fallback : BOOLEAN, retry : [Backends -> Nat \cup {None}]]

Outcomes == {"ok", "config", "unavailable", "raised"}

\* What the constants have to be.  The backends of a block are the keys of a mapping.
DocAssumption ==
  /\ Docs \subseteq DocShape /\ Envs \subseteq Backends \cup {None}
  /\ \A d \in Docs : IsInjective(d.declared)
KindAssumption  == Kind \in [Backends -> Kinds]
BoundAssumption == {MaxCalls, MaxEdits, MaxRegistrations} \subseteq Nat
NoneAssumption  == None \notin Backends \cup Nat \cup Docs \cup Outcomes

VARIABLES
  file,       \* the document in the file
  served,     \* the last good one a load has returned, None before
  env,
  registry,   \* backends with a registered factory
  instances,  \* built-in clients made so far: [backend, kwargs, retry]
  caller,
  count

vars == <<file, served, env, registry, instances, caller, count>>

Modes == {"resolve", "call"}
Idle == [pc |-> "idle", mode |-> "call", doc |-> None, chosen |-> None, scan |-> FALSE,
         chain |-> <<>>, client |-> None, model |-> None, attempt |-> 0, sent |-> <<>>,
         raised |-> <<>>, forms |-> {}, outcome |-> None]

Init ==
  /\ file \in Docs /\ env \in Envs
  /\ served = None
  /\ registry = {} /\ instances = {}
  /\ caller = [c \in Callers |-> Idle]
  /\ count = [x \in {"call", "edit", "register"} |-> 0]

At(c, pc) == caller[c].pc = pc
Me(c)     == caller[c]
Set(c, me) == caller' = [caller EXCEPT ![c] = me]

\* The call is over: "ok", "config" (ConfigurationError), "unavailable" (no backend could be
\* made), "raised" (the exception of the last request, or of making the client).
Finished(me, outcome) == [me EXCEPT !.pc = "idle", !.outcome = outcome, !.chain = <<>>,
                                    !.attempt = 0]

-----------------------------------------------------------------------------
(* The document (llm/_router_schema.py, _router_loader.py, _router_config.py). *)

Valid(d) ==
  d.form = "nested" => d.declared # <<>> /\ d.default \in ToSet(d.declared) \cup {None}

\* A load may return d: what is served, while it is young or while the file is broken, or the
\* file as it is now.
Loads(d) ==
  \/ d = served /\ served # None /\ UNCHANGED served
  \/ d = file /\ Valid(file) /\ served' = file

LoadFails == served = None /\ ~Valid(file) /\ UNCHANGED served

Declares(d, b) == d.form = "flat" \/ b \in ToSet(d.declared)

\* An environment value or a default_client that the agent does not declare falls through.
Selection(d) ==
  IF env # None /\ Declares(d, env) THEN [backend |-> env, source |-> "env"]
  ELSE IF d.form = "nested" /\ d.default # None THEN [backend |-> d.default, source |-> "yaml"]
  ELSE IF d.form = "nested" /\ Len(d.declared) = 1
         THEN [backend |-> d.declared[1], source |-> "yaml"]
  ELSE IF d.client # None /\ Declares(d, d.client)
         THEN [backend |-> d.client, source |-> "yaml"]
  ELSE [backend |-> None, source |-> "none"]

\* Faulty variant: every other declared backend is a candidate, whatever the agent says.
AlwaysFallback(d) == d.form = "nested" /\ Selection(d).source \in {"yaml", "env"}

FallbackEnabled(d) ==
  d.form = "nested" /\ d.fallback /\ Selection(d).source \in {"yaml", "env"}

\* The place of a declared backend in the order of the file.
Place(d, b) == CHOOSE i \in DOMAIN d.declared : d.declared[i] = b

\* The chain for a chosen backend: itself, then the rest in the order of the file.
Chain(d, chosen, scan) ==
  IF scan THEN <<chosen>> \o RemoveAt(d.declared, Place(d, chosen)) ELSE <<chosen>>

\* The agent's block is at hand and a backend is chosen.
Planned(me, d, chosen, scan) ==
  IF ~Declares(d, chosen)
    THEN Finished(me, "config")
    ELSE [me EXCEPT !.pc = "acquire", !.doc = d, !.chosen = chosen, !.scan = scan,
                    !.chain = Chain(d, chosen, scan)]

Begin(c) ==
  /\ At(c, "idle") /\ count["call"] < MaxCalls
  /\ count' = [count EXCEPT !["call"] = @ + 1]
  /\ \E mode \in Modes : Set(c, [Idle EXCEPT !.pc = "block", !.mode = mode])
  /\ UNCHANGED <<file, served, env, registry, instances>>

\* First load: the block.  resolve_agent(backend=b) skips the selection and the scan.
ReadBlock(c) ==
  /\ At(c, "block")
  /\ \/ \E d \in Docs :
          /\ Loads(d)
          /\ LET me == [Me(c) EXCEPT !.forms = {d.form}] IN
             IF d.form = "absent" THEN Set(c, Finished(me, "config"))
             ELSE \/ Set(c, [me EXCEPT !.pc = "select", !.doc = d])
                  \/ /\ me.mode = "resolve"
                     /\ \E b \in Backends : Set(c, Planned(me, d, b, FALSE))
     \/ LoadFails /\ Set(c, Finished(Me(c), "config"))
  /\ UNCHANGED <<file, env, registry, instances, count>>

\* Second load: resolve_backend.  Whether to scan is judged by the block of the first.
Select(c) ==
  /\ At(c, "select")
  /\ \E d \in Docs :
       /\ Loads(d)
       /\ LET me == [Me(c) EXCEPT !.forms = @ \cup {d.form}]
              b  == Selection(d).backend
          IN Set(c, IF d.form = "absent" \/ b = None THEN Finished(me, "config")
                    ELSE Planned(me, me.doc, b, FallbackEnabled(me.doc)))
  /\ UNCHANGED <<file, env, registry, instances, count>>

-----------------------------------------------------------------------------
(* Clients (clients/routing.py and get_client, new_client of each module). *)

Kwargs(d, b) == IF d.form = "nested" THEN d.retry[b] ELSE None

\* Faulty variant: one instance per backend, whatever its kwargs.
SharedByName(b, kwargs) == {i \in instances : i.backend = b}

Cached(b, kwargs) == {i \in instances : i.backend = b /\ i.kwargs = kwargs}

\* get_client_for_backend: a registered factory makes a client per acquisition; a built-in one
\* is made once per kwargs.  Without kwargs it is the module's singleton, which does not retry.
Acquired(b, kwargs) ==
  LET fresh == [backend |-> b, kwargs |-> kwargs, retry |-> IF kwargs = None THEN 0 ELSE kwargs]
      known == Cached(b, kwargs)
  IN IF b \in registry
       THEN <<fresh, instances>>
       ELSE IF known # {} THEN <<CHOOSE i \in known : TRUE, instances>>
                          ELSE <<fresh, instances \cup {fresh}>>

\* Faulty variant: a chain that ran out is one that could not be made.
AlwaysUnavailable(me) == Finished(me, "unavailable")

\* No candidate is left.
Exhausted(me) == Finished(me, IF me.raised = <<>> THEN "unavailable" ELSE "raised")

NextCandidate(me) ==
  LET rest == [me EXCEPT !.pc = "acquire", !.chain = Tail(@), !.attempt = 0] IN
  IF rest.chain = <<>> THEN Exhausted(rest) ELSE rest

\* The head of the chain is made; resolve_agent with a scan also runs its preflight.  Either
\* may fail: the scan goes on, and without one the exception is the caller's.
Acquire(c) ==
  /\ At(c, "acquire")
  /\ LET me == Me(c)
         b  == Head(me.chain)
         a  == Acquired(b, Kwargs(me.doc, b))
     IN \/ Set(c, [me EXCEPT !.pc = "config", !.client = a[1]]) /\ instances' = a[2]
        \/ Set(c, IF me.scan THEN NextCandidate(me) ELSE Finished(me, "raised"))
           /\ UNCHANGED instances
        \/ /\ me.mode = "resolve" /\ me.scan   \* made, but its preflight fails
           /\ Set(c, NextCandidate(me)) /\ instances' = a[2]
  /\ UNCHANGED <<file, served, env, registry, count>>

\* Whose model a configuration names.
ModelOf(d, asked) ==
  IF d.form = "flat" THEN d.client
  ELSE IF asked # None THEN asked ELSE Selection(d).backend

\* Faulty variant: the active backend is resolved again.
ReselectedModel(d, asked) == IF d.form = "flat" THEN d.client ELSE Selection(d).backend

\* get_agent_config passes the backend on when the block it read first was nested.
ModelFor(d, asked) == ModelOf(d, asked)

\* Third load: the chat kwargs, outside of any try.
Config(c) ==
  /\ At(c, "config")
  /\ \E d \in Docs :
       /\ Loads(d)
       /\ LET me    == [Me(c) EXCEPT !.forms = @ \cup {d.form}]
              asked == IF me.doc.form = "nested" THEN me.client.backend ELSE None
              m     == ModelFor(d, asked)
          IN Set(c, IF \/ d.form = "absent"
                       \/ d.form = "nested" /\ m \notin ToSet(d.declared)
                      THEN Finished(me, "config")
                    ELSE IF me.mode = "resolve"
                      THEN Finished([me EXCEPT !.model = m], "ok")
                    ELSE [me EXCEPT !.pc = "chat", !.model = m])
  /\ UNCHANGED <<file, env, registry, instances, count>>

-----------------------------------------------------------------------------
(* chat() of the clients, and call_with_fallback around it. *)

\* "status": a transient HTTP status or a non-zero exit; "overload": 408 or 529; "refused": any
\* other status, an error in the body, or an unreadable envelope; "connect": no connection;
\* "connect_timeout": none in time; "timeout": no answer in time, the request having left;
\* "flow": a FlowException of the caller's side.
AllReplies ==
  {"ok", "status", "overload", "refused", "connect", "connect_timeout", "timeout", "flow"}
ReplyAssumption == Replies \subseteq AllReplies

\* Faulty variant: a timeout is a timeout.
AnyTimeoutIsSafe(reply) ==
  reply \in {"status", "overload", "connect", "connect_timeout", "timeout"}

\* _is_retryable: not once the request may have been answered.
IsRetryable(reply) == reply \in {"status", "overload", "connect", "connect_timeout"}

\* What a client makes of a reply: an answer, a failure to try again, or a failure for good.
OpenRouterChat(reply) ==
  CASE reply = "ok" -> "answer"
    [] reply \in {"status", "connect_timeout", "timeout"} -> "again"
    [] OTHER -> "failure"

AnthropicChat(reply) ==
  CASE reply = "ok" -> "answer"
    [] IsRetryable(reply) -> "again"
    [] OTHER -> "failure"

\* _run tries again after a timeout and after a non-zero exit.
ClaudeRun(reply) ==
  CASE reply \in {"status", "timeout"} -> "again"
    [] reply \in {"ok", "refused"}     -> "exited"
    [] OTHER -> "failure"

\* A run that exits with zero holds an answer, or an envelope that reports an error or cannot
\* be read; the run is not repeated.
ClaudeChat(reply) ==
  IF ClaudeRun(reply) = "exited" THEN IF reply = "ok" THEN "answer" ELSE "failure"
  ELSE ClaudeRun(reply)

Outcome(kind, reply) ==
  CASE kind = "openrouter"  -> OpenRouterChat(reply)
    [] kind = "anthropic"   -> AnthropicChat(reply)
    [] kind = "claude_code" -> ClaudeChat(reply)

\* Faulty variant: one attempt too many.
RetriesOnceMore(client, attempt, reply) ==
  Outcome(Kind[client.backend], reply) = "again" /\ attempt <= client.retry

Retries(client, attempt, reply) ==
  Outcome(Kind[client.backend], reply) = "again" /\ attempt < client.retry

\* Faulty variant: any failure moves on.
MovesOnAlways(reply) == TRUE

\* A FlowException fails identically everywhere; every other exception moves on.
MovesOn(reply) == reply # "flow"

Chat(c) ==
  /\ At(c, "chat")
  /\ \E reply \in Replies :
       LET me == [Me(c) EXCEPT !.sent = Append(@, [backend |-> Me(c).client.backend,
                                                   model |-> Me(c).model, reply |-> reply])]
       IN Set(c, IF Outcome(Kind[me.client.backend], reply) = "answer" THEN Finished(me, "ok")
                 ELSE IF Retries(me.client, me.attempt, reply)
                   THEN [me EXCEPT !.attempt = @ + 1]
                 ELSE IF MovesOn(reply)
                   THEN NextCandidate([me EXCEPT !.raised = Append(@, reply)])
                 ELSE Finished([me EXCEPT !.raised = Append(@, reply)], "raised"))
  /\ UNCHANGED <<file, served, env, registry, instances, count>>

-----------------------------------------------------------------------------
(* Around the calls. *)

Edit ==
  /\ count["edit"] < MaxEdits
  /\ count' = [count EXCEPT !["edit"] = @ + 1]
  /\ file' \in Docs \ {file}
  /\ UNCHANGED <<served, env, registry, instances, caller>>

RegisterClient(b) ==
  /\ count["register"] < MaxRegistrations
  /\ count' = [count EXCEPT !["register"] = @ + 1]
  /\ registry' = registry \cup {b}
  /\ UNCHANGED <<file, served, env, instances, caller>>

UnregisterClient(b) ==
  /\ b \in registry
  /\ registry' = registry \ {b}
  /\ UNCHANGED <<file, served, env, instances, caller, count>>

Step(c) == \/ ReadBlock(c) \/ Select(c) \/ Acquire(c) \/ Config(c) \/ Chat(c)

Next == \/ \E c \in Callers : Begin(c) \/ Step(c)
        \/ \E b \in Backends : RegisterClient(b) \/ UnregisterClient(b)
        \/ Edit

Spec == Init /\ [][Next]_vars

-----------------------------------------------------------------------------
(* Properties. *)

Requests(c, b) == {i \in DOMAIN Me(c).sent : Me(c).sent[i].backend = b}

\* Whatever is edited between the loads, a request to a backend names that backend's model, as
\* long as every load of the call found a nested block: "model ids are not translatable".
SentToItsModel ==
  \A c \in Callers : Me(c).forms \subseteq {"nested"} =>
    \A i \in DOMAIN Me(c).sent : Me(c).sent[i].model = Me(c).sent[i].backend

\* The requests of a call, through retries and fallbacks together: each backend's stay
\* together, none follows a good answer or an error of the caller's own, and more than one
\* backend is called only if the agent opted in.
FallbackDiscipline ==
  \A c \in Callers : LET s == Me(c).sent IN
    /\ \A i, k \in DOMAIN s : i < k => s[i].reply \notin {"ok", "flow"}
    /\ \A i, j, k \in DOMAIN s :
         i < j /\ j < k /\ s[i].backend = s[k].backend => s[j].backend = s[i].backend
    /\ Cardinality({s[i].backend : i \in DOMAIN s}) > 1 => Me(c).doc.fallback

\* How a call ends: "ok" only with a good last answer; if anything was sent and nothing failed in
\* between, the exception is that of the last request; "unavailable" means nothing was sent.
EndsTruthfully ==
  \A c \in Callers : At(c, "idle") /\ Me(c).mode = "call" =>
    /\ Me(c).outcome = "ok" => Me(c).sent # <<>> /\ Last(Me(c).sent).reply = "ok"
    /\ Me(c).outcome = "unavailable" => Me(c).sent = <<>>
    /\ Me(c).outcome = "raised" /\ Me(c).sent # <<>>
         => Last(Me(c).sent).reply = Last(Me(c).raised)

\* A backend gets at most the attempts that the kwargs of this agent's block allow, whoever else
\* uses a client of that backend.
AttemptsAsTuned ==
  \A c \in Callers, b \in Backends : Requests(c, b) # {} =>
    LET k == Kwargs(Me(c).doc, b) IN
    Cardinality(Requests(c, b)) <= 1 + (IF k = None THEN 0 ELSE k)

\* A request that may have been answered, and billed, is not sent to Anthropic again ("without
\* paying twice", clients/anthropic.py).
PaidOnce ==
  \A c \in Callers, b \in Backends : Kind[b] = "anthropic" =>
    Cardinality({i \in Requests(c, b) : Me(c).sent[i].reply \in {"ok", "timeout"}}) <= 1

\* A routed call is one caller's doing from start to end: to the backends declared for it, with
\* their models, in their order, and it ends as its last request did.
RoutedAsDeclared == SentToItsModel /\ FallbackDiscipline /\ EndsTruthfully

\* Retries, of the client and of the router together, are those the caller tuned, and never send
\* again what may have been answered and paid for.
RetriedAsTuned == AttemptsAsTuned /\ PaidOnce
=============================================================================
