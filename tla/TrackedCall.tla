---------------------------- MODULE TrackedCall -----------------------------
(***************************************************************************)
(* An answer from the client to the document it changes: tracked_call,     *)
(* tracked_messages_call (llm/tracked.py) and track_run                    *)
(* (llm/tracking/decorator.py) record it, the validation pipeline          *)
(* (llm/validate) judges it, safe_apply (llm/safe_apply.py) applies the    *)
(* plan it holds to a document that may have changed since it was read.    *)
(***************************************************************************)
EXTENDS Validators, FiniteSets

CONSTANTS
  Callers,
  Options,     \* how a call is made, see Shape of options below
  Replies,     \* what a client answers: [text, finish]; None when it raises
  Pipelines,   \* what may be registered: [shape, checks, version]
  Hooks,       \* registered URL hooks: [hallucinated, tier1]
  Targets,     \* documents: sequences of target texts
  MaxCalls, MaxEdits, MaxDays   \* bounds

\* What the constants have to be.
BoundAssumption == {MaxCalls, MaxEdits, MaxDays} \subseteq Nat
NoneAssumption  == None \notin Nat \cup Replies \cup BOOLEAN

\* entry: "tracked", "messages" or "decorated"; json, retry, onTruncation: of tracked_call;
\* onRecord: "raise" or "warn"; check: "none", "parse" or "value", the validation that follows;
\* onCut: its on_truncation; missing: "raise" or "fallback".
OptionFields == {"entry", "json", "retry", "onTruncation", "onRecord", "check", "onCut", "missing"}
OptionAssumption == \A o \in Options : DOMAIN o = OptionFields

\* The text itself and a balanced span in it are whole values (a span inside a container that was
\* cut is not looked at, _payload_cut), and so is what is repaired of an answer of which the
\* provider says that it was not cut.
ReplyAssumption ==
  \A r \in Replies : LET t == r.text IN
    /\ t.loads # None => t.loads.whole
    /\ t.span # None => t.span.whole
    /\ TruncatedFromUsage(r.finish) = FALSE /\ t.repair # None => t.repair.whole

PipelineAssumption ==
  \A p \in Pipelines :
    DOMAIN p = {"shape", "checks", "version"} /\ p.checks \in Seq(ToSet(p.checks))
TargetAssumption   == \A t \in Targets : t \in Seq(ToSet(t))

VARIABLES
  runs,        \* llm_runs and llm_run_links: [by, reply, status, parent]
  verdicts,    \* llm_run_validations, [run, signal], and the schema tags, [run, tag]
  registered,  \* the pipeline of the agent type, None if there is none
  doc, today,
  caller,
  applied,     \* plans applied: [seen, at] (history)
  count

vars == <<runs, verdicts, registered, doc, today, caller, applied, count>>

Idle == [pc |-> "idle", opt |-> None, chats |-> <<>>, rows |-> <<>>, value |-> None,
         signals |-> <<>>, ok |-> FALSE, version |-> 0, written |-> 0, stored |-> TRUE, seen |-> None,
         outcome |-> None]

BuiltOn(p, day) == [p EXCEPT !.checks = [i \in DOMAIN p.checks |-> Built(p.checks[i], day)]]

Init ==
  /\ runs = <<>> /\ verdicts = {}
  /\ registered \in {BuiltOn(p, 1) : p \in Pipelines} \cup {None}
  /\ doc \in Targets /\ today = 1
  /\ caller = [c \in Callers |-> Idle]
  /\ applied = {}
  /\ count = [x \in {"call", "edit"} |-> 0]

Me(c)     == caller[c]
At(c, pc) == caller[c].pc = pc
Set(c, me) == caller' = [caller EXCEPT ![c] = me]
Ended(me, outcome) == [me EXCEPT !.pc = "idle", !.outcome = outcome]

Reply(me)     == Last(me.chats)
Row(me)       == Last(me.rows)
Truncated(me) == TruncatedFromUsage(Reply(me).finish)

-----------------------------------------------------------------------------
(* The call and its row. *)

\* The targets are read before the model is asked (GatherResult).
Begin(c) ==
  /\ At(c, "idle") /\ count["call"] < MaxCalls
  /\ count' = [count EXCEPT !["call"] = @ + 1]
  /\ \E o \in Options : Set(c, [Idle EXCEPT !.pc = "chat", !.opt = o, !.seen = doc])
  /\ UNCHANGED <<runs, verdicts, registered, doc, today, applied>>

Chat(c) ==
  /\ At(c, "chat")
  /\ \E r \in Replies \cup {None} :
       Set(c, [Me(c) EXCEPT !.chats = Append(@, r), !.pc = "record"])
  /\ UNCHANGED <<runs, verdicts, registered, doc, today, applied, count>>

\* A row that could not be written is the caller's problem, or a warning; tracked_call never
\* lets it displace the client's exception, the two others do.
UnrecordedIsRaised(me) ==
  IF Reply(me) = None /\ me.opt.entry = "tracked" THEN FALSE
  ELSE me.opt.entry = "decorated" \/ me.opt.onRecord = "raise"

\* Faulty variant: the retry is recorded as a call of its own.
Unlinked(me) == None

\* The row a retry is linked to.
ParentOf(me) == IF Len(me.rows) = 1 THEN me.rows[1] ELSE None

\* The row of the last chat; an exception of the client's is raised after it.
Record(c) ==
  /\ At(c, "record")
  /\ LET me == Me(c)
         raised == Reply(me) = None
     IN \/ /\ runs' = Append(runs, [by |-> c, reply |-> Reply(me), parent |-> ParentOf(me),
                                    status |-> IF raised THEN "failed" ELSE "success"])
           /\ LET it == [me EXCEPT !.rows = Append(@, Len(runs) + 1)] IN
              Set(c, IF raised THEN Ended(it, "client") ELSE [it EXCEPT !.pc = "parse"])
        \/ /\ UNCHANGED runs
           /\ LET it == [me EXCEPT !.rows = Append(@, None)] IN
              Set(c, IF UnrecordedIsRaised(me) THEN Ended(it, "record")
                     ELSE IF raised THEN Ended(it, "client") ELSE [it EXCEPT !.pc = "parse"])
  /\ UNCHANGED <<verdicts, registered, doc, today, applied, count>>

-----------------------------------------------------------------------------
(* tracked_call(expect_json=True). *)

\* Faulty variant: an answer is retried whatever the provider says of it.
RetriesCut(me) == me.opt.retry /\ Len(me.chats) = 1

\* One retry, and none after an answer known to be cut at the token limit.
Retries(me) == me.opt.retry /\ Len(me.chats) = 1 /\ Truncated(me) # TRUE

\* Faulty variant: what was salvaged is an answer.
SalvagedAnswer(me) == Parsed(Reply(me).text, "any", "warn", Truncated(me))

Answer(me) == Parsed(Reply(me).text, "any", me.opt.onTruncation, Truncated(me))

Parse(c) ==
  /\ At(c, "parse")
  /\ LET me == Me(c) IN
     Set(c, IF ~me.opt.json THEN [me EXCEPT !.pc = "validate"]
            ELSE IF Answer(me) # None
              THEN [me EXCEPT !.pc = "validate", !.value = Answer(me)]
            ELSE IF Retries(me) THEN [me EXCEPT !.pc = "chat"]
            ELSE [me EXCEPT !.pc = "reject"])
  /\ UNCHANGED <<runs, verdicts, registered, doc, today, applied, count>>

\* Faulty variant: the first row is the one that is marked.
MarksFirst(me) == me.rows[1]

\* The row that LlmJsonError speaks of.
Rejected(me) == Row(me)

\* Before LlmJsonError: the row is marked failed, if there is one and the write succeeds.
Reject(c) ==
  /\ At(c, "reject")
  /\ LET me == Me(c) IN
     \/ /\ Rejected(me) # None
        /\ runs' = [runs EXCEPT ![Rejected(me)].status = "failed"]
        /\ Set(c, Ended(me, "json"))
     \/ Set(c, Ended([me EXCEPT !.stored = FALSE], "json")) /\ UNCHANGED runs
  /\ UNCHANGED <<verdicts, registered, doc, today, applied, count>>

-----------------------------------------------------------------------------
(* parse_and_validate and validate_value. *)

\* The project registers a pipeline, or replaces it.
Register(p) ==
  /\ count["edit"] < MaxEdits
  /\ count' = [count EXCEPT !["edit"] = @ + 1]
  /\ registered' = BuiltOn(p, today)
  /\ UNCHANGED <<runs, verdicts, doc, today, caller, applied>>

ErrorSignal(name) == Signal(name, "error", FALSE)

\* The signals of the stages: the shape first, the checks only on a value that has it.
Stages(p, v) ==
  IF p.shape # "none" /\ ~v.shaped THEN <<ErrorSignal("shape")>>
  ELSE (IF p.shape = "none" THEN <<>> ELSE <<Signal("shape", "error", TRUE)>>)
         \o [i \in DOMAIN p.checks |-> Checked(v, p.checks[i], Hooks, today)]

\* tracked_call hands no usage on, so what it returns is not known to be cut.
CutKnown(me) == me.opt.entry # "tracked" /\ Truncated(me) = TRUE

\* What parse_and_validate makes of an answer: a cut one stops it or is noted, and so does one
\* that holds no JSON.  validate_value starts at the stages.
Judged(me, p) ==
  LET note == IF CutKnown(me) THEN <<Signal("truncated", "warn", FALSE)>> ELSE <<>>
      v    == IF me.opt.check = "value" THEN me.value
              ELSE Parsed(Reply(me).text, "any", "warn", Truncated(me))
      told == IF me.opt.check = "value" THEN Stages(p, v)
              ELSE IF CutKnown(me) /\ me.opt.onCut = "fail" THEN <<ErrorSignal("truncated")>>
              ELSE IF v = None THEN Append(note, ErrorSignal("parse"))
              ELSE note \o Stages(p, v)
      lost == {"shape", "truncated", "parse"} \cap {s.validator : s \in Failures(told)}
  IN [signals |-> told, value |-> IF lost = {} THEN v ELSE None]

Validate(c) ==
  /\ At(c, "validate")
  /\ LET me == Me(c) IN
     IF me.opt.check = "none" THEN Set(c, Ended(me, "returned"))
     ELSE IF registered = None
       THEN Set(c, IF me.opt.missing = "raise" THEN Ended(me, "unregistered")
                   ELSE Ended([me EXCEPT !.signals = <<ErrorSignal("no_pipeline_registered")>>],
                              "returned"))
     ELSE LET j == Judged(me, registered) IN
          Set(c, [me EXCEPT !.signals = j.signals, !.value = j.value,
                            !.ok = Failures(j.signals) = {}, !.version = registered.version,
                            !.pc = IF Row(me) = None THEN "apply" ELSE "store"])
  /\ UNCHANGED <<runs, verdicts, registered, doc, today, applied, count>>

\* Faulty variant: the conflict columns leave the validator out.
UpsertedByRun(table, run, s) ==
  {w \in table : w.run # run} \cup {[run |-> run, signal |-> s]}

\* One row per run and validator: the last signal of a name stays.
Upserted(table, run, s) ==
  {w \in table : w.run # run \/ w.signal.validator # s.validator}
    \cup {[run |-> run, signal |-> s]}

\* One write per signal and one for the tag schema:<agent>_v<n>.  A write that fails (after three
\* deadlocks, say) is logged and the next one is made.
Store(c) ==
  /\ At(c, "store")
  /\ LET me == Me(c)
         n  == me.written + 1
         it == [me EXCEPT !.written = n, !.pc = IF n > Len(me.signals) THEN "apply" ELSE "store"]
     IN \/ /\ verdicts' = IF n > Len(me.signals)
                            THEN verdicts \cup {[run |-> Row(me), tag |-> me.version]}
                            ELSE Upserted(verdicts, Row(me), me.signals[n])
           /\ Set(c, it)
        \/ Set(c, [it EXCEPT !.stored = FALSE]) /\ UNCHANGED verdicts
  /\ UNCHANGED <<runs, registered, doc, today, applied, count>>

-----------------------------------------------------------------------------
(* safe_apply, and what happens meanwhile. *)

\* Faulty variant: only the number of targets is compared.
CountDrift(seen, current) == Len(seen) # Len(current)

Drift(seen, current) ==
  \/ Len(seen) # Len(current)
  \/ \E i \in DOMAIN seen : seen[i] # current[i]

\* The plan of an answer that passed rewrites the document, unless its targets have changed.
Apply(c) ==
  /\ At(c, "apply")
  /\ IF Me(c).ok /\ ~Drift(Me(c).seen, doc)
       THEN /\ doc' \in Targets
            /\ applied' = applied \cup {[seen |-> Me(c).seen, at |-> doc]}
       ELSE UNCHANGED <<doc, applied>>
  /\ Set(c, Ended(Me(c), "returned"))
  /\ UNCHANGED <<runs, verdicts, registered, today, count>>

Edit ==
  /\ count["edit"] < MaxEdits
  /\ count' = [count EXCEPT !["edit"] = @ + 1]
  /\ doc' \in Targets \ {doc}
  /\ UNCHANGED <<runs, verdicts, registered, today, caller, applied>>

Midnight ==
  /\ today < MaxDays
  /\ today' = today + 1
  /\ UNCHANGED <<runs, verdicts, registered, doc, caller, applied, count>>

\* The process of a caller dies; what it has written stays.
Die(c) ==
  /\ ~At(c, "idle")
  /\ Set(c, Ended(Me(c), "died"))
  /\ UNCHANGED <<runs, verdicts, registered, doc, today, applied, count>>

Next ==
  \/ \E c \in Callers : \/ Begin(c) \/ Chat(c) \/ Record(c) \/ Parse(c) \/ Reject(c)
                        \/ Validate(c) \/ Store(c) \/ Apply(c) \/ Die(c)
  \/ \E p \in Pipelines : Register(p)
  \/ Edit \/ Midnight

Spec == Init /\ [][Next]_vars

-----------------------------------------------------------------------------
(* Properties. *)

Over(c) == At(c, "idle") /\ Me(c).outcome \notin {None, "died"}

\* Every chat has a row of its own, or its write failed; the row a call returns is that of the
\* answer it returns, a rejected answer's row is marked, and an exception of the client's is
\* never lost behind a failed write of tracked_call.
RowsTellTheTruth ==
  \A c \in Callers : Over(c) =>
    LET me == Me(c) IN
    /\ Len(me.rows) = Len(me.chats)
    /\ \A i \in DOMAIN me.rows : me.rows[i] # None => runs[me.rows[i]].reply = me.chats[i]
    /\ \A i, j \in DOMAIN me.rows : me.rows[i] = me.rows[j] /\ me.rows[i] # None => i = j
    /\ Row(me) # None =>
         CASE me.outcome \in {"returned", "unregistered"} -> runs[Row(me)].status = "success"
           [] me.outcome = "client" -> runs[Row(me)].status = "failed"
           [] me.outcome = "json"   -> me.stored => runs[Row(me)].status = "failed"
           [] OTHER -> FALSE
    /\ me.opt.entry = "tracked" /\ Reply(me) = None => me.outcome = "client"

\* A second chat is paid for only when the first answer was complete as far as the provider
\* said and still held no JSON; its row is linked to the first.
RetriedOnce ==
  \A c \in Callers : LET me == Me(c) IN Len(me.chats) > 1 =>
    /\ Len(me.chats) = 2 /\ me.opt.json /\ me.opt.retry /\ me.chats[1] # None
    /\ TruncatedFromUsage(me.chats[1].finish) # TRUE
    /\ Parsed(me.chats[1].text, "any", me.opt.onTruncation, FALSE) = None
    /\ (Len(me.rows) = 2 /\ me.rows[2] # None) => runs[me.rows[2]].parent = me.rows[1]

\* Under on_truncation="raise" a part of an answer is returned as its JSON only if the provider
\* gave no reason and no element of an array was complete.
WholeOrRefused ==
  \A c \in Callers : LET me == Me(c) IN
    (/\ Over(c) /\ me.outcome = "returned" /\ me.opt.check = "none"
     /\ me.opt.entry = "tracked" /\ me.opt.json /\ me.opt.onTruncation = "raise")
    => \/ me.value.whole
       \/ Truncated(me) = None /\ Reply(me).text.recover = None

\* Once every write of a validation succeeded, the rows of the run give the verdict the caller
\* was given, as long as no two signals have one name; and the tag names the pipeline's version.
VerdictStored ==
  \A c \in Callers : LET me == Me(c) IN
    (/\ At(c, "apply") /\ Row(me) # None /\ me.stored
     /\ IsInjective([i \in DOMAIN me.signals |-> me.signals[i].validator]))
    => LET rows == {w \in verdicts : w.run = Row(me) /\ "signal" \in DOMAIN w} IN
       /\ me.ok <=> ~\E w \in rows : (~w.signal.passed /\ w.signal.severity = "error")
       /\ [run |-> Row(me), tag |-> me.version] \in verdicts

\* "every signal is written to llm_run_validations" (llm/validate/_pipeline.py): false of two
\* signals of one name, the later of which replaces the earlier.
EverySignalStored ==
  \A c \in Callers : LET me == Me(c) IN
    (At(c, "apply") /\ Row(me) # None /\ me.stored) =>
      \A s \in ToSet(me.signals) : [run |-> Row(me), signal |-> s] \in verdicts

\* A plan is applied only to the targets the model was shown, whatever other plans and edits
\* came between.
AppliesWhatItSaw == \A a \in applied : a.seen = a.at

\* What the rows say of a call is what happened in it: the statuses, the one retry and its parent,
\* and no answer that was cut off passed on as whole.
RecordsAreTrue == RowsTellTheTruth /\ RetriedOnce /\ WholeOrRefused

\* What a verdict rests on and what is done upon it agree: the verdict of a run is stored with it,
\* and a plan is applied to the document it was made from only.
VerdictsAreActedOn == VerdictStored /\ AppliesWhatItSaw
=============================================================================
