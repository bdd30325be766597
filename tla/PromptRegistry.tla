--------------------------- MODULE PromptRegistry ---------------------------
(***************************************************************************)
(* The prompt rows of one agent and part (resolve_prompt_id), and the      *)
(* calls that resolve a row, send their text, and record a run that cites  *)
(* the row (tracked_messages_call).                                        *)
(*                                                                         *)
(* A caller has the version and the text of its spec file; files are       *)
(* edited at any time, with or without a new version.  The statements of   *)
(* the transaction are separate steps; an INSERT and the SELECT after it   *)
(* are one.                                                                *)
(***************************************************************************)
EXTENDS Naturals, FiniteSets, FiniteSetsExt

CONSTANTS
  Callers,
  Versions,     \* version numbers of spec files
  Texts,        \* prompt texts, none of them empty
  Policies,     \* on_change values in use
  Exclusive,    \* policies whose calls overlap with no other call
  None,
  MaxCalls      \* bound

AllPolicies == {"keep_first", "update_unused", "error"}

ASSUME VersionAssumption == Versions \subseteq Nat \ {0}
ASSUME PolicyAssumption  == Policies \subseteq AllPolicies /\ Exclusive \subseteq AllPolicies
ASSUME BoundAssumption   == MaxCalls \in Nat
ASSUME NoneAssumption    == None \notin Texts /\ None \notin Nat /\ None \notin AllPolicies

VARIABLES
  prompts,      \* the rows, by version (the version stands for the id too)
  runs,         \* rows of llm_runs: the prompt cited, and the text that was sent
  caller,
  calls         \* for the bound

vars == <<prompts, runs, caller, calls>>

Pcs == {"idle", "read", "insert", "used", "update", "max", "bump", "chat", "record"}

Call == [pc : Pcs, version : Nat, text : Texts \cup {None}, policy : AllPolicies \cup {None},
         prompt : Nat \cup {None}]

IdleCall == [pc |-> "idle", version |-> 0, text |-> None, policy |-> None,
             prompt |-> None]

Known     == DOMAIN prompts
At(c, pc) == caller[c].pc = pc
Me(c)     == caller[c]
Goto(c, pc)   == caller' = [caller EXCEPT ![c].pc = pc]
Answer(c, id) == caller' = [caller EXCEPT ![c].pc = "chat", ![c].prompt = id]

-----------------------------------------------------------------------------
Init ==
  /\ prompts = [v \in {} |-> None]
  /\ runs = {}
  /\ caller = [c \in Callers |-> IdleCall]
  /\ calls = 0

MayBegin(policy) ==
  \A d \in Callers : ~At(d, "idle") => {policy, Me(d).policy} \cap Exclusive = {}

Begin(c) ==
  /\ At(c, "idle") /\ calls < MaxCalls
  /\ calls' = calls + 1
  /\ \E v \in Versions, t \in Texts, p \in Policies :
       /\ MayBegin(p)
       /\ caller' = [caller EXCEPT ![c] = [IdleCall EXCEPT !.pc = "read", !.version = v,
                                                           !.text = t, !.policy = p]]
  /\ UNCHANGED <<prompts, runs>>

\* The row as first read, and the policy when its text differs ("error" raises).
Read(c) ==
  /\ At(c, "read")
  /\ IF Me(c).version \notin Known THEN Goto(c, "insert")
     ELSE IF prompts[Me(c).version] = Me(c).text \/ Me(c).policy = "keep_first"
       THEN Answer(c, Me(c).version)
     ELSE IF Me(c).policy = "error"
       THEN caller' = [caller EXCEPT ![c] = IdleCall]
       ELSE Goto(c, "used")
  /\ UNCHANGED <<prompts, runs, calls>>

\* Faulty variant: the conflict is not ignored, the last writer wins.
InsertOverwriting(v, text) ==
  prompts' = [w \in Known \cup {v} |-> IF w = v THEN text ELSE prompts[w]]

\* Faulty variant: a row without its text.
InsertEmpty(v, text) ==
  prompts' = [w \in Known \cup {v} |-> IF w \in Known THEN prompts[w] ELSE None]

\* INSERT IGNORE on UNIQUE(agent_type_id, part, version).
InsertIgnore(v, text) ==
  prompts' = [w \in Known \cup {v} |-> IF w \in Known THEN prompts[w] ELSE text]

\* Faulty variant: whoever lost the race gets no row.
InsertOrNothing(c) ==
  /\ At(c, "insert")
  /\ InsertIgnore(Me(c).version, Me(c).text)
  /\ Answer(c, IF Me(c).version \in Known THEN None ELSE Me(c).version)
  /\ UNCHANGED <<runs, calls>>

\* The first sight of a version: whoever lost the race gets the winner's row.
Insert(c) ==
  /\ At(c, "insert")
  /\ InsertIgnore(Me(c).version, Me(c).text)
  /\ Answer(c, Me(c).version)
  /\ UNCHANGED <<runs, calls>>

Cited(v) == \E r \in runs : r.cites = v

\* update_unused: does a run reference the row?
Used(c) ==
  /\ At(c, "used")
  /\ Goto(c, IF Cited(Me(c).version) THEN "max" ELSE "update")
  /\ UNCHANGED <<prompts, runs, calls>>

\* Not referenced: the text is changed in place.
Update(c) ==
  /\ At(c, "update")
  /\ prompts' = [prompts EXCEPT ![Me(c).version] = Me(c).text]
  /\ Answer(c, Me(c).version)
  /\ UNCHANGED <<runs, calls>>

\* Faulty variant: the version after the caller's own.
FollowingOwn(c) == Me(c).version + 1

NextVersion(c) == Max(Known) + 1

\* Referenced: SELECT MAX(version) + 1 ...
ReadMax(c) ==
  /\ At(c, "max")
  /\ caller' = [caller EXCEPT ![c].pc = "bump", ![c].prompt = NextVersion(c)]
  /\ UNCHANGED <<prompts, runs, calls>>

\* ... and INSERT IGNORE there.
Bump(c) ==
  /\ At(c, "bump")
  /\ InsertIgnore(Me(c).prompt, Me(c).text)
  /\ Answer(c, Me(c).prompt)
  /\ UNCHANGED <<runs, calls>>

\* client.chat, which may raise: a run is recorded either way.
Chat(c) ==
  /\ At(c, "chat")
  /\ Goto(c, "record")
  /\ UNCHANGED <<prompts, runs, calls>>

\* The run cites the row; a failed record leaves no run.
Record(c) ==
  /\ At(c, "record")
  /\ \/ runs' = runs \cup {[cites |-> Me(c).prompt, text |-> Me(c).text, policy |-> Me(c).policy]}
     \/ UNCHANGED runs
  /\ caller' = [caller EXCEPT ![c] = IdleCall]
  /\ UNCHANGED <<prompts, calls>>

Next ==
  \E c \in Callers :
    \/ Begin(c) \/ Read(c) \/ Insert(c) \/ Used(c) \/ Update(c) \/ ReadMax(c) \/ Bump(c)
    \/ Chat(c) \/ Record(c)

Spec == Init /\ [][Next]_vars

-----------------------------------------------------------------------------
(* Properties. *)

TypeOK ==
  /\ Known \subseteq Nat \ {0}
  /\ prompts \in [Known -> Texts]
  /\ runs \subseteq [cites : Nat, text : Texts, policy : AllPolicies]
  /\ caller \in [Callers -> Call]
  /\ calls \in Nat

\* A caller that goes on to its call has a row to cite, and every run cites a row.
AlwaysRegistered ==
  /\ \A c \in Callers : At(c, "chat") \/ At(c, "record") => Me(c).prompt \in Known
  /\ \A r \in runs : r.cites \in Known

\* "Safe to mutate in place - nothing references this row": the text of a row that a
\* run cites does not change.
CitedTextFrozen ==
  [][\A r \in runs : prompts'[r.cites] = prompts[r.cites]]_vars

\* With update_unused a run cites the text that it sent, whatever was edited before,
\* also from calls that still carry an old version.
RunsCiteTheirText ==
  \A r \in runs : r.policy = "update_unused" => prompts[r.cites] = r.text

\* A call that registers has its prompt, and every recorded run cites a row with the text it sent.
CitesWhatIsThere == AlwaysRegistered /\ RunsCiteTheirText
=============================================================================
