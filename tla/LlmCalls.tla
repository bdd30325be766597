------------------------------ MODULE LlmCalls -------------------------------
(***************************************************************************)
(* What stands between a caller and an answer it may use: the step around  *)
(* a call with its response cache (LlmStep), the routing of the call and   *)
(* its retries (AgentCall), the recording and the judging of what came     *)
(* back (TrackedCall), and the reading of JSON out of its text             *)
(* (JsonRecovery).  These share no state that a property speaks of, so a   *)
(* behaviour exercises one part, chosen at the start; the others stay in   *)
(* an initial state of theirs.                                             *)
(***************************************************************************)
EXTENDS LlmStep

CONSTANTS
  AgentCallers, Backends, Kind, RouterDocs, Envs, RequestEnds,          \* AgentCall
  MaxRoutes, MaxRouteEdits, MaxRegistrations,
  AnswerCallers, Ways, Answers, Pipelines, Hooks, Documents, Today,     \* TrackedCall
  MaxAnswers, MaxAnswerEdits, MaxDays,
  MaxScanFailures, MaxLen                                               \* JsonRecovery

VARIABLES
  part,
  file, served, env, registry, instances, agent, agentCount,
  answerRuns, verdicts, registered, doc, today, answer, applied, answerCount,
  text

agentVars  == <<file, served, env, registry, instances, agent, agentCount>>
answerVars == <<answerRuns, verdicts, registered, doc, today, answer, applied, answerCount>>

-----------------------------------------------------------------------------
Agent == INSTANCE AgentCall WITH
  Callers <- AgentCallers, Docs <- RouterDocs, Replies <- RequestEnds,
  MaxCalls <- MaxRoutes, MaxEdits <- MaxRouteEdits, caller <- agent, count <- agentCount

Answering == INSTANCE TrackedCall WITH
  Callers <- AnswerCallers, Options <- Ways, Replies <- Answers, Targets <- Documents,
  MaxCalls <- MaxAnswers, MaxEdits <- MaxAnswerEdits,
  runs <- answerRuns, caller <- answer, count <- answerCount

Json == INSTANCE JsonRecovery

ASSUME AgentAssumption ==
  /\ Agent!DocAssumption /\ Agent!KindAssumption /\ Agent!ReplyAssumption
  /\ Agent!BoundAssumption /\ Agent!NoneAssumption

ASSUME AnswerAssumption ==
  /\ Answering!BoundAssumption /\ Answering!NoneAssumption /\ Answering!OptionAssumption
  /\ Answering!ReplyAssumption /\ Answering!PipelineAssumption /\ Answering!TargetAssumption

ASSUME JsonAssumption == Json!ScanAssumption

-----------------------------------------------------------------------------
Parts == {"step", "agent", "answer", "json"}

\* Each part in an initial state of its own.
PartsInit == Init /\ Agent!Init /\ Answering!Init /\ Json!Init

CallsInit == part \in Parts /\ PartsInit

CallsNext ==
  \/ part = "step" /\ Next /\ UNCHANGED <<part, agentVars, answerVars, text>>
  \/ part = "agent" /\ Agent!Next /\ UNCHANGED <<part, vars, answerVars, text>>
  \/ part = "answer" /\ Answering!Next /\ UNCHANGED <<part, vars, agentVars, text>>
  \/ part = "json" /\ Json!Next /\ UNCHANGED <<part, vars, agentVars, answerVars>>

callsVars == <<part, vars, agentVars, answerVars, text>>

CallsSpec == CallsInit /\ [][CallsNext]_callsVars

-----------------------------------------------------------------------------
\* The calls of the router are routed as the document declares, whatever is edited meanwhile.
RoutedAsDeclared == Agent!RoutedAsDeclared

\* Its retries are those tuned, and no request that may have been paid for is sent again.
RetriedAsTuned == Agent!RetriedAsTuned

\* The rows of an answered call say what happened in it.
RecordsAreTrue == Answering!RecordsAreTrue

\* A run's verdict is stored with it, and a plan is applied to what it was made from.
VerdictsAreActedOn == Answering!VerdictsAreActedOn

\* A reply in one piece is extracted as it is; one that was cut off is left to recovery,
\* which finds the objects that arrived in whole.
RepliesAreRead == Json!RepliesAreRead
=============================================================================
