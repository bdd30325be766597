------------------------------- MODULE LongWork --------------------------------
(***************************************************************************)
(* Long work that is stopped, killed and taken up again: the steps of a    *)
(* job (JobSteps), a pipeline of snapshots (Pipeline), requests through a  *)
(* shared throttle (Fetching), images made local one by one (Localize),    *)
(* links whose verdicts are cached (Liveness), and articles read live or   *)
(* from the archive (Articles).  The parts touch no state of each other,   *)
(* so a behaviour exercises one of them, chosen at the start; the others   *)
(* stay as they are.                                                       *)
(***************************************************************************)
EXTENDS JobSteps

CONSTANTS
  Flags, Stages, Granularity, MaxPipelineTime, MaxVersion,              \* Pipeline
  Fetchers, Retries, MaxRedirects, Interval, RetryAfters, Cap,          \* Fetching
  Payloads, MaxBytes, MaxFetchTime, MaxFetches,
  Urls, FileNames, FileOf, Syntaxes, CheckpointEvery, MaxPasses,        \* Localize
  Checkers, Ttl, NegativeTtl, MaxHours, MaxChecks,                      \* Liveness
  Readers, Attempts, MaxReads                                           \* Articles

VARIABLES
  part,
  tick, source, snapshot, record, run, torn, mixed,
  now, next_allowed, worker, requests, fetches,
  syntax, doc, files, pass, passes, reused,
  hour, verdict, checker, checks,
  reader, reads

pipelineVars == <<tick, source, snapshot, record, run, torn, mixed>>
fetchVars    == <<now, next_allowed, worker, requests, fetches>>
localizeVars == <<syntax, doc, files, pass, passes, reused>>
linkVars     == <<hour, verdict, checker, checks>>
articleVars  == <<reader, reads>>

-----------------------------------------------------------------------------
Pipe == INSTANCE Pipeline WITH now <- tick, MaxTime <- MaxPipelineTime

Fetch == INSTANCE Fetching WITH Workers <- Fetchers, Bodies <- Payloads, MaxTime <- MaxFetchTime

Images == INSTANCE Localize WITH Names <- FileNames, NameOf <- FileOf

Links == INSTANCE Liveness WITH MaxTime <- MaxHours

Texts == INSTANCE Articles

ASSUME PipelineAssumption == Pipe!PipelineAssumption
ASSUME FetchAssumption    == Fetch!FetchAssumption
ASSUME LocalizeAssumption == Images!LocalizeAssumption
ASSUME LivenessAssumption == Links!LivenessAssumption
ASSUME ArticlesAssumption == Texts!ArticlesAssumption

-----------------------------------------------------------------------------
WorkInit ==
  /\ part \in {"steps", "pipeline", "fetch", "images", "links", "articles"}
  /\ Init /\ Pipe!Init /\ Fetch!Init /\ Images!Init /\ Links!Init /\ Texts!Init
  /\ part # "images" => syntax = [u \in Urls |-> "src"]

WorkNext ==
  \/ /\ part = "steps" /\ Next
     /\ UNCHANGED <<part, pipelineVars, fetchVars, localizeVars, linkVars, articleVars>>
  \/ /\ part = "pipeline" /\ Pipe!Next
     /\ UNCHANGED <<part, vars, fetchVars, localizeVars, linkVars, articleVars>>
  \/ /\ part = "fetch" /\ Fetch!Next
     /\ UNCHANGED <<part, vars, pipelineVars, localizeVars, linkVars, articleVars>>
  \/ /\ part = "images" /\ Images!Next
     /\ UNCHANGED <<part, vars, pipelineVars, fetchVars, linkVars, articleVars>>
  \/ /\ part = "links" /\ Links!Next
     /\ UNCHANGED <<part, vars, pipelineVars, fetchVars, localizeVars, articleVars>>
  \/ /\ part = "articles" /\ Texts!Next
     /\ UNCHANGED <<part, vars, pipelineVars, fetchVars, localizeVars, linkVars>>

workVars == <<part, vars, pipelineVars, fetchVars, localizeVars, linkVars, articleVars>>

WorkSpec == WorkInit /\ [][WorkNext]_workVars

-----------------------------------------------------------------------------
\* A stage is skipped only if what it would compute is what it holds.
SkipsAreSound == Pipe!SkipsAreSound

\* A fetch ends as it was answered, and fetches together keep to the rate.
FetchesAreFair == Fetch!FetchesAreFair

\* A killed run keeps its progress: a local reference is to the image of its URL.
KeepsItsProgress == Images!KeepsItsProgress

\* A cached verdict about the moment is served for the short time only.
BlipsPass == Links!BlipsPass

\* An article that was not read has the status of its live page.
VerdictIsTheLive == Texts!VerdictIsTheLive

\* What is said of a page out there is what it last said: of a link and of an article.
VerdictsAreFresh == BlipsPass /\ VerdictIsTheLive
=============================================================================
