------------------------------- MODULE Shared -------------------------------
(***************************************************************************)
(* What threads, processes and hosts share besides the job tables: the     *)
(* prompt rows (PromptRegistry), a configuration file reloaded from the    *)
(* disk (ReloadCache), a key in redis (RedisCache), a table of versioned   *)
(* configurations (VersionedConfig), a table upserted on three dialects    *)
(* (Upserts), and the baselines beside a directory of outputs (Baselines). *)
(* The parts touch no state of each other, so a behaviour exercises one of *)
(* them, chosen at the start; the others stay as they are.                 *)
(***************************************************************************)
EXTENDS PromptRegistry

CONSTANTS
  Threads, FileKeys, Ttl, MaxTime, MaxGets, MaxEdits, MaxClears,        \* ReloadCache
  Clients, HostOf, MaxOps, MaxSwitches,                                 \* RedisCache
  Writers, ConfigScopes, Keyed, ConfigColumns, MaxVersions,             \* VersionedConfig
  TableColumns, UniqueKeys, Stored, Bad, MaxUpserts,                    \* Upserts
  Savers, Labels, MaxPath, Bodies, Near, Alike, Threshold, MaxSaves,    \* Baselines
  MaxOutputRuns

VARIABLES
  part,
  now, file, slot, lock, thread, shown, loads, early, count,
  up, entry, degraded_ops, filling, client, clock, acked, switches,
  configs, writer,
  table, said, upserts,
  output, version, baseline, meant, saver, saves

reloadVars   == <<now, file, slot, lock, thread, shown, loads, early, count>>
redisVars    == <<up, entry, degraded_ops, filling, client, clock, acked, switches>>
configVars   == <<configs, writer>>
upsertVars   == <<table, said, upserts>>
baselineVars == <<output, version, baseline, meant, saver, saves>>

-----------------------------------------------------------------------------
Reload == INSTANCE ReloadCache WITH Keys <- FileKeys

Redis == INSTANCE RedisCache

Configs == INSTANCE VersionedConfig WITH Scopes <- ConfigScopes, Columns <- ConfigColumns

\* A value that does not fit, and the NULL, may be sent like the others.
Rows == INSTANCE Upserts WITH
  Columns <- TableColumns, Keys <- UniqueKeys, Values <- Stored \cup {Bad, None},
  MaxCalls <- MaxUpserts, calls <- upserts

Outputs == INSTANCE Baselines WITH MaxRuns <- MaxOutputRuns

ASSUME FileAssumption   == Reload!ReloadAssumption
ASSUME RedisAssumption  == Redis!NoneAssumption
ASSUME ConfigAssumption == Configs!NoneAssumption
ASSUME RowsAssumption   == IsFiniteSet(UniqueKeys)
ASSUME CopiesAssumption == Outputs!NoneAssumption /\ Outputs!AlikeAssumption

-----------------------------------------------------------------------------
SharedInit ==
  /\ part \in {"prompts", "reload", "redis", "configs", "upserts", "baselines"}
  /\ Init /\ Reload!Init /\ Redis!Init /\ Configs!Init /\ Rows!Init /\ Outputs!Init
  /\ part # "baselines" => output = [p \in 1 .. MaxPath |-> None]

SharedNext ==
  \/ /\ part = "prompts" /\ Next
     /\ UNCHANGED <<part, reloadVars, redisVars, configVars, upsertVars, baselineVars>>
  \/ /\ part = "reload" /\ Reload!Next
     /\ UNCHANGED <<part, vars, redisVars, configVars, upsertVars, baselineVars>>
  \/ /\ part = "redis" /\ Redis!Next
     /\ UNCHANGED <<part, vars, reloadVars, configVars, upsertVars, baselineVars>>
  \/ /\ part = "configs" /\ Configs!Next
     /\ UNCHANGED <<part, vars, reloadVars, redisVars, upsertVars, baselineVars>>
  \/ /\ part = "upserts" /\ Rows!Next
     /\ UNCHANGED <<part, vars, reloadVars, redisVars, configVars, baselineVars>>
  \/ /\ part = "baselines" /\ Outputs!Next
     /\ UNCHANGED <<part, vars, reloadVars, redisVars, configVars, upsertVars>>

SharedSpec ==
  SharedInit
    /\ [][SharedNext]_<<part, vars, reloadVars, redisVars, configVars, upsertVars, baselineVars>>

-----------------------------------------------------------------------------
\* A reloaded file is not shown older than before, nor read more often than its time to live asks.
ReloadsInStep == Reload!ReloadsInStep

\* What redis has acknowledged is what is read, whether it is up or not.
AckedWrites == Redis!AckedWrites

\* Each version of a configuration descends from the one before it, with what it did not change.
Lineage == Configs!Lineage

\* An upsert leaves the same rows on every dialect, or fails on every one.
SameOnEveryDialect == Rows!SameOnEveryDialect

\* A listed baseline is a whole copy, and a comparison accounts for every pair of files.
BaselinesAreWhole == Outputs!BaselinesAreWhole
=============================================================================
