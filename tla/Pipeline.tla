------------------------------ MODULE Pipeline ------------------------------
(***************************************************************************)
(* A staged pipeline that resumes: slices of stages (pipeline/sequencer.py)*)
(* skipped by the age of their snapshots and the flags of the last run     *)
(* record (pipeline/resume.py, run_record.py), invalidated in cascade      *)
(* (pipeline/cache.py).  Stages are wired as the modules' usage says: the  *)
(* snapshot of a stage is checked against the source, the snapshot before  *)
(* it and the run record; the record is written after a successful run.    *)
(***************************************************************************)
EXTENDS Naturals

CONSTANTS
  Stages,         \* number of stages
  Flags,          \* values of the flags in flag_keys
  Granularity,    \* steps of the clock that share a modification time
  MaxTime, MaxVersion,   \* bounds
  None

Index == 1 .. Stages

\* What a snapshot may be: written at stage i of a run, tagged with its flags or as mixed.
Snapshots == [of : Nat, flags : Flags \cup {"mixed"}, mtime : Nat]

PipelineAssumption ==
  /\ Stages \in Nat /\ Granularity \in Nat \ {0}
  /\ "mixed" \notin Flags /\ None \notin Flags /\ None \notin Snapshots

VARIABLES
  now,
  source,     \* [version, mtime]
  snapshot,   \* [Index -> [of, flags, mtime] or None]: of is the source version it stems from
  record,     \* the flags in run.json, None without one
  run,        \* the run under way
  torn,       \* the source was edited while the first stage worked on it (history)
  mixed       \* a run wrote under other flags than the record's, or left its record beside earlier
              \* snapshots of other flags, and no whole run since (history)

vars == <<now, source, snapshot, record, run, torn, mixed>>

NoRun == [pc |-> "idle", flags |-> None, begin |-> 0, at |-> 0, end |-> 0, input |-> None]

Init ==
  /\ now = 1
  /\ source = [version |-> 1, mtime |-> 0]
  /\ snapshot = [i \in Index |-> None]
  /\ record = None /\ run = NoRun
  /\ torn = FALSE /\ mixed = FALSE

Mtime == now \div Granularity
Clock == now < MaxTime /\ now' = now + 1

-----------------------------------------------------------------------------
(* Freshness (is_snapshot_valid). *)

\* A missing upstream file leaves nothing to compare with.
Upstream(i) == IF i = 1 THEN {source} ELSE {source, snapshot[i - 1]}

\* Faulty variant: a snapshot answers for the source alone.
AgeOfSource(i) == snapshot[i] # None /\ snapshot[i].mtime >= source.mtime

YoungEnough(i) ==
  /\ snapshot[i] # None
  /\ \A u \in Upstream(i) : u # None /\ snapshot[i].mtime >= u.mtime

\* Faulty variant: without a record there are no flags to differ.
MissingRecordPasses(flags) == record \in {None, flags}

FlagsMatch(flags) == record # None /\ record = flags

Fresh(i, flags) == YoungEnough(i) /\ FlagsMatch(flags)

\* Faulty variant: every fresh stage is skipped on its own, wherever it stands.
LastFresh(flags) ==
  IF \E i \in Index : Fresh(i, flags)
    THEN 1 + CHOOSE i \in Index : Fresh(i, flags) /\ \A j \in Index : j > i => ~Fresh(j, flags)
    ELSE 1

\* The first stage that is not fresh, past the end if there is none.
FirstStale(flags) ==
  CHOOSE b \in 1 .. Stages + 1 :
    /\ b \in Index => ~Fresh(b, flags)
    /\ \A i \in 1 .. b - 1 : Fresh(i, flags)

-----------------------------------------------------------------------------
(* Slices (run_pipeline). *)

Begin(flags, begin, end) ==
  run' = IF begin > Stages THEN NoRun
         ELSE [NoRun EXCEPT !.pc = "read", !.flags = flags, !.begin = begin, !.at = begin, !.end = end]

Idle == run.pc = "idle"

Resume(flags, stop) ==
  /\ Idle /\ (FirstStale(flags) <= Stages => stop >= FirstStale(flags))
  /\ Begin(flags, FirstStale(flags), stop)
  /\ UNCHANGED <<now, source, snapshot, record, torn, mixed>>

\* start: no look at any snapshot; a phase reads the snapshot before it, so it must be there.
Start(flags, start, stop) ==
  /\ Idle /\ stop >= start
  /\ start > 1 => snapshot[start - 1] # None
  /\ Begin(flags, start, stop)
  /\ UNCHANGED <<now, source, snapshot, record, torn, mixed>>

Cascade(stage) == stage .. Stages

\* invalidate_caches, then rerun_from: some deletions may fail, which is only logged.
RerunFrom(flags, stage, stop) ==
  /\ Idle /\ stop >= stage
  /\ stage > 1 => snapshot[stage - 1] # None
  /\ \E kept \in SUBSET Cascade(stage) :
       snapshot' = [i \in Index |-> IF i \in Cascade(stage) \ kept THEN None ELSE snapshot[i]]
  /\ Begin(flags, stage, stop)
  /\ UNCHANGED <<now, source, record, torn, mixed>>

\* What the stage works on: the source or the snapshot before it.
Input(i) == IF i = 1 THEN [of |-> source.version, flags |-> run.flags]
                     ELSE [of |-> snapshot[i - 1].of, flags |-> snapshot[i - 1].flags]

StageRead ==
  /\ run.pc = "read"
  /\ run' = [run EXCEPT !.pc = "write", !.input = Input(run.at)]
  /\ UNCHANGED <<now, source, snapshot, record, torn, mixed>>

\* Results come from the input, and are tagged with the run's flags only where the flags were
\* those of every stage before.
Result(flags, input) == IF input.flags = flags THEN flags ELSE "mixed"

StageWrite ==
  /\ run.pc = "write" /\ Clock
  /\ snapshot' = [snapshot EXCEPT ![run.at] =
       [of |-> run.input.of, flags |-> Result(run.flags, run.input), mtime |-> Mtime]]
  /\ run' = IF run.at < run.end THEN [run EXCEPT !.pc = "read", !.at = @ + 1, !.input = None]
            ELSE [run EXCEPT !.pc = "record"]
  /\ torn' = IF run.at = 1 THEN run.input.of # source.version ELSE torn
  /\ mixed' = (mixed \/ record \notin {None, run.flags})
  /\ UNCHANGED <<source, record>>

\* A phase raises, or the process dies: snapshots without their record.
Fail ==
  /\ ~Idle
  /\ run' = NoRun
  /\ UNCHANGED <<now, source, snapshot, record, torn, mixed>>

\* Only a run that went to the end describes the output.
Recorded == run.end = Stages

\* The record of a slice speaks for the stages before it too.
Misrecorded ==
  Recorded /\ \E i \in 1 .. run.begin - 1 : snapshot[i] # None /\ snapshot[i].flags # run.flags

\* atomic_write_text: the file is replaced whole.
WriteRecord ==
  /\ run.pc = "record"
  /\ record' = IF Recorded THEN run.flags ELSE record
  /\ mixed' = (Misrecorded \/ (mixed /\ ~(run.begin = 1 /\ run.end = Stages)))
  /\ run' = NoRun
  /\ UNCHANGED <<now, source, snapshot, torn>>

Edit ==
  /\ source.version < MaxVersion /\ Clock
  /\ source' = [version |-> source.version + 1, mtime |-> Mtime]
  /\ UNCHANGED <<snapshot, record, run, torn, mixed>>

Next ==
  \/ \E flags \in Flags, stop \in Index :
       \/ Resume(flags, stop)
       \/ \E stage \in Index : Start(flags, stage, stop) \/ RerunFrom(flags, stage, stop)
  \/ StageRead \/ StageWrite \/ WriteRecord \/ Fail \/ Edit

Spec == Init /\ [][Next]_vars

-----------------------------------------------------------------------------
\* A stage that would be skipped holds the result of the source as it is, however runs were
\* sliced, stopped or killed, and whatever deletions failed; unless the source was edited under a
\* running stage, whose snapshot is then younger than the edit it missed.
SkippedIsCurrent ==
  ~torn => \A flags \in Flags : \A i \in 1 .. FirstStale(flags) - 1 :
             snapshot[i].of = source.version

\* ... and was computed under the flags of the run that skips it; unless a run under other flags
\* has left snapshots beside the record, or a slice its record beside snapshots of other flags.
SkippedMatchesFlags ==
  ~mixed => \A flags \in Flags : \A i \in 1 .. FirstStale(flags) - 1 :
                       snapshot[i].flags = flags

\* A stage is skipped only if what it would compute is what it holds.
SkipsAreSound == SkippedIsCurrent /\ SkippedMatchesFlags
=============================================================================
