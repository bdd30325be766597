----------------------------- MODULE Baselines ------------------------------
(***************************************************************************)
(* Baselines of a pipeline's output (pipeline/baseline.py): copied file by *)
(* file by savers that may fail or die anywhere, listed, and compared with *)
(* the live output (pipeline/baseline_diff.py).                            *)
(*                                                                         *)
(* The output is its sections, paths with bodies; the consolidated text    *)
(* and the index stand or fall like one more section.  Paths are numbers   *)
(* in sorted order.                                                        *)
(***************************************************************************)
EXTENDS Naturals, FiniteSets, FiniteSetsExt

CONSTANTS
  Savers, Labels,
  MaxPath, Bodies,
  Near,          \* pairs of paths in one folder with names close to each other
  Alike,         \* [Bodies \X Bodies -> 0 .. 10]: how similar two bodies are, 10 if equal
  Threshold,     \* _RENAME_SIMILARITY_MIN
  MaxSaves, MaxRuns,   \* bounds
  None

Paths   == 1 .. MaxPath
Outputs == [Paths -> Bodies \cup {None}]

Copies == [sections : Outputs, record : Nat]

\* A label without a baseline is told from one with a baseline.
NoneAssumption == None \notin Copies

\* What is equal is similar.
AlikeAssumption ==
  /\ MaxPath \in Nat /\ Threshold \in 0 .. 10
  /\ Alike \in [Bodies \X Bodies -> 0 .. 10] /\ \A b \in Bodies : Alike[<<b, b>>] = 10

VARIABLES
  output, version,   \* the live sections, the version in run.json
  baseline,          \* [Labels -> Copies, or None]: record 0 while it is not copied whole
  meant,             \* [Labels -> the output at the time of the save] (history)
  saver,
  saves

baselineVars == <<output, version, baseline, meant, saver, saves>>

IdleSaver == [pc |-> "idle", label |-> None, version |-> 0, left |-> {}]

Init ==
  /\ output \in Outputs
  /\ version = 1
  /\ baseline = [l \in Labels |-> None]
  /\ meant = [l \in Labels |-> None]
  /\ saver = [s \in Savers |-> IdleSaver]
  /\ saves = 0

At(s, pc)   == saver[s].pc = pc
Leaves(s)   == saver' = [saver EXCEPT ![s] = IdleSaver]
PathsOf(o)  == {p \in Paths : o[p] # None}

-----------------------------------------------------------------------------
(* save_baseline. *)

\* The run record is read, and the label must be new.  auto_snapshot_on_version_change takes the
\* version as label, or one with the time if there is a baseline of it.
SaveBegin(s) ==
  /\ At(s, "idle") /\ saves < MaxSaves
  /\ saves' = saves + 1
  /\ \E l \in Labels :
       /\ baseline[l] = None
       /\ saver' = [saver EXCEPT ![s] = [IdleSaver EXCEPT !.pc = "mkdir", !.label = l,
                                                          !.version = version]]
  /\ UNCHANGED <<output, version, baseline, meant>>

\* A directory that came up since is an OSError.
Mkdir(s) ==
  /\ At(s, "mkdir")
  /\ IF baseline[saver[s].label] # None
       THEN Leaves(s) /\ UNCHANGED <<baseline, meant>>
       ELSE /\ baseline' = [baseline EXCEPT ![saver[s].label] =
                              [sections |-> [p \in Paths |-> None], record |-> 0]]
            /\ meant' = [meant EXCEPT ![saver[s].label] = output]
            /\ saver' = [saver EXCEPT ![s].pc = "copy", ![s].left = PathsOf(output)]
  /\ UNCHANGED <<output, version, saves>>

\* Faulty variant: a section that cannot be copied is passed over.
CopyIfPossible(s) ==
  /\ At(s, "copy")
  /\ \E p \in saver[s].left :
       /\ \/ baseline' = [baseline EXCEPT ![saver[s].label].sections[p] = output[p]]
          \/ UNCHANGED baseline
       /\ saver' = [saver EXCEPT ![s].left = @ \ {p}]
  /\ UNCHANGED <<output, version, meant, saves>>

Copy(s) ==
  /\ At(s, "copy")
  /\ \E p \in saver[s].left :
       /\ baseline' = [baseline EXCEPT ![saver[s].label].sections[p] = output[p]]
       /\ saver' = [saver EXCEPT ![s].left = @ \ {p}]
  /\ UNCHANGED <<output, version, meant, saves>>

\* The record comes last.  A copy that is cut short (0) is no JSON.
CopyRecord(s) ==
  /\ At(s, "copy") /\ saver[s].left = {}
  /\ \E record \in {version, 0} :
       baseline' = [baseline EXCEPT ![saver[s].label].record = record]
  /\ Leaves(s)
  /\ UNCHANGED <<output, version, meant, saves>>

\* A copy fails, or the process dies: the directory stays as it is.
SaveFails(s) ==
  /\ ~At(s, "idle")
  /\ Leaves(s)
  /\ UNCHANGED <<output, version, baseline, meant, saves>>

\* A run writes other sections; none is under way during a save.
Rewrite ==
  /\ version < MaxRuns
  /\ \A s \in Savers : At(s, "idle")
  /\ output' \in Outputs
  /\ version' \in {version, version + 1}
  /\ UNCHANGED <<baseline, meant, saver, saves>>

Next ==
  \/ \E s \in Savers : SaveBegin(s) \/ Mkdir(s) \/ Copy(s) \/ CopyRecord(s) \/ SaveFails(s)
  \/ Rewrite

Spec == Init /\ [][Next]_baselineVars

\* list_baselines skips directories without a record, and those whose record is no JSON.
Listed == {l \in Labels : baseline[l] # None /\ baseline[l].record > 0}

-----------------------------------------------------------------------------
(* diff_baseline. *)

Added(base, curr)   == PathsOf(curr) \ PathsOf(base)
Removed(base, curr) == PathsOf(base) \ PathsOf(curr)

\* Faulty variant: a new path may be the new name of several.
AllOf(added, pairs) == added

Unpaired(added, pairs) == {q \in added : \A r \in pairs : r[2] # q}

\* Of the added paths that fit p and are not taken, the most similar, and of those the first.
\* (Those with the body of p are all as similar as can be.)
Pair(base, curr, fit, pairs, p) ==
  LET alike(q) == Alike[<<base[p], curr[q]>>]
      near == {q \in Unpaired(Added(base, curr), pairs) : <<p, q>> \in fit}
      best == {q \in near : \A r \in near : alike(q) >= alike(r)}
  IN IF p \notin Removed(base, curr) \/ (\E r \in pairs : r[1] = p) \/ best = {}
       THEN pairs
       ELSE pairs \cup {<<p, Min(best)>>}

\* A pass over the removed paths that are left, in order: pairs[p] is what is paired after p.
Pass(base, curr, fit, start) ==
  LET pairs[p \in 0 .. MaxPath] ==
        IF p = 0 THEN start ELSE Pair(base, curr, fit, pairs[p - 1], p)
  IN pairs[MaxPath]

\* First pass: a removed path goes with the first added one of the same body.
SameBody(base, curr) ==
  LET same == {r \in Removed(base, curr) \X Added(base, curr) : base[r[1]] = curr[r[2]]}
  IN Pass(base, curr, same, {})

\* Second pass: one that is left goes with the most similar of the near ones, the first of them.
Renames(base, curr) ==
  LET near == {r \in Near \cap (Removed(base, curr) \X Added(base, curr)) :
                 Alike[<<base[r[1]], curr[r[2]]>>] >= Threshold}
  IN Pass(base, curr, near, SameBody(base, curr))

\* Bodies are compared line by line only where the path is on both sides.
Diff(base, curr) ==
  LET renames == Renames(base, curr)
  IN [added   |-> {p \in Added(base, curr) : \A r \in renames : r[2] # p},
      removed |-> {p \in Removed(base, curr) : \A r \in renames : r[1] # p},
      renamed |-> renames,
      changed |-> {p \in PathsOf(base) \cap PathsOf(curr) : base[p] # curr[p]}]

-----------------------------------------------------------------------------
\* A listed baseline holds the whole output it was taken of, whoever failed or died while saving,
\* and however labels were contended for.
ListedIsComplete == \A l \in Listed : baseline[l].sections = meant[l]

\* A report against a listed baseline accounts for every path once: from the baseline's sections,
\* dropping the removed, moving the renamed and adding the added gives the paths of today, and a
\* body that is not reported changed is the same.
DiffAccounts ==
  \A l \in Listed :
    LET base == baseline[l].sections
        d    == Diff(base, output)
    IN /\ PathsOf(output) =
            (PathsOf(base) \ (d.removed \cup {r[1] : r \in d.renamed}))
              \cup d.added \cup {r[2] : r \in d.renamed}
       /\ Cardinality(PathsOf(output)) =
            Cardinality(PathsOf(base)) + Cardinality(d.added) - Cardinality(d.removed)
       /\ \A p \in PathsOf(output) \ (d.added \cup d.changed) :
            \/ output[p] = base[p]
            \/ \E r \in d.renamed : r[2] = p /\ Alike[<<base[r[1]], output[p]>>] >= Threshold

\* A baseline that is listed is a whole copy, and a comparison accounts for every pair of files.
BaselinesAreWhole == ListedIsComplete /\ DiffAccounts
=============================================================================
