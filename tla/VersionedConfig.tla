-------------------------- MODULE VersionedConfig ---------------------------
(***************************************************************************)
(* Append-only configuration versions (db/versioned_config.py), appended   *)
(* by concurrent transactions.                                             *)
(*                                                                         *)
(* append_version is two or three statements; an insert shows when its     *)
(* transaction commits, and a conflicting insert waits for that commit, so *)
(* insert and commit are one step here.  A transaction reads either the    *)
(* rows committed by the time of each statement, or, if repeatable, those  *)
(* of its first one.                                                       *)
(***************************************************************************)
EXTENDS Naturals, FiniteSets, FiniteSetsExt

CONSTANTS
  Writers,
  Scopes,        \* scopes of the configuration table
  Keyed,         \* those that the table's unique key (scope, version) covers: no NULL in them
  Columns,
  MaxVersions,   \* bound: rows in all
  None

\* What a column holds: the mark of the writer that set it, or the table's default.
Cells == (Writers \X Nat) \cup {None}
Rows  == [scope : Scopes, version : Nat, given : SUBSET Columns, row : [Columns -> Cells]]

NoneAssumption == None \notin Rows

VARIABLES
  configs,   \* the rows: [scope, version, row, given], given is what the caller set (history)
  writer

vars == <<configs, writer>>

IdleWriter == [pc |-> "idle", scope |-> None, given |-> {}, next |-> 0, prior |-> None]

Init ==
  /\ configs = {}
  /\ writer = [w \in Writers |-> IdleWriter]

At(w, pc) == writer[w].pc = pc
Me(w)     == writer[w]

-----------------------------------------------------------------------------
(* Versioned configuration. *)

OfScope(scope)       == {r \in configs : r.scope = scope}
LatestVersion(scope) == Max({0} \cup {r.version : r \in OfScope(scope)})

\* Rows of equal version come in any order.
GetLatest(scope) ==
  IF OfScope(scope) = {} THEN {None}
  ELSE {r \in OfScope(scope) : r.version = LatestVersion(scope)}

\* append_version: the highest version, then the row that has it if columns are carried forward.
\* A repeatable transaction reads both from one snapshot.
ReadLatest(w) ==
  /\ At(w, "idle") /\ Cardinality(configs) < MaxVersions
  /\ \E scope \in Scopes, given \in SUBSET Columns :
       LET begun == [IdleWriter EXCEPT !.pc = "insert", !.scope = scope, !.given = given,
                                       !.next = LatestVersion(scope) + 1]
       IN \/ /\ given = Columns
             /\ writer' = [writer EXCEPT ![w] = begun]
          \/ writer' = [writer EXCEPT ![w] = [begun EXCEPT !.pc = "prior"]]
          \/ \E prior \in GetLatest(scope) :
               writer' = [writer EXCEPT ![w] = [begun EXCEPT !.prior = prior]]
  /\ UNCHANGED configs

ReadPrior(w) ==
  /\ At(w, "prior")
  /\ \E prior \in GetLatest(Me(w).scope) :
       writer' = [writer EXCEPT ![w].prior = prior, ![w].pc = "insert"]
  /\ UNCHANGED configs

\* Faulty variant: the version is the next one at the time of the insert.
NextAtInsert(w) == LatestVersion(Me(w).scope) + 1

NextVersion(w) == Me(w).next

\* A column the caller set is marked with the writer and version; the rest comes from the row
\* before, or is left to the table's default.
Carried(w, c) ==
  IF c \in Me(w).given THEN <<w, NextVersion(w)>>
  ELSE IF Me(w).prior = None THEN None ELSE Me(w).prior.row[c]

NewRow(w) == [scope |-> Me(w).scope, version |-> NextVersion(w), given |-> Me(w).given,
              row |-> [c \in Columns |-> Carried(w, c)]]

Conflicts(w) ==
  Me(w).scope \in Keyed /\ \E r \in OfScope(Me(w).scope) : r.version = NextVersion(w)

\* The unique key refuses a version that is there: the caller's transaction fails.
Insert(w) ==
  /\ At(w, "insert")
  /\ configs' = IF Conflicts(w) THEN configs ELSE configs \cup {NewRow(w)}
  /\ writer' = [writer EXCEPT ![w] = IdleWriter]

Next == \E w \in Writers : ReadLatest(w) \/ ReadPrior(w) \/ Insert(w)

Spec == Init /\ [][Next]_vars

-----------------------------------------------------------------------------
\* "A full, auditable history" (db/versioned_config.py): where the unique key holds, the versions
\* of a scope are 1, 2, ... with one row each, and a column that its writer left open has the
\* value of the version right before, whoever else appends and at either isolation level.
Lineage ==
  \A r \in configs : r.scope \in Keyed =>
    /\ r.version \in Nat \ {0}
    /\ \A s \in OfScope(r.scope) : s.version = r.version => s = r
    /\ r.version > 1 => \E s \in OfScope(r.scope) :
         s.version = r.version - 1 /\ \A c \in Columns \ r.given : r.row[c] = s.row[c]

=============================================================================
