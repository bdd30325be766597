------------------------------ MODULE Upserts ------------------------------
(***************************************************************************)
(* insert_ignore and upsert (db/upsert.py) on each dialect, which builds a *)
(* statement of its own: the same calls are made on one table per dialect, *)
(* side by side.                                                           *)
(*                                                                         *)
(* The table has a generated id (the number of the call that inserted the  *)
(* row; the databases leave different gaps), unique keys that NULL never   *)
(* conflicts in, and a last column "note" in no key.                       *)
(***************************************************************************)
EXTENDS Naturals, FiniteSets

CONSTANTS
  Columns,       \* those of the keys
  Keys,          \* the unique keys, sets of columns
  Values,        \* with None, the NULL, and Bad, which the database refuses (too long, say)
  Bad, None,
  MaxCalls       \* bound

Dialects == {"sqlite", "postgresql", "mysql"}

VARIABLES
  table,         \* [Dialects -> the rows]
  said,          \* [Dialects -> what the latest call returned: 0, 1, "done" or "error"]
  calls

upsertVars == <<table, said, calls>>

Init ==
  /\ table = [d \in Dialects |-> {}]
  /\ said = [d \in Dialects |-> "done"]
  /\ calls = 0

Inputs == [Columns \cup {"note"} -> Values]

SameKey(key, r, v) == \A c \in key : r.row[c] = v[c] /\ v[c] # None
Duplicates(rows, v) == {r \in rows : \E key \in Keys : SameKey(key, r, v)}
Refused(v)   == \E c \in DOMAIN v : v[c] = Bad
WithRow(d, v) == table[d] \cup {[id |-> calls + 1, row |-> v]}

\* A statement ends in rows and an answer; one that raises changes nothing.
Error(d) == [rows |-> table[d], answer |-> "error"]

-----------------------------------------------------------------------------
(* SQLite and PostgreSQL: ON CONFLICT (conflict), and an error on any other key. *)

OnConflict(d, v, conflict, hit, answers) ==
  LET clash == {r \in table[d] : SameKey(conflict, r, v)}
  IN IF Refused(v) THEN Error(d)
     ELSE IF clash # {} THEN [rows |-> hit, answer |-> answers[1]]
     ELSE IF Duplicates(table[d], v) # {} THEN Error(d)
     ELSE [rows |-> WithRow(d, v), answer |-> answers[2]]

Overwritten(d, v, r, update) ==
  (table[d] \ {r})
    \cup {[r EXCEPT !.row = [c \in DOMAIN v |-> IF c \in update THEN v[c] ELSE @[c]]]}

TheRow(rows) == CHOOSE r \in rows : TRUE

-----------------------------------------------------------------------------
(* MySQL and MariaDB: ON DUPLICATE KEY UPDATE, on whichever key. *)

\* Faulty variant: INSERT IGNORE makes a warning of a value that is refused.
InsertIgnoreStatement(v) ==
  IF Duplicates(table["mysql"], v) # {} THEN [rows |-> table["mysql"], answer |-> 0]
  ELSE [rows |-> WithRow("mysql", v), answer |-> 1]

\* Faulty variant: the update that does nothing is written with the incoming id.
RekeyedStatement(v) ==
  LET clash == Duplicates(table["mysql"], v)
  IN IF Refused(v) THEN Error("mysql")
     ELSE IF clash # {}
       THEN [rows |-> {IF r \in clash THEN [r EXCEPT !.id = calls + 1] ELSE r : r \in table["mysql"]},
             answer |-> 0]
     ELSE [rows |-> WithRow("mysql", v), answer |-> 1]

\* The update changes nothing, and its sentinel as the id of the insert tells of the duplicate.
NoOpStatement(v) ==
  IF Refused(v) THEN Error("mysql")
  ELSE IF Duplicates(table["mysql"], v) # {} THEN [rows |-> table["mysql"], answer |-> 0]
  ELSE [rows |-> WithRow("mysql", v), answer |-> 1]

UpdateStatement(v, update) ==
  LET clash == Duplicates(table["mysql"], v)
  IN IF Refused(v) THEN Error("mysql")
     ELSE IF clash # {}
       THEN [rows |-> Overwritten("mysql", v, TheRow(clash), update), answer |-> "done"]
     ELSE [rows |-> WithRow("mysql", v), answer |-> "done"]

-----------------------------------------------------------------------------
Ends(result(_)) ==
  /\ table' = [d \in Dialects |-> result(d).rows]
  /\ said' = [d \in Dialects |-> result(d).answer]
  /\ calls' = calls + 1

InsertIgnore(v, conflict) ==
  LET Result(d) == IF d = "mysql" THEN NoOpStatement(v)
                   ELSE OnConflict(d, v, conflict, table[d], <<0, 1>>)
  IN Ends(Result)

\* No conflict or no update columns is an InvalidInputError before anything is sent.
Upsert(v, conflict, update) ==
  LET hit(d) == {r \in table[d] : SameKey(conflict, r, v)}
      Result(d) == IF d = "mysql" THEN UpdateStatement(v, update)
                   ELSE OnConflict(d, v, conflict,
                          IF hit(d) = {} THEN {} ELSE Overwritten(d, v, TheRow(hit(d)), update),
                          <<"done", "done">>)
  IN Ends(Result)

Next ==
  /\ calls < MaxCalls
  /\ \E v \in Inputs, conflict \in Keys :
       \/ InsertIgnore(v, conflict)
       \/ \E update \in SUBSET (DOMAIN v \ conflict) \ {{}} : Upsert(v, conflict, update)

Spec == Init /\ [][Next]_upsertVars

-----------------------------------------------------------------------------
\* "Behaviour is identical across dialects: a duplicate-key conflict is skipped, but any other
\* error still raises": after the same calls a table with one unique key has the same rows under
\* the same ids, and the latest call ended the same, whatever the statement was.  (With several
\* keys MySQL takes whichever conflicts, as the module says.)
SameOnEveryDialect ==
  Cardinality(Keys) = 1 =>
    \A d, e \in Dialects : table[d] = table[e] /\ said[d] = said[e]

=============================================================================
