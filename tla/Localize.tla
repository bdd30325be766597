------------------------------ MODULE Localize ------------------------------
(***************************************************************************)
(* fetch/images.py: the remote images of a document are fetched into a     *)
(* directory and their references turned local, in passes that may be      *)
(* killed anywhere and are run again; the file is the ledger.              *)
(*                                                                         *)
(* One pass works at a time.  A file's content is the URL it came from.    *)
(* Both writes replace their file whole (atomic_write_bytes, _text).       *)
(***************************************************************************)
EXTENDS Naturals, FiniteSets, FiniteSetsExt

CONSTANTS
  Urls, Names,
  NameOf,        \* [Urls -> Names]: namer(url), with the extension its bytes are sniffed to
  Syntaxes,      \* how a reference may be written
  CheckpointEvery,
  MaxPasses,     \* bound
  None

LocalizeAssumption ==
  /\ IsFiniteSet(Urls) /\ NameOf \in [Urls -> Names] /\ MaxPasses \in Nat
  /\ CheckpointEvery \in Nat \ {0}
  /\ None \notin Urls /\ None \notin Names \X Nat

\* A file name: the base, "-2", "-3"... before its extension from the second on.
Files == Names \X (1 .. Cardinality(Urls) * MaxPasses)

VARIABLES
  syntax,      \* [Urls -> Syntaxes]
  doc,         \* [Urls -> None while remote, or the file it refers to], on disk
  files,       \* images_dir: [Files -> None or the URL its bytes came from]
  pass,        \* the pass under way
  passes,
  reused       \* a pass ran with reuse_existing (history)

localizeVars == <<syntax, doc, files, pass, passes, reused>>

NoPass == [pc |-> "idle", text |-> None, left |-> {}, used |-> {}, reuse |-> FALSE,
           since |-> 0]

Init ==
  /\ syntax \in [Urls -> Syntaxes]
  /\ doc = [u \in Urls |-> None]
  /\ files = [f \in Files |-> None]
  /\ pass = NoPass /\ passes = 0 /\ reused = FALSE

Targets(text) == {u \in Urls : text[u] = None}
OnDisk        == {f \in Files : files[f] # None}

\* Faulty variant: names are claimed against this pass alone.
NothingUsed(reuse) == {}

Used(reuse) == IF reuse THEN {} ELSE OnDisk

Setup ==
  /\ pass.pc = "idle" /\ passes < MaxPasses /\ Targets(doc) # {}
  /\ \E reuse \in BOOLEAN :
       /\ pass' = [NoPass EXCEPT !.pc = "fetch", !.text = doc, !.left = Targets(doc),
                                 !.used = Used(reuse), !.reuse = reuse]
       /\ reused' = (reused \/ reuse)
  /\ passes' = passes + 1
  /\ UNCHANGED <<syntax, doc, files>>

\* "src=" is matched in any case, but replaced as it is spelt here.
Retarget(text, u, f) == IF syntax[u] = "SRC" THEN text ELSE [text EXCEPT ![u] = f]

Localized(u, f) ==
  LET text  == Retarget(pass.text, u, f)
      since == pass.since + 1
      due   == since >= CheckpointEvery
  IN pass' = [pass EXCEPT !.text = text, !.left = @ \ {u}, !.used = @ \cup {f},
                          !.since = since, !.pc = IF due THEN "checkpoint" ELSE "fetch"]

\* The file of an earlier pass, or of another URL of the same name.
Reuse(u) ==
  /\ files[<<NameOf[u], 1>>] # None
  /\ Localized(u, <<NameOf[u], 1>>)
  /\ UNCHANGED files

\* The first free name; a pass that reuses takes the name as it is.
ClaimName(u) ==
  IF pass.reuse THEN <<NameOf[u], 1>>
  ELSE <<NameOf[u], Min({i \in 1 .. Cardinality(Urls) * MaxPasses : <<NameOf[u], i>> \notin pass.used})>>

Download(u) ==
  \/ /\ files' = [files EXCEPT ![ClaimName(u)] = u]
     /\ Localized(u, ClaimName(u))
  \* No answer, or no image in it; or the write fails, its name claimed.
  \/ /\ \E claimed \in {{}, {ClaimName(u)}} :
          pass' = [pass EXCEPT !.left = @ \ {u}, !.used = @ \cup claimed]
     /\ UNCHANGED files

LocalizeOne ==
  /\ pass.pc = "fetch"
  /\ \E u \in pass.left :
       IF pass.reuse /\ files[<<NameOf[u], 1>>] # None THEN Reuse(u) ELSE Download(u)
  /\ UNCHANGED <<syntax, doc, passes, reused>>

Checkpoint ==
  /\ pass.pc = "checkpoint"
  /\ doc' = pass.text
  /\ pass' = [pass EXCEPT !.pc = "fetch", !.since = 0]
  /\ UNCHANGED <<syntax, files, passes, reused>>

Finish ==
  /\ pass.pc = "fetch" /\ pass.left = {}
  /\ doc' = pass.text
  /\ pass' = NoPass
  /\ UNCHANGED <<syntax, files, passes, reused>>

\* The run is killed.
Crash ==
  /\ pass.pc # "idle"
  /\ pass' = NoPass
  /\ UNCHANGED <<syntax, doc, files, passes, reused>>

Next == Setup \/ LocalizeOne \/ Checkpoint \/ Finish \/ Crash

Spec == Init /\ [][Next]_localizeVars

-----------------------------------------------------------------------------
\* default_namer may give two URLs one name.
Shared(u) == \E v \in Urls \ {u} : NameOf[v] = NameOf[u]

\* "A killed run keeps its progress: finished refs are local": wherever passes were killed, a local
\* reference in the document is to a file with the image of its URL; names that URLs share hold
\* only while no pass reuses files.  No more than a checkpoint's worth of images is lost.
KeepsItsProgress ==
  /\ \A u \in Urls : doc[u] # None /\ ~(reused /\ Shared(u)) => files[doc[u]] = u
  /\ pass.pc # "idle" =>
       /\ \A u \in Urls : doc[u] # None => pass.text[u] = doc[u]
       /\ Cardinality({u \in Urls : pass.text[u] # doc[u]}) <= CheckpointEvery

=============================================================================
