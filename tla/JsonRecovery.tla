---------------------------- MODULE JsonRecovery ----------------------------
(***************************************************************************)
(* JSON in the text of a reply (utils/json_recovery.py), fences stripped:  *)
(* what is extracted from it, and what is salvaged when it was cut off.    *)
(*                                                                         *)
(* A text is a sequence of tokens: brackets (array, endarray), braces      *)
(* (object, endobject), commas, quotes, and x for anything else, a scalar  *)
(* or a word; the keys of an object are left out, as are escapes.  A value *)
(* is told by its span.  The text grows by a token at a time, so that      *)
(* every text up to a length is looked at.                                 *)
(***************************************************************************)
EXTENDS Integers, Sequences, FiniteSets, FiniteSetsExt

CONSTANTS
  MaxScanFailures,   \* _MAX_SCAN_FAILURES
  MaxLen             \* bound

Tokens == {"array", "endarray", "object", "endobject", "comma", "quote", "x"}

\* The scan is not given up before it starts.
ScanAssumption == MaxScanFailures \in Nat \ {0} /\ MaxLen \in Nat

VARIABLE text

Init == text = <<>>
Next == Len(text) < MaxLen /\ \E c \in Tokens : text' = Append(text, c)
Spec == Init /\ [][Next]_text

Closer(c)  == IF c = "array" THEN "endarray" ELSE "endobject"
First(set) == IF set = {} THEN 0 ELSE Min(set)
Cut(t, i, j) == SubSeq(t, i, j)

-----------------------------------------------------------------------------
(* json.loads: how far the value that starts at i reaches, or the members up *)
(* to a closer; past the text if they are cut off, 0 if there are none.      *)

Kinds == {"value", "endarray", "endobject"}

ValueEnd(t, i, ends) ==
  CASE t[i] = "x"  -> i
    [] t[i] = "quote" -> Min({j \in i + 1 .. Len(t) : t[j] = "quote"} \cup {Len(t) + 1})
    [] t[i] \in {"array", "object"} ->
         IF i < Len(t) /\ t[i + 1] = Closer(t[i]) THEN i + 1 ELSE ends[i + 1][Closer(t[i])]
    [] OTHER -> 0

\* e is where the first of them ends.
MembersEnd(t, i, closer, e, ends) ==
  IF e \notin i .. Len(t) - 1 THEN IF e = 0 THEN 0 ELSE Len(t) + 1
  ELSE IF t[e + 1] = closer THEN e + 1
  ELSE IF t[e + 1] = "comma" THEN ends[e + 2][closer] ELSE 0

EndsFrom(t, i, ends) ==
  LET e == ValueEnd(t, i, ends)
  IN [kind \in Kinds |-> IF i > Len(t) THEN Len(t) + 1
                         ELSE IF kind = "value" THEN e ELSE MembersEnd(t, i, kind, e, ends)]

Ends(t) == LET ends[i \in 1 .. Len(t) + 1] == EndsFrom(t, i, ends) IN ends

Reach(t, i) == Ends(t)[i]["value"]

Parses(t) == t # <<>> /\ Reach(t, 1) = Len(t)

-----------------------------------------------------------------------------
(* Spans.  Quotes are counted from where a search starts. *)

Quotes(t, i, k) == Cardinality({j \in i .. k - 1 : t[j] = "quote"})
Bare(t, i, k)   == Quotes(t, i, k) % 2 = 0
Depth(t, i, k, opener) ==
  Cardinality({j \in i .. k : t[j] = opener /\ Bare(t, i, j)})
    - Cardinality({j \in i .. k : t[j] = Closer(opener) /\ Bare(t, i, j)})

FindMatchingClose(t, i, opener) ==
  First({k \in i .. Len(t) : t[k] = Closer(opener) /\ Bare(t, i, k) /\ Depth(t, i, k, opener) = 0})

Find(t, opener, i) == First({j \in i .. Len(t) : t[j] = opener})

UnclosedFrom(t, opener, i, unclosed) ==
  LET at  == Find(t, opener, i)
      end == FindMatchingClose(t, at, opener)
  IN IF at = 0 THEN 0 ELSE IF end = 0 THEN at ELSE unclosed[end + 1]

FirstUnclosed(t, opener) ==
  LET unclosed[i \in 1 .. Len(t) + 1] == UnclosedFrom(t, opener, i, unclosed) IN unclosed[1]

\* Faulty variant: candidates may be anywhere.
NoCut(t) == Len(t) + 1

\* Nothing past the first opener that is never closed can be the payload.
PayloadCut(t) ==
  Min({Len(t) + 1} \cup ({FirstUnclosed(t, "object"), FirstUnclosed(t, "array")} \ {0}))

CarriesObject(v) == \E k \in 1 .. Len(v) - 1 : v[k] = "object" /\ Bare(v, 1, k) /\ v[k + 1] # "endobject"
NotEmpty(v)      == Len(v) > 2

\* The spans [at, value] found from i on; a span that does not parse is not entered.
ScanFrom(t, opener, i, failures, found) ==
  LET at    == Find(t, opener, i)
      end   == FindMatchingClose(t, at, opener)
      value == Cut(t, at, end)
  IN IF at = 0 \/ at >= PayloadCut(t) \/ failures >= MaxScanFailures THEN {}
     ELSE IF end = 0 THEN found[at + 1][failures + 1]
     ELSE IF ~Parses(value) THEN found[end + 1][failures + 1]
     ELSE {[at |-> at, value |-> value]} \cup
          IF (at = 1 /\ NotEmpty(value)) \/ CarriesObject(value) THEN {}
          ELSE found[end + 1][failures]

Scan(t, opener) ==
  LET found[i \in 1 .. Len(t) + 1] ==
        [failures \in 0 .. MaxScanFailures |-> ScanFrom(t, opener, i, failures, found)]
  IN found[1][0]

\* A span at the very start wins unless it is empty, then one with an object in it, then the first.
Outranks(s, r) ==
  LET start(c) == c.at = 1 /\ NotEmpty(c.value)
  IN \/ start(s) /\ ~start(r)
     \/ start(s) = start(r) /\ CarriesObject(s.value) /\ ~CarriesObject(r.value)
     \/ start(s) = start(r) /\ CarriesObject(s.value) = CarriesObject(r.value) /\ s.at <= r.at

Best(spans) == IF spans = {} THEN <<>>
               ELSE (CHOOSE s \in spans : \A r \in spans : Outranks(s, r)).value

DropNested(spans) ==
  {s \in spans : ~\E r \in spans \ {s} :
     r.at <= s.at /\ s.at + Len(s.value) <= r.at + Len(r.value)}

ExtractJson(t) ==
  IF Parses(t) THEN t ELSE Best(DropNested(Scan(t, "object") \cup Scan(t, "array")))

\* Up to the last object that closes at the top of the first unclosed array.
RecoverTruncated(t) ==
  LET unclosed == FirstUnclosed(t, "array")
      start    == IF unclosed = 0 THEN Find(t, "array", 1) ELSE unclosed
      closes   == {k \in start + 1 .. Len(t) : /\ t[k] = "endobject" /\ Bare(t, start + 1, k)
                                               /\ Depth(t, start + 1, k, "object") = 0}
      whole    == Append(Cut(t, start, Max(closes)), "endarray")
  IN IF start = 0 \/ closes = {} THEN <<>> ELSE IF Parses(whole) THEN whole ELSE <<>>

-----------------------------------------------------------------------------
(* What a reply means: words, then one container, then words. *)

Start(t) == First({k \in 1 .. Len(t) : t[k] # "x"})
IsReply(t) == Start(t) # 0 /\ t[Start(t)] \in {"array", "object"}

CutOff(t) == IsReply(t) /\ Reach(t, Start(t)) = Len(t) + 1

Answer(t) == Cut(t, Start(t), Reach(t, Start(t)))
Whole(t) == /\ IsReply(t) /\ Reach(t, Start(t)) \in 1 .. Len(t)
            /\ \A k \in Reach(t, Start(t)) + 1 .. Len(t) : t[k] = "x"

\* Where the elements from i on start.
StartsFrom(t, i, starts) ==
  LET e == Reach(t, i)
  IN IF i > Len(t) THEN {} ELSE {i} \cup IF e \in i .. Len(t) - 1 THEN starts[e + 2] ELSE {}

Starts(t) == LET starts[i \in 1 .. Len(t) + 1] == StartsFrom(t, i, starts) IN starts

ObjectsOnly(t, i) == \A p \in Starts(t)[i] : t[p] = "object"

\* The ends of those that are there in whole.
ObjectEnds(t, i) == {Reach(t, p) : p \in Starts(t)[i]} \cap 1 .. Len(t)

\* A reply in one piece is extracted as it is, words around it or not.  Of one that was cut off
\* nothing is extracted, so that recovery has its turn; and from an array of objects recovery
\* has exactly those that arrived in whole.
RepliesAreRead ==
  /\ Whole(text) => ExtractJson(text) = Answer(text)
  /\ CutOff(text) => ExtractJson(text) = <<>>
  /\ CutOff(text) /\ text[Start(text)] = "array" /\ ObjectsOnly(text, Start(text) + 1) =>
       LET ends == ObjectEnds(text, Start(text) + 1)
       IN RecoverTruncated(text) =
            IF ends = {} THEN <<>> ELSE Append(Cut(text, Start(text), Max(ends)), "endarray")

=============================================================================
