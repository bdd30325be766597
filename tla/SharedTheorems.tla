--------------------------- MODULE SharedTheorems ---------------------------
(***************************************************************************)
(* What threads, processes and hosts share keeps its promises, for any     *)
(* number of them and at any bounds: a reloaded file, a key in redis,      *)
(* versioned configurations, upserts on three dialects, and baselines.     *)
(* Each part has an inductive invariant of its own; the last section puts  *)
(* them together for the composition.                                      *)
(***************************************************************************)
EXTENDS Shared, FiniteSetTheorems, WellFoundedInduction, TLAPS

-----------------------------------------------------------------------------
(* A file that threads reload (ReloadCache). *)

ReloadThread ==
  [pc : Reload!Pcs, key : FileKeys \cup {None}, force : BOOLEAN, start : 0 .. MaxTime,
   held : Reload!Values \cup {None}, next : Reload!Slots, field : {"value", "key", "at"},
   floor : Nat, answer : Reload!Values \cup {None}]

ReloadType ==
  /\ now \in 0 .. MaxTime
  /\ file \in [FileKeys -> [version : Reload!FileVersions, ok : BOOLEAN]]
  /\ slot \in Reload!Slots
  /\ thread \in [Threads -> ReloadThread]
  /\ shown \in Nat
  /\ loads \in (0 .. MaxTime) \cup {None}

\* One thread moves, and these fields of it stay.
OnlyThread(t) ==
  /\ thread' \in [Threads -> ReloadThread]
  /\ \A u \in Threads \ {t} : thread'[u] = thread[u]

SameGet(t) ==
  /\ thread'[t].key = thread[t].key /\ thread'[t].force = thread[t].force
  /\ thread'[t].floor = thread[t].floor

SameStart(t) ==
  SameGet(t) /\ thread'[t].answer = thread[t].answer /\ thread'[t].held = thread[t].held

SameSlot  == slot' = slot /\ loads' = loads /\ early' = early
SameWorld == now' = now /\ file' = file

\* What a get returns is the newest that was shown, or something newer was shown before.
Answers(t, v) ==
  /\ SameGet(t) /\ thread'[t].held = thread[t].held
  /\ thread'[t].pc = "idle" /\ thread'[t].answer = v
  /\ shown' = IF v.version > shown THEN v.version ELSE shown

\* The steps of a get, by what they leave behind.
Asks(t) ==
  /\ thread[t].pc = "idle" /\ OnlyThread(t) /\ SameSlot /\ SameWorld
  /\ lock' = lock /\ shown' = shown
  /\ thread'[t].pc \in {"value", "lock"} /\ thread'[t].key \in FileKeys
  /\ thread'[t].held = None /\ thread'[t].answer = None /\ thread'[t].floor = shown
  /\ thread'[t].field = "value"

Peeks(t) ==
  /\ OnlyThread(t) /\ SameSlot /\ SameWorld /\ lock' = lock /\ shown' = shown
  /\ SameGet(t) /\ thread'[t].answer = thread[t].answer /\ thread'[t].field = thread[t].field
  /\ \/ /\ thread[t].pc = "value" /\ thread'[t].held = slot.value
        /\ thread'[t].pc = (IF slot.value = None THEN "lock" ELSE "key")
     \/ /\ thread[t].pc \in {"key", "age"} /\ thread'[t].held = thread[t].held
        /\ thread'[t].pc \in {"age", "lock"}

ServesHeld(t) ==
  /\ OnlyThread(t) /\ SameSlot /\ SameWorld /\ lock' = lock
  /\ \/ thread[t].pc = "age" /\ Answers(t, thread[t].held)
     \/ thread[t].pc = "lock" /\ slot.value # None /\ Answers(t, slot.value)

TakesLock(t) ==
  /\ thread[t].pc = "lock" /\ lock = None /\ lock' = t
  /\ OnlyThread(t) /\ SameSlot /\ SameWorld /\ shown' = shown /\ SameStart(t)
  /\ thread'[t].pc = "load" /\ thread'[t].start = now /\ thread'[t].field = thread[t].field
  /\ ~Reload!Serves(thread[t].key, thread[t].force)

LoadsFile(t) ==
  /\ thread[t].pc = "load" /\ lock' = lock /\ slot' = slot /\ shown' = shown
  /\ OnlyThread(t) /\ SameWorld /\ SameStart(t)
  /\ thread'[t].pc = "set" /\ thread'[t].field = thread[t].field
  /\ thread'[t].next.value # None
  /\ thread'[t].next.value.version = file[thread[t].key].version
  /\ thread'[t].next.at = thread[t].start
  /\ loads' = thread[t].start /\ early' = (early \/ ~Reload!Due(t))

KeepsStale(t) ==
  /\ thread[t].pc = "load" /\ lock' = None
  /\ OnlyThread(t) /\ SameWorld /\ thread'[t].pc = "idle"
  /\ early' = (early \/ ~Reload!Due(t))
  /\ \/ /\ slot.value # None /\ slot' = [slot EXCEPT !.at = thread[t].start]
        /\ loads' = thread[t].start /\ Answers(t, slot.value)
     \/ slot' = slot /\ loads' = loads /\ shown' = shown /\ SameStart(t)

Sets(t) ==
  /\ thread[t].pc = "set" /\ OnlyThread(t) /\ SameWorld /\ loads' = loads /\ early' = early
  /\ LET n == thread[t].next
     IN \/ /\ thread[t].field = "value" /\ slot' = [slot EXCEPT !.value = n.value]
           /\ thread'[t].field = "key"
           /\ SameStart(t) /\ thread'[t].next = n /\ thread'[t].pc = "set"
           /\ lock' = lock /\ shown' = shown
        \/ /\ thread[t].field = "key" /\ slot' = [slot EXCEPT !.key = n.key]
           /\ thread'[t].field = "at"
           /\ SameStart(t) /\ thread'[t].next = n /\ thread'[t].pc = "set"
           /\ lock' = lock /\ shown' = shown
        \/ /\ thread[t].field = "at" /\ slot' = [slot EXCEPT !.at = n.at] /\ lock' = None
           /\ \/ n.value = None /\ SameStart(t) /\ thread'[t].pc = "idle" /\ shown' = shown
              \/ n.value # None /\ Answers(t, n.value)

Forgets(t) ==
  /\ thread[t].pc = "idle" /\ lock = None /\ lock' = t /\ OnlyThread(t) /\ SameWorld
  /\ slot' = slot /\ shown' = shown /\ early' = early /\ loads' = None
  /\ thread'[t].pc = "set" /\ thread'[t].field = "value" /\ thread'[t].next.value = None
  /\ thread'[t].held = None /\ thread'[t].answer = None /\ thread'[t].floor = 0

\* Edits and the clock: no thread moves.
Passes ==
  /\ thread' = thread /\ SameSlot /\ lock' = lock /\ shown' = shown
  /\ now' \in 0 .. MaxTime
  /\ file' \in [FileKeys -> [version : Reload!FileVersions, ok : BOOLEAN]]
  /\ \A k \in FileKeys : file'[k].version >= file[k].version

ReloadTurn(t) ==
  \/ Asks(t) \/ Peeks(t) \/ ServesHeld(t) \/ TakesLock(t) \/ LoadsFile(t) \/ KeepsStale(t)
  \/ Sets(t) \/ Forgets(t)

\* A get is for a path; the fast path holds what it read.
GetsOK ==
  \A t \in Threads :
    /\ thread[t].pc \in {"value", "key", "age", "lock", "load"} =>
         thread[t].key \in FileKeys /\ thread[t].field = "value"
    /\ thread[t].pc \in {"key", "age"} => thread[t].held # None

-----------------------------------------------------------------------------
LEMMA ReloadTypes ==
  /\ Ttl \in Nat /\ MaxTime \in Nat /\ MaxEdits \in Nat
  /\ None \notin Reload!Values /\ None \notin Threads /\ None \notin Nat
BY FileAssumption DEF Reload!ReloadAssumption

LEMMA OneThreadMoves ==
  ASSUME ReloadType, NEW t \in Threads, NEW new \in ReloadThread,
         thread' = [thread EXCEPT ![t] = new]
  PROVE  OnlyThread(t) /\ thread'[t] = new
BY DEF OnlyThread, ReloadType

LEMMA ThreadFields ==
  ASSUME ReloadType, NEW t \in Threads
  PROVE  /\ thread[t] \in ReloadThread /\ thread[t].pc \in Reload!Pcs
         /\ thread[t].key \in FileKeys \cup {None} /\ thread[t].force \in BOOLEAN
         /\ thread[t].start \in 0 .. MaxTime
         /\ thread[t].held \in Reload!Values \cup {None} /\ thread[t].next \in Reload!Slots
         /\ thread[t].field \in {"value", "key", "at"} /\ thread[t].floor \in Nat
         /\ thread[t].answer \in Reload!Values \cup {None}
BY DEF ReloadType, ReloadThread

LEMMA EmptySlotOK ==
  /\ Reload!EmptySlot \in Reload!Slots
  /\ Reload!EmptySlot.value = None
BY ReloadTypes DEF Reload!EmptySlot, Reload!Slots

LEMMA IdleThreadOK ==
  /\ Reload!IdleThread \in ReloadThread /\ Reload!IdleThread.pc = "idle"
  /\ Reload!IdleThread.held = None /\ Reload!IdleThread.answer = None
  /\ Reload!IdleThread.floor = 0 /\ Reload!IdleThread.next.value = None
  /\ Reload!IdleThread.field = "value"
BY ReloadTypes, EmptySlotOK DEF Reload!IdleThread, ReloadThread, Reload!Pcs

\* Every action of ReloadCache is one of these.
LEMMA BeginAsks ==
  ASSUME ReloadType, NEW t \in Threads, Reload!Begin(t)
  PROVE  Asks(t)
<1>1. PICK k \in FileKeys, force \in BOOLEAN :
        thread' = [thread EXCEPT ![t] = [Reload!IdleThread EXCEPT !.key = k, !.force = force,
                     !.start = now, !.floor = shown, !.pc = IF force THEN "lock" ELSE "value"]]
  BY DEF Reload!Begin
<1> DEFINE pc  == IF force THEN "lock" ELSE "value"
           new == [Reload!IdleThread EXCEPT !.key = k, !.force = force,
                     !.start = now, !.floor = shown, !.pc = pc]
<1>2. /\ new \in ReloadThread /\ new.pc \in {"value", "lock"} /\ new.key = k
      /\ new.held = None /\ new.answer = None /\ new.floor = shown /\ new.field = "value"
  <2>2. pc \in {"value", "lock"} /\ pc \in Reload!Pcs
    BY DEF Reload!Pcs
  <2> HIDE DEF pc
  <2>3. now \in 0 .. MaxTime /\ shown \in Nat
    BY DEF ReloadType
  <2>4. new \in ReloadThread
    BY <2>2, <2>3, IdleThreadOK DEF ReloadThread
  <2>5. /\ new.pc = pc /\ new.key = k /\ new.held = None /\ new.answer = None
        /\ new.floor = shown /\ new.field = "value"
    BY IdleThreadOK DEF ReloadThread
  <2> QED  BY <2>2, <2>4, <2>5
<1>3. thread' = [thread EXCEPT ![t] = new]
  BY <1>1
<1> HIDE DEF new
<1>4. OnlyThread(t) /\ thread'[t] = new
  BY <1>2, <1>3, OneThreadMoves
<1> QED  BY <1>2, <1>4 DEF Asks, Reload!Begin, Reload!At, SameSlot, SameWorld

LEMMA ReadValuePeeks ==
  ASSUME ReloadType, NEW t \in Threads, Reload!ReadValue(t)
  PROVE  Peeks(t)
<1> DEFINE new == [thread[t] EXCEPT !.held = slot.value,
                                    !.pc = IF slot.value = None THEN "lock" ELSE "key"]
<1>1. slot.value \in Reload!Values \cup {None}
  BY DEF ReloadType, Reload!Slots
<1>2. /\ new \in ReloadThread /\ new.held = slot.value /\ new.field = thread[t].field
      /\ new.pc = (IF slot.value = None THEN "lock" ELSE "key")
      /\ new.key = thread[t].key /\ new.force = thread[t].force /\ new.floor = thread[t].floor
      /\ new.answer = thread[t].answer
  BY <1>1, ThreadFields DEF ReloadThread, Reload!Pcs
<1>3. thread' = [thread EXCEPT ![t] = new]
  BY ThreadFields DEF Reload!ReadValue, ReloadThread
<1> HIDE DEF new
<1>4. OnlyThread(t) /\ thread'[t] = new
  BY <1>2, <1>3, OneThreadMoves
<1> QED  BY <1>2, <1>4 DEF Peeks, Reload!ReadValue, Reload!At, SameSlot, SameWorld, SameGet

\* A change of the place in the code, and of nothing else.
LEMMA GotoMoves ==
  ASSUME ReloadType, NEW t \in Threads, NEW pc \in Reload!Pcs, Reload!Goto(t, pc)
  PROVE  /\ OnlyThread(t) /\ SameStart(t) /\ thread'[t].pc = pc
         /\ thread'[t].field = thread[t].field /\ thread'[t].next = thread[t].next
<1> DEFINE new == [thread[t] EXCEPT !.pc = pc]
<1>1. /\ new \in ReloadThread /\ new.pc = pc /\ new.field = thread[t].field
      /\ new.key = thread[t].key /\ new.force = thread[t].force /\ new.floor = thread[t].floor
      /\ new.answer = thread[t].answer /\ new.held = thread[t].held /\ new.next = thread[t].next
  BY ThreadFields DEF ReloadThread
<1>2. thread' = [thread EXCEPT ![t] = new]
  BY DEF Reload!Goto
<1> HIDE DEF new
<1>3. OnlyThread(t) /\ thread'[t] = new
  BY <1>1, <1>2, OneThreadMoves
<1> QED  BY <1>1, <1>3 DEF SameStart, SameGet

LEMMA ReturnAnswers ==
  ASSUME ReloadType, NEW t \in Threads, NEW v \in Reload!Values, Reload!Return(t, v)
  PROVE  OnlyThread(t) /\ Answers(t, v)
<1> DEFINE new == [thread[t] EXCEPT !.pc = "idle", !.answer = v]
<1>1. /\ new \in ReloadThread /\ new.pc = "idle" /\ new.answer = v
      /\ new.key = thread[t].key /\ new.force = thread[t].force /\ new.floor = thread[t].floor
      /\ new.held = thread[t].held
  BY ThreadFields DEF ReloadThread, Reload!Pcs
<1>2. thread' = [thread EXCEPT ![t] = new]
  BY ThreadFields DEF Reload!Return, ReloadThread
<1> HIDE DEF new
<1>3. OnlyThread(t) /\ thread'[t] = new
  BY <1>1, <1>2, OneThreadMoves
<1> QED  BY <1>1, <1>3 DEF Answers, SameGet, Reload!Return

LEMMA ReadKeyPeeks ==
  ASSUME ReloadType, NEW t \in Threads, Reload!ReadKey(t)
  PROVE  Peeks(t)
<1>1. PICK pc \in {"age", "lock"} : Reload!Goto(t, pc)
  BY DEF Reload!ReadKey
<1>2. pc \in Reload!Pcs
  BY DEF Reload!Pcs
<1> QED  BY <1>1, <1>2, GotoMoves
         DEF Peeks, Reload!ReadKey, Reload!At, SameSlot, SameWorld, SameGet, SameStart

LEMMA ReadAgeMoves ==
  ASSUME ReloadType, GetsOK, NEW t \in Threads, Reload!ReadAge(t)
  PROVE  Peeks(t) \/ ServesHeld(t)
<1>1. thread[t].pc = "age" /\ SameSlot /\ SameWorld /\ lock' = lock
  BY DEF Reload!ReadAge, Reload!At, SameSlot, SameWorld
<1>2. thread[t].held \in Reload!Values
  BY <1>1, ThreadFields DEF GetsOK
<1>3. CASE Reload!Return(t, thread[t].held)
  BY <1>1, <1>2, <1>3, ReturnAnswers DEF ServesHeld
<1>4. CASE Reload!Goto(t, "lock") /\ shown' = shown
  <2>1. "lock" \in Reload!Pcs
    BY DEF Reload!Pcs
  <2> QED  BY <1>1, <1>4, <2>1, GotoMoves DEF Peeks, SameGet, SameStart
<1> QED  BY <1>3, <1>4 DEF Reload!ReadAge

LEMMA RecheckMoves ==
  ASSUME ReloadType, NEW t \in Threads, Reload!Recheck(t)
  PROVE  ServesHeld(t) \/ TakesLock(t)
<1>1. thread[t].pc = "lock" /\ lock = None /\ SameSlot /\ SameWorld
  BY DEF Reload!Recheck, Reload!At, SameSlot, SameWorld
<1>2. CASE Reload!Serves(thread[t].key, thread[t].force)
  <2>1. slot.value # None /\ slot.value \in Reload!Values
    BY <1>2 DEF Reload!Serves, ReloadType, Reload!Slots
  <2>2. Reload!Return(t, slot.value) /\ lock' = lock
    BY <1>2 DEF Reload!Recheck
  <2> QED  BY <1>1, <2>1, <2>2, ReturnAnswers DEF ServesHeld
<1>3. CASE ~Reload!Serves(thread[t].key, thread[t].force)
  <2> DEFINE new == [thread[t] EXCEPT !.pc = "load", !.start = now]
  <2>1. /\ new \in ReloadThread /\ new.pc = "load" /\ new.start = now
        /\ new.field = thread[t].field
        /\ new.key = thread[t].key /\ new.force = thread[t].force /\ new.floor = thread[t].floor
        /\ new.answer = thread[t].answer /\ new.held = thread[t].held
    BY ThreadFields DEF ReloadThread, Reload!Pcs, ReloadType
  <2>2. /\ thread' = [thread EXCEPT ![t].pc = "load", ![t].start = now]
        /\ lock' = t /\ shown' = shown
    BY <1>3 DEF Reload!Recheck
  <2>3. thread' = [thread EXCEPT ![t] = new]
    BY <2>2, ThreadFields DEF ReloadThread
  <2> HIDE DEF new
  <2>4. OnlyThread(t) /\ thread'[t] = new
    BY <2>1, <2>3, OneThreadMoves
  <2> QED  BY <1>1, <1>3, <2>1, <2>2, <2>4 DEF TakesLock, SameStart, SameGet
<1> QED  BY <1>2, <1>3

LEMMA LoadMoves ==
  ASSUME ReloadType, GetsOK, NEW t \in Threads, Reload!Load(t)
  PROVE  LoadsFile(t) \/ KeepsStale(t)
<1> DEFINE f == file[thread[t].key]
           k == thread[t].key
<1>1. /\ thread[t].pc = "load" /\ SameWorld /\ k \in FileKeys
      /\ early' = (early \/ ~Reload!Due(t))
  BY DEF Reload!Load, Reload!At, SameWorld, GetsOK
<1>2. f.version \in Reload!FileVersions
  BY <1>1 DEF ReloadType
<1>3. CASE f.ok
  <2> DEFINE next == [value |-> [key |-> k, version |-> f.version],
                      key |-> k, at |-> thread[t].start]
             new  == [thread[t] EXCEPT !.pc = "set", !.next = next]
  <2>1. /\ next \in Reload!Slots /\ next.value # None /\ next.value.version = f.version
        /\ next.at = thread[t].start
    BY <1>1, <1>2, ThreadFields, ReloadTypes DEF Reload!Slots, Reload!Values
  <2>2. /\ thread' = [thread EXCEPT ![t].pc = "set", ![t].next = next]
        /\ loads' = thread[t].start /\ slot' = slot /\ lock' = lock /\ shown' = shown
    BY <1>3 DEF Reload!Load
  <2> HIDE DEF next
  <2>3. /\ new \in ReloadThread /\ new.pc = "set" /\ new.next = next
        /\ new.field = thread[t].field
        /\ new.key = thread[t].key /\ new.force = thread[t].force /\ new.floor = thread[t].floor
        /\ new.answer = thread[t].answer /\ new.held = thread[t].held
    BY <2>1, ThreadFields DEF ReloadThread, Reload!Pcs
  <2>4. thread' = [thread EXCEPT ![t] = new]
    BY <2>2, ThreadFields DEF ReloadThread
  <2> HIDE DEF new
  <2>5. OnlyThread(t) /\ thread'[t] = new
    BY <2>3, <2>4, OneThreadMoves
  <2> QED  BY <1>1, <2>1, <2>2, <2>3, <2>5 DEF LoadsFile, SameStart, SameGet
<1>4. CASE ~f.ok
  <2>1. lock' = None
    BY <1>4 DEF Reload!Load
  <2>2. CASE slot.value # None /\ slot.key = k
    <3>1. /\ slot' = [slot EXCEPT !.at = thread[t].start] /\ loads' = thread[t].start
          /\ Reload!Return(t, slot.value)
      BY <1>4, <2>2 DEF Reload!Load
    <3>2. slot.value \in Reload!Values
      BY <2>2 DEF ReloadType, Reload!Slots
    <3>3. OnlyThread(t) /\ Answers(t, slot.value)
      BY <3>1, <3>2, ReturnAnswers
    <3> QED  BY <1>1, <2>1, <2>2, <3>1, <3>3 DEF KeepsStale, Answers
  <2>3. CASE ~(slot.value # None /\ slot.key = k)
    <3>1. slot' = slot /\ loads' = loads /\ shown' = shown /\ Reload!Goto(t, "idle")
      BY <1>4, <2>3 DEF Reload!Load
    <3>2. "idle" \in Reload!Pcs
      BY DEF Reload!Pcs
    <3> QED  BY <1>1, <2>1, <3>1, <3>2, GotoMoves DEF KeepsStale
  <2> QED  BY <2>2, <2>3
<1> QED  BY <1>3, <1>4

LEMMA AssignSets ==
  ASSUME ReloadType, NEW t \in Threads, Reload!Assign(t)
  PROVE  Sets(t)
<1> DEFINE n == thread[t].next
<1>1. thread[t].pc = "set" /\ SameWorld /\ loads' = loads /\ early' = early
  BY DEF Reload!Assign, Reload!At, SameWorld
<1>2. n \in Reload!Slots /\ n.value \in Reload!Values \cup {None}
  BY ThreadFields DEF Reload!Slots
<1>3. slot \in [value : Reload!Values \cup {None}, key : FileKeys \cup {None}, at : 0 .. MaxTime]
  BY DEF ReloadType, Reload!Slots
<1>4. CASE thread[t].field # "at"
  <2> DEFINE g   == IF thread[t].field = "value" THEN "key" ELSE "at"
             new == [thread[t] EXCEPT !.field = g]
  <2>1. /\ thread' = [thread EXCEPT ![t].field = g] /\ lock' = lock /\ shown' = shown
        /\ slot' = [slot EXCEPT ![thread[t].field] = n[thread[t].field]]
    BY <1>4 DEF Reload!Assign
  <2>2. /\ new \in ReloadThread /\ new.pc = thread[t].pc /\ new.next = n /\ new.field = g
        /\ new.key = thread[t].key /\ new.force = thread[t].force /\ new.floor = thread[t].floor
        /\ new.answer = thread[t].answer /\ new.held = thread[t].held
    BY ThreadFields DEF ReloadThread
  <2>3. thread' = [thread EXCEPT ![t] = new]
    BY <2>1
  <2> HIDE DEF new
  <2>4. OnlyThread(t) /\ thread'[t] = new
    BY <2>2, <2>3, OneThreadMoves
  <2>5. SameStart(t) /\ thread'[t].next = n /\ thread'[t].pc = "set" /\ thread'[t].field = g
    BY <1>1, <2>2, <2>4 DEF SameStart, SameGet
  <2>6. CASE thread[t].field = "value"
    <3>1. slot' = [slot EXCEPT !.value = n.value] /\ thread'[t].field = "key"
      BY <2>1, <2>5, <2>6
    <3> QED  BY <1>1, <2>1, <2>4, <2>5, <2>6, <3>1 DEF Sets
  <2>7. CASE thread[t].field = "key"
    <3>1. slot' = [slot EXCEPT !.key = n.key] /\ thread'[t].field = "at"
      BY <2>1, <2>5, <2>7
    <3> QED  BY <1>1, <2>1, <2>4, <2>5, <2>7, <3>1 DEF Sets
  <2> QED  BY <1>4, <2>6, <2>7, ThreadFields
<1>5. CASE thread[t].field = "at"
  <2>1. slot' = [slot EXCEPT !.at = n.at] /\ lock' = None
    BY <1>5 DEF Reload!Assign
  <2>2. CASE n.value = None
    <3>1. Reload!Goto(t, "idle") /\ shown' = shown
      BY <1>5, <2>2 DEF Reload!Assign
    <3>2. "idle" \in Reload!Pcs
      BY DEF Reload!Pcs
    <3>3. OnlyThread(t) /\ SameStart(t) /\ thread'[t].pc = "idle"
      BY <3>1, <3>2, GotoMoves
    <3> QED  BY <1>1, <1>5, <2>1, <2>2, <3>1, <3>3 DEF Sets
  <2>3. CASE n.value # None
    <3>1. Reload!Return(t, n.value) /\ n.value \in Reload!Values
      BY <1>2, <1>5, <2>3 DEF Reload!Assign
    <3>2. OnlyThread(t) /\ Answers(t, n.value)
      BY <3>1, ReturnAnswers
    <3> QED  BY <1>1, <1>5, <2>1, <2>3, <3>2 DEF Sets
  <2> QED  BY <2>2, <2>3
<1> QED  BY <1>4, <1>5

LEMMA ClearForgets ==
  ASSUME ReloadType, NEW t \in Threads, Reload!Clear(t)
  PROVE  Forgets(t)
<1> DEFINE new == [Reload!IdleThread EXCEPT !.pc = "set"]
<1>1. /\ new \in ReloadThread /\ new.pc = "set" /\ new.held = None /\ new.answer = None
      /\ new.floor = 0 /\ new.next.value = None /\ new.field = "value"
  BY IdleThreadOK, EmptySlotOK DEF Reload!IdleThread, ReloadThread, Reload!Pcs
<1>2. thread' = [thread EXCEPT ![t] = new]
  BY DEF Reload!Clear
<1> HIDE DEF new
<1>3. OnlyThread(t) /\ thread'[t] = new
  BY <1>1, <1>2, OneThreadMoves
<1> QED  BY <1>1, <1>3 DEF Forgets, Reload!Clear, Reload!At, SameWorld

LEMMA OthersPass ==
  ASSUME ReloadType, Reload!Edit \/ Reload!Tick \/ UNCHANGED Reload!vars
  PROVE  Passes
<1>1. \A k \in FileKeys : file[k].version \in 1 .. MaxEdits + 1
  BY DEF ReloadType, Reload!FileVersions
<1>2. CASE Reload!Edit
  <2>1. PICK k \in FileKeys, ok \in BOOLEAN :
          /\ file[k].version <= MaxEdits
          /\ file' = [file EXCEPT ![k] = [version |-> @.version + 1, ok |-> ok]]
    BY <1>2 DEF Reload!Edit
  <2>2. file[k].version + 1 \in 1 .. MaxEdits + 1 /\ file[k].version + 1 >= file[k].version
    BY <1>1, <2>1, ReloadTypes
  <2> DEFINE new == [version |-> file[k].version + 1, ok |-> ok]
  <2>3. /\ new \in [version : Reload!FileVersions, ok : BOOLEAN]
        /\ new.version >= file[k].version
    BY <2>2 DEF Reload!FileVersions
  <2>4. file' = [file EXCEPT ![k] = new]
    BY <2>1
  <2> HIDE DEF new
  <2>5. file' \in [FileKeys -> [version : Reload!FileVersions, ok : BOOLEAN]]
    BY <2>3, <2>4 DEF ReloadType
  <2>6. \A l \in FileKeys : file'[l].version >= file[l].version
    BY <1>1, <2>3, <2>4 DEF ReloadType
  <2> QED  BY <1>2, <2>5, <2>6 DEF Passes, SameSlot, Reload!Edit, ReloadType
<1>3. CASE Reload!Tick
  <2>1. now' \in 0 .. MaxTime
    BY <1>3, ReloadTypes DEF Reload!Tick, ReloadType
  <2> QED  BY <1>1, <1>3, <2>1 DEF Passes, SameSlot, Reload!Tick, ReloadType
<1>4. CASE UNCHANGED Reload!vars
  BY <1>1, <1>4 DEF Passes, SameSlot, Reload!vars, ReloadType
<1> QED  BY <1>2, <1>3, <1>4

LEMMA EveryReloadStep ==
  ASSUME ReloadType, GetsOK, [Reload!Next]_Reload!vars
  PROVE  Passes \/ \E t \in Threads : ReloadTurn(t)
<1>1. ASSUME NEW t \in Threads, Reload!Get(t) PROVE ReloadTurn(t)
  BY <1>1, BeginAsks, ReadValuePeeks, ReadKeyPeeks, ReadAgeMoves, RecheckMoves, LoadMoves,
     AssignSets DEF Reload!Get, ReloadTurn
<1>2. ASSUME NEW t \in Threads, Reload!Clear(t) PROVE ReloadTurn(t)
  BY <1>2, ClearForgets DEF ReloadTurn
<1> QED  BY <1>1, <1>2, OthersPass DEF Reload!Next

-----------------------------------------------------------------------------
\* The lock is held by the thread that loads or replaces, and by nobody else.
LockOK == \A t \in Threads : lock = t <=> thread[t].pc \in {"load", "set"}

\* While the value is being replaced, it is known what it will be, and from when.
ReplacesOK ==
  \A t \in Threads :
    /\ thread[t].pc = "load" => Reload!Due(t)
    /\ thread[t].pc = "set" =>
         /\ loads = IF thread[t].next.value = None THEN None ELSE thread[t].next.at
         /\ thread[t].field # "value" => slot.value = thread[t].next.value

\* Otherwise the slot's age is that of the load that produced it.
Settled ==
  (\A t \in Threads : thread[t].pc # "set")
    => loads = IF slot.value = None THEN None ELSE slot.at

LoadsInv ==
  /\ lock \in Threads \cup {None}
  /\ ReloadType /\ GetsOK /\ LockOK /\ ReplacesOK /\ Settled /\ early = FALSE

LEMMA TypeKept ==
  ASSUME ReloadType, GetsOK, Passes \/ \E t \in Threads : ReloadTurn(t)
  PROVE  ReloadType' /\ GetsOK'
<1>1. CASE Passes
  BY <1>1 DEF Passes, ReloadType, GetsOK, SameSlot
<1>2. ASSUME NEW t \in Threads, ReloadTurn(t)
      PROVE  ReloadType' /\ GetsOK'
  <2>1. /\ thread' \in [Threads -> ReloadThread] /\ now' = now /\ file' = file
        /\ \A u \in Threads \ {t} : thread'[u] = thread[u]
    BY <1>2 DEF ReloadTurn, Asks, Peeks, ServesHeld, TakesLock, LoadsFile, KeepsStale, Sets,
                Forgets, SameWorld, OnlyThread
  <2>2. shown' \in Nat
    <3>1. ASSUME NEW v \in Reload!Values \cup {None}, v # None, Answers(t, v) PROVE shown' \in Nat
      BY <3>1 DEF Answers, ReloadType, Reload!Values, Reload!FileVersions
    <3>2. /\ slot.value \in Reload!Values \cup {None}
          /\ thread[t].next.value \in Reload!Values \cup {None}
          /\ thread[t].held \in Reload!Values \cup {None}
          /\ thread[t].pc = "age" => thread[t].held # None
      BY ThreadFields DEF ReloadType, Reload!Slots, GetsOK
    <3>3. shown \in Nat
      BY DEF ReloadType
    <3> QED  BY <1>2, <3>1, <3>2, <3>3 DEF ReloadTurn, Asks, Peeks, ServesHeld, TakesLock,
                LoadsFile, KeepsStale, Sets, Forgets
  <2>3. slot' \in Reload!Slots
    <3>1. /\ slot \in Reload!Slots /\ thread[t].next \in Reload!Slots
          /\ thread[t].start \in 0 .. MaxTime
      BY ThreadFields DEF ReloadType
    <3>2. ASSUME NEW n \in Reload!Slots, NEW at \in 0 .. MaxTime
          PROVE  /\ [slot EXCEPT !.value = n.value] \in Reload!Slots
                 /\ [slot EXCEPT !.key = n.key] \in Reload!Slots
                 /\ [slot EXCEPT !.at = n.at] \in Reload!Slots
                 /\ [slot EXCEPT !.at = at] \in Reload!Slots
      BY <3>1 DEF Reload!Slots
    <3> QED  BY <1>2, <3>1, <3>2 DEF ReloadTurn, Asks, Peeks, ServesHeld, TakesLock,
                LoadsFile, KeepsStale, Sets, Forgets, SameSlot
  <2>4. loads' \in (0 .. MaxTime) \cup {None}
    BY <1>2, ThreadFields DEF ReloadTurn, Asks, Peeks, ServesHeld, TakesLock, LoadsFile,
       KeepsStale, Sets, Forgets, SameSlot, ReloadType
  <2>5. ReloadType'
    BY <2>1, <2>2, <2>3, <2>4 DEF ReloadType
  <2>6. /\ thread'[t].pc \in {"value", "key", "age", "lock", "load"} =>
             thread'[t].key \in FileKeys /\ thread'[t].field = "value"
        /\ thread'[t].pc \in {"key", "age"} => thread'[t].held # None
    BY <1>2 DEF ReloadTurn, Asks, Peeks, ServesHeld, TakesLock, LoadsFile, KeepsStale, Sets,
                Forgets, GetsOK, Answers, SameGet, SameStart
  <2>7. GetsOK'
    BY <2>1, <2>6 DEF GetsOK
  <2> QED  BY <2>5, <2>7
<1> QED  BY <1>1, <1>2

LEMMA LoadsKept ==
  ASSUME LoadsInv, Passes \/ \E t \in Threads : ReloadTurn(t)
  PROVE  LoadsInv'
<1>1. ReloadType /\ GetsOK /\ ReloadType' /\ GetsOK'
  BY TypeKept DEF LoadsInv
<1>2. CASE Passes
  <2>1. /\ thread' = thread /\ slot' = slot /\ loads' = loads /\ early' = early /\ lock' = lock
    BY <1>2 DEF Passes, SameSlot
  <2>2. \A t \in Threads : Reload!Due(t)' = Reload!Due(t)
    BY <2>1 DEF Reload!Due
  <2> QED  BY <1>1, <2>1, <2>2 DEF LoadsInv, LockOK, ReplacesOK, Settled
<1>3. ASSUME NEW t \in Threads, ReloadTurn(t)
      PROVE  LoadsInv'
  <2>1. /\ thread[t].pc \in Reload!Pcs /\ thread' \in [Threads -> ReloadThread]
        /\ \A u \in Threads \ {t} : thread'[u] = thread[u]
    BY <1>1, <1>3, ThreadFields DEF ReloadTurn, Asks, Peeks, ServesHeld, TakesLock, LoadsFile,
       KeepsStale, Sets, Forgets, OnlyThread
  <2>2. /\ None \notin Threads /\ None \notin Nat /\ Ttl \in Nat
        /\ lock \in Threads \cup {None} /\ LockOK /\ ReplacesOK /\ Settled /\ early = FALSE
    BY ReloadTypes DEF LoadsInv
  <2>3. /\ slot \in [value : Reload!Values \cup {None}, key : FileKeys \cup {None},
                    at : 0 .. MaxTime]
        /\ loads \in (0 .. MaxTime) \cup {None} /\ now \in 0 .. MaxTime
        /\ thread[t].start \in 0 .. MaxTime
    BY <1>1, ThreadFields DEF ReloadType, Reload!Slots
  \* Steps without the lock change nothing that matters here.
  <2>4. CASE Asks(t) \/ Peeks(t) \/ ServesHeld(t)
    <3>1. /\ slot' = slot /\ loads' = loads /\ early' = early /\ lock' = lock
          /\ thread[t].pc \notin {"load", "set"} /\ thread'[t].pc \notin {"load", "set"}
      BY <2>4 DEF Asks, Peeks, ServesHeld, SameSlot, Answers
    <3>2. \A u \in Threads \ {t} : Reload!Due(u)' = Reload!Due(u)
      BY <2>1, <3>1 DEF Reload!Due
    <3>3. LockOK' /\ ReplacesOK'
      BY <2>1, <2>2, <3>1, <3>2 DEF LockOK, ReplacesOK
    <3>4. (\A u \in Threads : thread'[u].pc # "set") => \A u \in Threads : thread[u].pc # "set"
      BY <2>1, <3>1
    <3>5. Settled'
      BY <2>2, <3>1, <3>4 DEF Settled
    <3> QED  BY <1>1, <2>2, <3>1, <3>3, <3>5 DEF LoadsInv
  <2>5. CASE TakesLock(t)
    <3>1. /\ slot' = slot /\ loads' = loads /\ early' = early /\ lock = None /\ lock' = t
          /\ thread[t].pc = "lock" /\ thread'[t].pc = "load" /\ thread'[t].start = now
          /\ thread'[t].key = thread[t].key /\ thread'[t].force = thread[t].force
          /\ ~Reload!Serves(thread[t].key, thread[t].force)
      BY <2>5 DEF TakesLock, SameSlot, SameStart, SameGet
    <3>2. \A u \in Threads : thread[u].pc \notin {"load", "set"}
      BY <2>2, <3>1 DEF LockOK
    <3>3. loads = IF slot.value = None THEN None ELSE slot.at
      BY <2>2, <3>2 DEF Settled
    <3>4. Reload!Due(t)'
      <4>1. \/ thread'[t].force \/ slot'.value = None \/ slot'.key # thread'[t].key
            \/ Ttl = 0 \/ now >= slot.at + Ttl
        BY <2>2, <2>3, <3>1 DEF Reload!Serves, Reload!Young
      <4>2. loads' = None \/ loads' = slot.at
        BY <3>1, <3>3
      <4>3. slot'.value = None => loads' = None
        BY <3>1, <3>3
      <4> QED  BY <3>1, <4>1, <4>2, <4>3 DEF Reload!Due
    <3>5. LockOK' /\ ReplacesOK' /\ Settled'
      BY <2>1, <2>2, <3>1, <3>2, <3>3, <3>4 DEF LockOK, ReplacesOK, Settled
    <3> QED  BY <1>1, <2>2, <3>1, <3>5 DEF LoadsInv
  <2>6. CASE LoadsFile(t)
    <3>1. /\ slot' = slot /\ lock' = lock /\ thread[t].pc = "load" /\ thread'[t].pc = "set"
          /\ thread'[t].next.value # None /\ thread'[t].next.at = thread[t].start
          /\ thread'[t].field = "value"
          /\ loads' = thread[t].start /\ early' = (early \/ ~Reload!Due(t))
      BY <1>1, <2>6 DEF LoadsFile, GetsOK
    <3>2. \A u \in Threads \ {t} : thread[u].pc \notin {"load", "set"}
      BY <2>2, <3>1 DEF LockOK
    <3>3. Reload!Due(t)
      BY <2>2, <3>1 DEF ReplacesOK
    <3>4. early' = FALSE
      BY <2>2, <3>1, <3>3
    <3>5. LockOK' /\ ReplacesOK' /\ Settled'
      BY <2>1, <2>2, <3>1, <3>2 DEF LockOK, ReplacesOK, Settled
    <3> QED  BY <1>1, <2>2, <3>1, <3>4, <3>5 DEF LoadsInv
  <2>7. CASE KeepsStale(t)
    <3>1. /\ thread[t].pc = "load" /\ thread'[t].pc = "idle" /\ lock' = None
          /\ early' = (early \/ ~Reload!Due(t))
          /\ \/ /\ slot.value # None /\ slot' = [slot EXCEPT !.at = thread[t].start]
                /\ loads' = thread[t].start
             \/ slot' = slot /\ loads' = loads
      BY <2>7 DEF KeepsStale
    <3>2. /\ \A u \in Threads \ {t} : thread[u].pc \notin {"load", "set"}
          /\ \A u \in Threads : thread[u].pc # "set"
      BY <2>2, <3>1 DEF LockOK
    <3>3. Reload!Due(t) /\ loads = IF slot.value = None THEN None ELSE slot.at
      BY <2>2, <3>1, <3>2 DEF ReplacesOK, Settled
    <3>4. early' = FALSE
      BY <2>2, <3>1, <3>3
    <3>5. LockOK' /\ ReplacesOK'
      BY <2>1, <2>2, <3>1, <3>2 DEF LockOK, ReplacesOK
    <3>6. Settled'
      BY <2>3, <3>1, <3>3 DEF Settled
    <3> QED  BY <1>1, <2>2, <3>1, <3>4, <3>5, <3>6 DEF LoadsInv
  <2>8. CASE Sets(t)
    <3> DEFINE n == thread[t].next
    <3>1. /\ thread[t].pc = "set" /\ loads' = loads /\ early' = early
          /\ lock = t /\ \A u \in Threads \ {t} : thread[u].pc \notin {"load", "set"}
          /\ loads = IF n.value = None THEN None ELSE n.at
          /\ thread[t].field # "value" => slot.value = n.value
      BY <2>2, <2>8 DEF Sets, LockOK, ReplacesOK
    <3>2. CASE thread[t].field # "at"
      <4>1. /\ thread'[t].field # "value" => slot'.value = n.value
            /\ thread'[t].next = n /\ thread'[t].pc = "set" /\ lock' = lock
        BY <2>3, <2>8, <3>1, <3>2 DEF Sets
      <4>2. LockOK' /\ ReplacesOK' /\ Settled'
        BY <2>1, <2>2, <3>1, <4>1 DEF LockOK, ReplacesOK, Settled
      <4> QED  BY <1>1, <2>2, <3>1, <4>1, <4>2 DEF LoadsInv
    <3>3. CASE thread[t].field = "at"
      <4>1. /\ slot' = [slot EXCEPT !.at = n.at] /\ lock' = None /\ thread'[t].pc = "idle"
        BY <2>8, <3>3 DEF Sets, Answers
      <4>2. slot'.value = n.value /\ slot'.at = n.at
        BY <2>3, <3>1, <3>3, <4>1
      <4>3. LockOK' /\ ReplacesOK' /\ Settled'
        BY <2>1, <2>2, <3>1, <4>1, <4>2 DEF LockOK, ReplacesOK, Settled
      <4> QED  BY <1>1, <2>2, <3>1, <4>1, <4>3 DEF LoadsInv
    <3> QED  BY <3>2, <3>3
  <2>9. CASE Forgets(t)
    <3>1. /\ slot' = slot /\ loads' = None /\ early' = early /\ lock = None /\ lock' = t
          /\ thread'[t].pc = "set" /\ thread'[t].field = "value" /\ thread'[t].next.value = None
      BY <2>9 DEF Forgets
    <3>2. \A u \in Threads : thread[u].pc \notin {"load", "set"}
      BY <2>2, <3>1 DEF LockOK
    <3>3. LockOK' /\ ReplacesOK' /\ Settled'
      BY <2>1, <2>2, <3>1, <3>2 DEF LockOK, ReplacesOK, Settled
    <3> QED  BY <1>1, <2>2, <3>1, <3>3 DEF LoadsInv
  <2> QED  BY <1>3, <2>4, <2>5, <2>6, <2>7, <2>8, <2>9 DEF ReloadTurn
<1> QED  BY <1>2, <1>3

-----------------------------------------------------------------------------
OnePath == \A k, l \in FileKeys : k = l

\* v is no older than anything that was shown or is held.
Newest(v) ==
  /\ shown <= v.version
  /\ \A t \in Threads : thread[t].held # None => thread[t].held.version <= v.version

InFile(v) == \A k \in FileKeys : v.version <= file[k].version

VersionsOK ==
  /\ \A k \in FileKeys : shown <= file[k].version
  /\ slot.value # None => Newest(slot.value) /\ InFile(slot.value)

GetVersions(t) ==
  /\ thread[t].floor <= shown
  /\ thread[t].held # None => thread[t].floor <= thread[t].held.version /\ InFile(thread[t].held)
  /\ thread[t].answer # None => thread[t].floor <= thread[t].answer.version

\* The value to come is newer than the one in place.
NextVersions(t) ==
  thread[t].pc = "set" /\ thread[t].next.value # None =>
    /\ Newest(thread[t].next.value) /\ InFile(thread[t].next.value)
    /\ slot.value # None => slot.value.version <= thread[t].next.value.version

VersionsInv ==
  VersionsOK /\ \A t \in Threads : GetVersions(t) /\ NextVersions(t)

LEMMA VersionNumbers ==
  ASSUME ReloadType
  PROVE  /\ shown \in Nat
         /\ \A k \in FileKeys : file[k].version \in Nat
         /\ slot.value # None => slot.value \in Reload!Values /\ slot.value.version \in Nat
         /\ \A t \in Threads :
              /\ thread[t].floor \in Nat
              /\ thread[t].held # None => thread[t].held.version \in Nat
              /\ thread[t].answer # None => thread[t].answer.version \in Nat
              /\ thread[t].next.value # None => thread[t].next.value.version \in Nat
<1>1. Reload!FileVersions \subseteq Nat
  BY ReloadTypes DEF Reload!FileVersions
<1>2. /\ shown \in Nat
      /\ \A k \in FileKeys : file[k].version \in Nat
      /\ slot.value # None => slot.value \in Reload!Values /\ slot.value.version \in Nat
  BY <1>1 DEF ReloadType, Reload!Slots, Reload!Values
<1>3. ASSUME NEW t \in Threads
      PROVE  /\ thread[t].floor \in Nat
             /\ thread[t].held # None => thread[t].held.version \in Nat
             /\ thread[t].answer # None => thread[t].answer.version \in Nat
             /\ thread[t].next.value # None => thread[t].next.value.version \in Nat
  BY <1>1, ThreadFields DEF Reload!Slots, Reload!Values
<1> QED  BY <1>2, <1>3

\* What a get may answer with.
LEMMA AnswerKept ==
  ASSUME LoadsInv, VersionsInv, NEW t \in Threads, NEW v, v.version \in Nat,
         OnlyThread(t), Answers(t, v), file' = file, slot'.value = slot.value,
         thread[t].floor <= v.version, InFile(v),
         slot.value # None => v.version <= slot.value.version,
         \A u \in Threads \ {t} : thread[u].pc = "set" /\ thread[u].next.value # None =>
           v.version <= thread[u].next.value.version
  PROVE  VersionsInv'
<1>1. ReloadType
  BY DEF LoadsInv
<1>2. /\ shown' \in {shown, v.version} /\ shown <= shown' /\ v.version <= shown'
      /\ \A u \in Threads \ {t} : thread'[u] = thread[u]
      /\ \A u \in Threads : thread'[u].held = thread[u].held /\ thread'[u].floor = thread[u].floor
      /\ thread'[t].answer = v /\ thread'[t].pc = "idle"
  BY <1>1, VersionNumbers DEF Answers, SameGet, OnlyThread
<1>3. VersionsOK'
  BY <1>1, <1>2, VersionNumbers DEF VersionsInv, VersionsOK, Newest, InFile
<1>4. ASSUME NEW u \in Threads
      PROVE  GetVersions(u)'
  <2>1. GetVersions(u) /\ thread[u].floor <= shown'
    BY <1>1, <1>2, VersionNumbers DEF VersionsInv, GetVersions
  <2> QED  BY <1>2, <2>1 DEF GetVersions, InFile
<1>5. ASSUME NEW u \in Threads
      PROVE  NextVersions(u)'
  BY <1>1, <1>2, VersionNumbers DEF VersionsInv, NextVersions, Newest, InFile
<1> QED  BY <1>3, <1>4, <1>5 DEF VersionsInv

LEMMA VersionsKept ==
  ASSUME OnePath, LoadsInv, VersionsInv, Passes \/ \E t \in Threads : ReloadTurn(t)
  PROVE  VersionsInv'
<1>1. ReloadType /\ GetsOK /\ LockOK /\ ReplacesOK /\ ReloadType'
  BY TypeKept DEF LoadsInv
<1>2. CASE Passes
  <2>1. /\ thread' = thread /\ slot' = slot /\ shown' = shown
        /\ \A k \in FileKeys : file[k].version <= file'[k].version
        /\ \A k \in FileKeys : file[k].version \in Nat /\ file'[k].version \in Nat
    <3>1. /\ thread' = thread /\ slot' = slot /\ shown' = shown
          /\ \A k \in FileKeys : file'[k].version >= file[k].version
      BY <1>2 DEF Passes, SameSlot
    <3>2. \A k \in FileKeys : file[k].version \in Nat /\ file'[k].version \in Nat
      BY <1>1, ReloadTypes DEF ReloadType, Reload!FileVersions
    <3> QED  BY <3>1, <3>2
  <2>2. ASSUME NEW v, v.version \in Nat, InFile(v) PROVE InFile(v)'
    BY <2>1, <2>2 DEF InFile
  <2>3. \A k \in FileKeys : shown' <= file'[k].version
    BY <1>1, <2>1, VersionNumbers DEF VersionsInv, VersionsOK
  <2>4. slot'.value # None => Newest(slot.value)' /\ InFile(slot.value)'
    BY <1>1, <2>1, <2>2, VersionNumbers DEF VersionsInv, VersionsOK, Newest, InFile
  <2>5. ASSUME NEW t \in Threads PROVE GetVersions(t)' /\ NextVersions(t)'
    BY <1>1, <2>1, VersionNumbers DEF VersionsInv, GetVersions, NextVersions, Newest, InFile
  <2> QED  BY <2>3, <2>4, <2>5 DEF VersionsInv, VersionsOK
<1>3. ASSUME NEW t \in Threads, ReloadTurn(t)
      PROVE  VersionsInv'
  <2>1. GetVersions(t) /\ NextVersions(t) /\ VersionsOK
    BY DEF VersionsInv
  <2>2. CASE Asks(t) \/ Peeks(t)
    <3>1. /\ file' = file /\ slot' = slot /\ shown' = shown /\ OnlyThread(t)
          /\ thread'[t].held \in {None, thread[t].held, slot.value}
          /\ thread'[t].pc # "set"
          /\ \/ thread'[t].floor = shown /\ thread'[t].held = None /\ thread'[t].answer = None
             \/ thread'[t].floor = thread[t].floor /\ thread'[t].answer = thread[t].answer
      BY <2>2 DEF Asks, Peeks, SameSlot, SameWorld, SameGet
    <3>2. /\ \A u \in Threads \ {t} : thread'[u] = thread[u]
      BY <3>1 DEF OnlyThread
    <3>3. VersionsOK'
      BY <1>1, <2>1, <3>1, <3>2, VersionNumbers DEF VersionsOK, Newest, InFile
    <3>4. GetVersions(t)'
      BY <1>1, <2>1, <3>1, VersionNumbers DEF GetVersions, VersionsOK, Newest, InFile
    <3>5. ASSUME NEW u \in Threads \ {t} PROVE GetVersions(u)'
      BY <3>1, <3>2 DEF VersionsInv, GetVersions, InFile
    <3>6. ASSUME NEW u \in Threads PROVE NextVersions(u)'
      <4>1. CASE u = t
        BY <3>1, <4>1 DEF NextVersions
      <4>2. CASE u # t
        BY <3>1, <3>2, <4>2 DEF VersionsInv, NextVersions, Newest, InFile
      <4> QED  BY <4>1, <4>2
    <3> QED  BY <3>3, <3>4, <3>5, <3>6 DEF VersionsInv
  <2>3. CASE ServesHeld(t)
    <3>1. PICK v \in {thread[t].held, slot.value} : v # None /\ Answers(t, v)
      BY <1>1, <2>3 DEF ServesHeld, GetsOK
    <3>2. OnlyThread(t) /\ file' = file /\ slot' = slot
      BY <2>3 DEF ServesHeld, SameSlot, SameWorld
    <3>3. /\ v.version \in Nat /\ thread[t].floor <= v.version /\ InFile(v)
          /\ slot.value # None => v.version <= slot.value.version
      BY <1>1, <2>1, <3>1, VersionNumbers DEF GetVersions, VersionsOK, Newest
    <3>4. ASSUME NEW u \in Threads \ {t}, thread[u].pc = "set", thread[u].next.value # None
          PROVE  v.version <= thread[u].next.value.version
      BY <3>1, <3>4 DEF VersionsInv, NextVersions, Newest
    <3> QED  BY <3>1, <3>2, <3>3, <3>4, AnswerKept
  <2>4. CASE TakesLock(t) \/ Forgets(t)
    <3>1. /\ file' = file /\ slot' = slot /\ shown' = shown /\ OnlyThread(t)
          /\ \/ thread'[t].held = None /\ thread'[t].answer = None /\ thread'[t].floor = 0
             \/ /\ thread'[t].held = thread[t].held /\ thread'[t].floor = thread[t].floor
                /\ thread'[t].answer = thread[t].answer
          /\ thread'[t].pc = "set" => thread'[t].next.value = None
      BY <2>4 DEF TakesLock, Forgets, SameSlot, SameWorld, SameStart, SameGet
    <3>2. /\ \A u \in Threads \ {t} : thread'[u] = thread[u]
      BY <3>1 DEF OnlyThread
    <3>3. VersionsOK'
      BY <2>1, <3>1, <3>2 DEF VersionsOK, Newest, InFile
    <3>4. GetVersions(t)' /\ NextVersions(t)'
      BY <1>1, <2>1, <3>1, VersionNumbers DEF GetVersions, NextVersions, InFile
    <3>5. ASSUME NEW u \in Threads \ {t} PROVE GetVersions(u)' /\ NextVersions(u)'
      BY <3>1, <3>2 DEF VersionsInv, GetVersions, NextVersions, Newest, InFile
    <3> QED  BY <3>3, <3>4, <3>5 DEF VersionsInv
  <2>5. CASE LoadsFile(t)
    <3> DEFINE v == thread'[t].next.value
    <3>1. /\ file' = file /\ slot' = slot /\ shown' = shown
          /\ \A u \in Threads \ {t} : thread'[u] = thread[u]
          /\ thread'[t].held = thread[t].held /\ thread'[t].floor = thread[t].floor
          /\ thread'[t].answer = thread[t].answer
          /\ v.version = file[thread[t].key].version
          /\ thread[t].pc = "load" /\ thread[t].key \in FileKeys
      BY <1>1, <2>5 DEF LoadsFile, SameWorld, SameStart, SameGet, OnlyThread, GetsOK
    <3>2. \A k \in FileKeys : file[k].version = v.version
      BY <3>1 DEF OnePath
    <3>3. \A u \in Threads \ {t} : thread[u].pc # "set"
      BY <1>1, <3>1 DEF LockOK
    <3>4. /\ shown <= v.version
          /\ slot.value # None => slot.value.version <= v.version
      BY <2>1, <3>1, <3>2 DEF VersionsOK, InFile
    <3>5. \A u \in Threads : thread[u].held # None => thread[u].held.version <= v.version
      BY <3>1, <3>2 DEF VersionsInv, GetVersions, InFile
    <3>6. InFile(v)
      BY <1>1, <3>2, VersionNumbers DEF InFile
    <3>7. VersionsOK'
      BY <2>1, <3>1 DEF VersionsOK, Newest, InFile
    <3>8. \A u \in Threads : GetVersions(u)'
      BY <3>1 DEF VersionsInv, GetVersions, InFile
    <3>9. \A u \in Threads \ {t} : thread'[u].pc # "set"
      BY <3>1, <3>3
    <3>10. NextVersions(t)'
      BY <3>1, <3>4, <3>5, <3>6 DEF NextVersions, Newest, InFile
    <3> QED  BY <3>7, <3>8, <3>9, <3>10 DEF VersionsInv, NextVersions
  <2>6. CASE KeepsStale(t)
    <3>1. /\ OnlyThread(t) /\ file' = file /\ thread[t].pc = "load" /\ thread'[t].pc = "idle"
      BY <2>6 DEF KeepsStale, SameWorld
    <3>2. \A u \in Threads : thread[u].pc # "set"
      BY <1>1, <3>1 DEF LockOK
    <3>3. CASE slot.value # None /\ Answers(t, slot.value)
                 /\ slot' = [slot EXCEPT !.at = thread[t].start]
      <4>1. slot'.value = slot.value
        BY <1>1, <3>3 DEF ReloadType, Reload!Slots
      <4>2. /\ slot.value.version \in Nat /\ InFile(slot.value) /\ shown <= slot.value.version
            /\ thread[t].floor <= slot.value.version
        BY <1>1, <2>1, <3>3, VersionNumbers DEF VersionsOK, Newest, GetVersions
      <4> QED  BY <3>1, <3>2, <3>3, <4>1, <4>2, AnswerKept
    <3>4. CASE slot' = slot /\ shown' = shown /\ SameStart(t)
      <4>1. /\ \A u \in Threads \ {t} : thread'[u] = thread[u]
            /\ thread'[t].held = thread[t].held /\ thread'[t].floor = thread[t].floor
            /\ thread'[t].answer = thread[t].answer
        BY <3>1, <3>4 DEF OnlyThread, SameStart, SameGet
      <4>2. VersionsOK'
        BY <2>1, <3>1, <3>4, <4>1 DEF VersionsOK, Newest, InFile
      <4>3. ASSUME NEW u \in Threads PROVE GetVersions(u)' /\ NextVersions(u)'
        BY <3>1, <3>2, <3>4, <4>1 DEF VersionsInv, GetVersions, NextVersions, InFile
      <4> QED  BY <4>2, <4>3 DEF VersionsInv
    <3> QED  BY <2>6, <3>3, <3>4 DEF KeepsStale
  <2>7. CASE Sets(t)
    <3> DEFINE n == thread[t].next
    <3>1. /\ OnlyThread(t) /\ file' = file /\ thread[t].pc = "set"
          /\ \A u \in Threads \ {t} : thread'[u] = thread[u]
          /\ \A u \in Threads \ {t} : thread[u].pc # "set"
          /\ thread[t].field # "value" => slot.value = n.value
      BY <1>1, <2>7 DEF Sets, SameWorld, OnlyThread, LockOK, ReplacesOK
    <3>2. CASE shown' = shown /\ SameStart(t)
      <4>1. /\ thread'[t].held = thread[t].held /\ thread'[t].floor = thread[t].floor
            /\ thread'[t].answer = thread[t].answer
            /\ thread'[t].pc = "set" => thread'[t].next = n
        BY <2>7, <3>2 DEF Sets, SameStart, SameGet, Answers
      <4>2. slot'.value \in {slot.value, n.value}
            /\ (slot'.value # slot.value => slot'.value = n.value)
            /\ (slot'.value = n.value)
        BY <1>1, <2>7, <3>1 DEF Sets, ReloadType, Reload!Slots
      <4>3. n.value # None => Newest(n.value) /\ InFile(n.value)
        BY <2>1, <3>1 DEF NextVersions
      <4>4. VersionsOK'
        BY <2>1, <3>1, <3>2, <4>1, <4>2, <4>3 DEF VersionsOK, Newest, InFile
      <4>5. \A u \in Threads : GetVersions(u)'
        BY <3>1, <3>2, <4>1 DEF VersionsInv, GetVersions, InFile
      <4>6. NextVersions(t)'
        BY <1>1, <3>1, <3>2, <4>1, <4>2, <4>3, VersionNumbers DEF NextVersions, Newest, InFile
      <4> QED  BY <3>1, <4>4, <4>5, <4>6 DEF VersionsInv, NextVersions
    <3>3. CASE n.value # None /\ Answers(t, n.value) /\ thread[t].field = "at"
                 /\ slot' = [slot EXCEPT !.at = n.at]
      <4>1. slot'.value = slot.value /\ slot.value = n.value
        BY <1>1, <3>1, <3>3 DEF ReloadType, Reload!Slots
      <4>2. /\ n.value.version \in Nat /\ InFile(n.value) /\ shown <= n.value.version
            /\ thread[t].floor <= n.value.version
        BY <1>1, <2>1, <3>1, <3>3, VersionNumbers DEF NextVersions, Newest, GetVersions
      <4> QED  BY <3>1, <3>3, <4>1, <4>2, AnswerKept
    <3> QED  BY <2>7, <3>2, <3>3 DEF Sets
  <2> QED  BY <1>3, <2>2, <2>3, <2>4, <2>5, <2>6, <2>7 DEF ReloadTurn
<1> QED  BY <1>2, <1>3

LEMMA ReloadStart ==
  ASSUME Reload!Init
  PROVE  LoadsInv /\ VersionsInv
<1>1. /\ now = 0 /\ file = [k \in FileKeys |-> [version |-> 1, ok |-> TRUE]]
      /\ slot = Reload!EmptySlot /\ lock = None /\ shown = 0 /\ loads = None /\ early = FALSE
      /\ thread = [t \in Threads |-> Reload!IdleThread]
  BY DEF Reload!Init
<1>2. 1 \in Reload!FileVersions
  BY ReloadTypes DEF Reload!FileVersions
<1>3. ReloadType
  BY <1>1, <1>2, ReloadTypes, EmptySlotOK, IdleThreadOK DEF ReloadType
<1>4. LoadsInv
  BY <1>1, <1>3, ReloadTypes, EmptySlotOK, IdleThreadOK
     DEF LoadsInv, GetsOK, LockOK, ReplacesOK, Settled
<1>5. VersionsInv
  BY <1>1, EmptySlotOK, IdleThreadOK
     DEF VersionsInv, VersionsOK, GetVersions, NextVersions
<1> QED  BY <1>4, <1>5

LEMMA ReloadStep ==
  ASSUME LoadsInv, [Reload!Next]_Reload!vars
  PROVE  LoadsInv' /\ (OnePath /\ VersionsInv => VersionsInv')
<1>1. Passes \/ \E t \in Threads : ReloadTurn(t)
  BY EveryReloadStep DEF LoadsInv
<1> QED  BY <1>1, LoadsKept, VersionsKept

LEMMA ReloadSound == LoadsInv /\ VersionsInv => ReloadsInStep
BY DEF LoadsInv, VersionsInv, GetVersions, ReloadsInStep, Reload!ReloadsInStep,
       Reload!NeverBackwards, Reload!OneLoadPerTtl

-----------------------------------------------------------------------------
(* A key in redis (RedisCache). *)

ClientType ==
  [pc : {"idle", "send", "sent", "lock"}, op : {None, "set", "delete", "fill"},
   begun : Nat, before : Nat]

\* filling and up do not matter to what a writer is told.
RedisType ==
  /\ entry \in Nat \cup {None}
  /\ degraded_ops \in [Redis!Hosts -> Nat]
  /\ client \in [Clients -> ClientType]
  /\ clock \in Nat /\ acked \in Nat

\* Nothing began, and nothing was acknowledged, later than now.
NothingLater == acked <= clock /\ \A c \in Clients : client[c].begun <= clock

\* Failures are counted up.
CountsUp == \A c \in Clients : client[c].before <= degraded_ops[HostOf[c]]

\* A write that is over and saw no failure has left its value, or somebody wrote since.
Effective(c) ==
  Redis!At(c, "sent") /\ client[c].op # "fill" /\ Redis!Arrived(c) /\ entry # None
    => entry >= client[c].begun

RedisInv ==
  /\ RedisType /\ NothingLater /\ CountsUp /\ Redis!AckedWrites
  /\ \A c \in Clients : Effective(c)

-----------------------------------------------------------------------------
LEMMA HostIsHost == ASSUME NEW c \in Clients PROVE HostOf[c] \in Redis!Hosts
BY DEF Redis!Hosts

\* One more failure is counted for a process, none for the others.
LEMMA DegradeEffect ==
  ASSUME degraded_ops \in [Redis!Hosts -> Nat], NEW h \in Redis!Hosts, Redis!Degrade(h)
  PROVE  /\ degraded_ops' \in [Redis!Hosts -> Nat]
         /\ degraded_ops'[h] = degraded_ops[h] + 1
         /\ \A g \in Redis!Hosts : degraded_ops'[g] >= degraded_ops[g]
BY DEF Redis!Degrade

\* A step that moves one client keeps what is known of the rest, if counters and clock do not
\* go back and what is written is written now.
LEMMA OthersKept ==
  ASSUME Redis!NoneAssumption, RedisInv, NEW c \in Clients,
         client' \in [Clients -> ClientType],
         \A d \in Clients \ {c} : client'[d] = client[d],
         degraded_ops' \in [Redis!Hosts -> Nat],
         \A g \in Redis!Hosts : degraded_ops'[g] >= degraded_ops[g],
         clock' \in Nat, clock' >= clock,
         entry' \in {entry, None, clock},
         acked' = acked
  PROVE  /\ RedisType'
         /\ Redis!AckedWrites'
         /\ acked' <= clock'
         /\ \A d \in Clients \ {c} : /\ client'[d].begun <= clock'
                                     /\ client'[d].before <= degraded_ops'[HostOf[d]]
                                     /\ Effective(d)'
<1>1. /\ clock \in Nat /\ acked \in Nat /\ entry \in Nat \cup {None} /\ None \notin Nat
      /\ degraded_ops \in [Redis!Hosts -> Nat] /\ client \in [Clients -> ClientType]
  BY DEF RedisInv, RedisType, Redis!NoneAssumption
<1>2. RedisType'
  BY <1>1 DEF RedisType
<1>3. Redis!AckedWrites' /\ acked' <= clock'
  BY <1>1 DEF RedisInv, Redis!AckedWrites, NothingLater
<1>4. ASSUME NEW d \in Clients \ {c}
      PROVE  /\ client'[d].begun <= clock'
             /\ client'[d].before <= degraded_ops'[HostOf[d]]
             /\ Effective(d)'
  <2>1. /\ client[d].begun \in Nat /\ client[d].before \in Nat
        /\ degraded_ops[HostOf[d]] \in Nat /\ degraded_ops'[HostOf[d]] \in Nat
        /\ degraded_ops'[HostOf[d]] >= degraded_ops[HostOf[d]]
    BY <1>1, HostIsHost DEF ClientType
  <2>2. /\ client[d].begun <= clock /\ client[d].before <= degraded_ops[HostOf[d]]
        /\ Effective(d)
    BY DEF RedisInv, NothingLater, CountsUp
  <2>3. Redis!Arrived(d)' => Redis!Arrived(d)
    BY <2>1, <2>2 DEF Redis!Arrived
  <2> QED  BY <1>1, <2>1, <2>2, <2>3 DEF Effective, Redis!At
<1> QED  BY <1>2, <1>3, <1>4

\* Then the step keeps the invariant if the client that moved satisfies it.
LEMMA MoverKept ==
  ASSUME Redis!NoneAssumption, RedisInv, NEW c \in Clients,
         client' \in [Clients -> ClientType],
         \A d \in Clients \ {c} : client'[d] = client[d],
         degraded_ops' \in [Redis!Hosts -> Nat],
         \A g \in Redis!Hosts : degraded_ops'[g] >= degraded_ops[g],
         clock' \in Nat, clock' >= clock,
         entry' \in {entry, None, clock},
         acked' = acked,
         client'[c].begun <= clock',
         client'[c].before <= degraded_ops'[HostOf[c]],
         Effective(c)'
  PROVE  RedisInv'
BY OthersKept DEF RedisInv, NothingLater, CountsUp

-----------------------------------------------------------------------------
LEMMA RedisStep ==
  ASSUME Redis!NoneAssumption, RedisInv, [Redis!Next]_Redis!redisVars
  PROVE  RedisInv'
<1>1. /\ clock \in Nat /\ acked \in Nat /\ entry \in Nat \cup {None} /\ None \notin Nat
      /\ degraded_ops \in [Redis!Hosts -> Nat] /\ client \in [Clients -> ClientType]
      /\ None # "fill"
  BY DEF RedisInv, RedisType, Redis!NoneAssumption
<1>2. \A g \in Redis!Hosts : degraded_ops[g] \in Nat /\ degraded_ops[g] >= degraded_ops[g]
  BY <1>1
<1>3. Redis!IdleClient \in ClientType /\ Redis!IdleClient.begun = 0 /\ Redis!IdleClient.before = 0
      /\ Redis!IdleClient.pc = "idle"
  BY DEF Redis!IdleClient, ClientType
<1>4. ASSUME NEW c \in Clients
      PROVE  /\ client[c] \in ClientType /\ HostOf[c] \in Redis!Hosts
             /\ client[c].begun \in Nat /\ client[c].before \in Nat
             /\ client[c].begun <= clock /\ client[c].before <= degraded_ops[HostOf[c]]
             /\ Effective(c)
  BY <1>1, HostIsHost DEF ClientType, RedisInv, NothingLater, CountsUp
<1>5. ASSUME NEW c \in Clients, Redis!WriteBegin(c)
      PROVE  RedisInv'
  <2>1. PICK op \in {"set", "delete"} :
          client' = [client EXCEPT ![c] = [Redis!IdleClient EXCEPT !.pc = "send", !.op = op,
                       !.begun = clock, !.before = degraded_ops[HostOf[c]]]]
    BY <1>5 DEF Redis!WriteBegin
  <2> DEFINE new == [Redis!IdleClient EXCEPT !.pc = "send", !.op = op, !.begun = clock,
                                       !.before = degraded_ops[HostOf[c]]]
  <2>2. degraded_ops[HostOf[c]] \in Nat
    BY <1>2, <1>4
  <2>3. new \in ClientType /\ new.pc = "send" /\ new.begun = clock
        /\ new.before = degraded_ops[HostOf[c]]
    BY <1>1, <2>2 DEF Redis!IdleClient, ClientType
  <2>4. client' = [client EXCEPT ![c] = new]
    BY <2>1
  <2> HIDE DEF new
  <2>5. client' \in [Clients -> ClientType] /\ client'[c] = new
        /\ \A d \in Clients \ {c} : client'[d] = client[d]
    BY <1>1, <2>3, <2>4
  <2>6. /\ clock' = clock + 1 /\ entry' = entry /\ acked' = acked
        /\ degraded_ops' = degraded_ops
    BY <1>5 DEF Redis!WriteBegin, Redis!Later
  <2>7. Effective(c)'
    BY <2>3, <2>5 DEF Effective, Redis!At
  <2> QED  BY <1>1, <1>2, <2>2, <2>3, <2>5, <2>6, <2>7, MoverKept
<1>6. ASSUME NEW c \in Clients, Redis!Send(c)
      PROVE  RedisInv'
  <2> DEFINE new == [client[c] EXCEPT !.pc = "sent"]
  <2>1. new \in ClientType /\ new.begun = client[c].begun /\ new.before = client[c].before
        /\ new.op = client[c].op
    BY <1>4 DEF ClientType
  <2>2. client' = [client EXCEPT ![c] = new]
    BY <1>6 DEF Redis!Send, Redis!Goto
  <2> HIDE DEF new
  <2>3. client' \in [Clients -> ClientType] /\ client'[c] = new
        /\ \A d \in Clients \ {c} : client'[d] = client[d]
    BY <1>1, <2>1, <2>2
  <2>4. clock' = clock + 1 /\ acked' = acked
    BY <1>6 DEF Redis!Send, Redis!Later
  <2>5. Redis!Put(c) \in {None, clock}
    BY DEF Redis!Put
  <2>6. CASE entry' = Redis!Put(c) /\ degraded_ops' = degraded_ops
    <3>1. Effective(c)'
      BY <1>1, <1>4, <2>1, <2>3, <2>5, <2>6 DEF Effective
    <3> QED  BY <1>1, <1>2, <1>4, <2>1, <2>3, <2>4, <2>5, <2>6, <3>1, MoverKept
  <2>7. CASE entry' \in {entry, Redis!Put(c)} /\ Redis!Degrade(HostOf[c])
    <3>1. /\ degraded_ops' \in [Redis!Hosts -> Nat]
          /\ degraded_ops'[HostOf[c]] = degraded_ops[HostOf[c]] + 1
          /\ \A g \in Redis!Hosts : degraded_ops'[g] >= degraded_ops[g]
      BY <1>1, <1>4, <2>7, DegradeEffect
    <3>2. client'[c].before <= degraded_ops'[HostOf[c]] /\ ~Redis!Arrived(c)'
      BY <1>2, <1>4, <2>1, <2>3, <3>1 DEF Redis!Arrived
    <3>3. Effective(c)'
      BY <3>2 DEF Effective
    <3>4. entry' \in {entry, None, clock} /\ client'[c].begun <= clock'
      BY <1>1, <1>4, <2>1, <2>3, <2>4, <2>5, <2>7
    <3> QED  BY <1>1, <2>3, <2>4, <3>1, <3>2, <3>3, <3>4, MoverKept
  <2> QED  BY <1>6, <2>6, <2>7 DEF Redis!Send
<1>7. ASSUME NEW c \in Clients, Redis!Ended(c)
      PROVE  /\ client' \in [Clients -> ClientType] /\ client'[c] = Redis!IdleClient
             /\ \A d \in Clients \ {c} : client'[d] = client[d]
             /\ client'[c].begun = 0 /\ client'[c].before = 0
             /\ Effective(c)'
  <2>1. client' = [client EXCEPT ![c] = Redis!IdleClient]
    BY <1>7 DEF Redis!Ended
  <2>2. client' \in [Clients -> ClientType] /\ client'[c] = Redis!IdleClient
        /\ \A d \in Clients \ {c} : client'[d] = client[d]
    BY <1>1, <1>3, <2>1
  <2> QED  BY <1>3, <2>2 DEF Effective, Redis!At
<1>8. ASSUME NEW c \in Clients, Redis!WriteEnd(c)
      PROVE  RedisInv'
  <2>1. /\ clock' = clock /\ entry' = entry /\ degraded_ops' = degraded_ops
        /\ acked' = IF Redis!Arrived(c) /\ client[c].begun > acked THEN client[c].begun ELSE acked
    BY <1>8 DEF Redis!WriteEnd
  <2>2. /\ client' \in [Clients -> ClientType] /\ client'[c] = Redis!IdleClient
        /\ \A d \in Clients \ {c} : client'[d] = client[d]
        /\ client'[c].begun = 0 /\ client'[c].before = 0
        /\ Effective(c)'
    BY <1>7, <1>8 DEF Redis!WriteEnd
  <2>3. acked' \in Nat /\ acked' <= clock'
    BY <1>1, <1>4, <2>1 DEF RedisInv, NothingLater
  <2>4. Redis!Arrived(c) /\ entry # None => entry >= client[c].begun
    BY <1>4, <1>8 DEF Redis!WriteEnd, Effective
  <2>5. Redis!AckedWrites'
    BY <1>1, <1>4, <2>1, <2>4 DEF RedisInv, Redis!AckedWrites
  <2>6. RedisType'
    BY <1>1, <2>1, <2>2, <2>3 DEF RedisType
  <2>7. \A d \in Clients : Effective(d)'
    BY <1>4, <2>1, <2>2 DEF Effective, Redis!At, Redis!Arrived
  <2>8. NothingLater' /\ CountsUp'
    BY <1>1, <1>2, <1>4, <2>1, <2>2, <2>3 DEF NothingLater, CountsUp
  <2> QED  BY <2>5, <2>6, <2>7, <2>8 DEF RedisInv
<1>9. ASSUME NEW c \in Clients, Redis!FillBegin(c)
      PROVE  RedisInv'
  <2> DEFINE new == [Redis!IdleClient EXCEPT !.pc = "lock", !.op = "fill"]
  <2>1. new \in ClientType /\ new.begun = 0 /\ new.before = 0 /\ new.pc = "lock"
    BY DEF Redis!IdleClient, ClientType
  <2>2. client' = [client EXCEPT ![c] = new]
    BY <1>9 DEF Redis!FillBegin
  <2> HIDE DEF new
  <2>3. client' \in [Clients -> ClientType] /\ client'[c] = new
        /\ \A d \in Clients \ {c} : client'[d] = client[d]
    BY <1>1, <2>1, <2>2
  <2>4. clock' = clock + 1 /\ acked' = acked /\ entry' = entry
    BY <1>9 DEF Redis!FillBegin, Redis!Later
  <2>5. /\ degraded_ops' \in [Redis!Hosts -> Nat]
        /\ \A g \in Redis!Hosts : degraded_ops'[g] >= degraded_ops[g]
    BY <1>1, <1>2, <1>4, <1>9, DegradeEffect DEF Redis!FillBegin
  <2>6. Effective(c)'
    BY <2>1, <2>3 DEF Effective, Redis!At
  <2>7. client'[c].begun <= clock' /\ client'[c].before <= degraded_ops'[HostOf[c]]
    BY <1>1, <1>4, <2>1, <2>3, <2>4, <2>5
  <2> QED  BY <1>1, <2>3, <2>4, <2>5, <2>6, <2>7, MoverKept
<1>10. ASSUME NEW c \in Clients, Redis!FillLock(c)
       PROVE  RedisInv'
  <2>1. clock' = clock /\ acked' = acked /\ entry' = entry /\ degraded_ops' = degraded_ops
    BY <1>10 DEF Redis!FillLock
  <2>2. CASE Redis!Ended(c)
    BY <1>1, <1>2, <1>4, <1>7, <2>1, <2>2, MoverKept
  <2>3. CASE client' = [client EXCEPT ![c].pc = "send", ![c].begun = clock]
    <3> DEFINE new == [client[c] EXCEPT !.pc = "send", !.begun = clock]
    <3>1. new \in ClientType /\ new.begun = clock /\ new.before = client[c].before
          /\ new.pc = "send"
      BY <1>1, <1>4 DEF ClientType
    <3>2. client' = [client EXCEPT ![c] = new]
      BY <2>3
    <3> HIDE DEF new
    <3>3. client' \in [Clients -> ClientType] /\ client'[c] = new
          /\ \A d \in Clients \ {c} : client'[d] = client[d]
      BY <1>1, <3>1, <3>2
    <3>4. Effective(c)'
      BY <3>1, <3>3 DEF Effective, Redis!At
    <3> QED  BY <1>1, <1>2, <1>4, <2>1, <3>1, <3>3, <3>4, MoverKept
  <2> QED  BY <1>10, <2>2, <2>3 DEF Redis!FillLock
<1>11. ASSUME NEW c \in Clients, Redis!FillEnd(c)
       PROVE  RedisInv'
  <2>1. clock' = clock /\ acked' = acked /\ entry' = entry /\ degraded_ops' = degraded_ops
        /\ Redis!Ended(c)
    BY <1>11 DEF Redis!FillEnd
  <2> QED  BY <1>1, <1>2, <1>4, <1>7, <2>1, MoverKept
<1>12. CASE Redis!Switch \/ UNCHANGED Redis!redisVars
  <2>1. /\ client' = client /\ degraded_ops' = degraded_ops /\ clock' = clock /\ acked' = acked
        /\ entry' \in {entry, None}
    BY <1>12 DEF Redis!Switch, Redis!redisVars
  <2>2. \A c \in Clients : Effective(c)'
    BY <1>4, <2>1 DEF Effective, Redis!At, Redis!Arrived
  <2> QED  BY <1>1, <2>1, <2>2 DEF RedisInv, RedisType, NothingLater, CountsUp, Redis!AckedWrites
<1> QED  BY <1>5, <1>6, <1>8, <1>9, <1>10, <1>11, <1>12 DEF Redis!Next

LEMMA RedisStart ==
  ASSUME Redis!Init
  PROVE  RedisInv
<1>1. Redis!IdleClient \in ClientType /\ Redis!IdleClient.begun = 0 /\ Redis!IdleClient.before = 0
      /\ Redis!IdleClient.pc = "idle"
  BY DEF Redis!IdleClient, ClientType
<1>2. /\ client = [c \in Clients |-> Redis!IdleClient] /\ degraded_ops = [h \in Redis!Hosts |-> 0]
      /\ entry = None /\ clock = 1 /\ acked = 0
  BY DEF Redis!Init
<1>3. RedisType /\ Redis!AckedWrites
  BY <1>1, <1>2 DEF RedisType, Redis!AckedWrites
<1>4. NothingLater /\ CountsUp
  BY <1>1, <1>2, HostIsHost DEF NothingLater, CountsUp
<1> QED  BY <1>1, <1>2, <1>3, <1>4 DEF RedisInv, Effective, Redis!At

-----------------------------------------------------------------------------
(* Versioned configurations (VersionedConfig). *)

VersionsOf(scope) == {r.version : r \in Configs!OfScope(scope)}

\* Every row under the unique key is a row of the table; of the others nothing is asked.
KeyedRowsOK == \A r \in configs : r.scope \in Keyed => r \in Configs!Rows

Dense(scope) == \E n \in Nat : VersionsOf(scope) = 1 .. n

OnePerVersion ==
  \A r, s \in configs : r.scope \in Keyed /\ s.scope = r.scope /\ s.version = r.version => s = r

Inherits(r, s) ==
  /\ s.version = r.version - 1
  /\ \A c \in ConfigColumns \ r.given : r.row[c] = s.row[c]

Descends(r) == r.version > 1 => \E s \in Configs!OfScope(r.scope) : Inherits(r, s)

\* What a writer has found in the table is there, and was the latest when it looked.
WriterOK(w) ==
  Configs!At(w, "prior") \/ Configs!At(w, "insert") =>
    /\ Configs!Me(w).scope \in ConfigScopes /\ Configs!Me(w).given \in SUBSET ConfigColumns
    /\ Configs!Me(w).scope \in Keyed =>
         /\ Configs!Me(w).next \in Nat \ {0}
         /\ Configs!Me(w).next > 1 => Configs!Me(w).next - 1 \in VersionsOf(Configs!Me(w).scope)
         /\ Configs!Me(w).prior \in Configs!OfScope(Configs!Me(w).scope) \cup {None}
         /\ /\ Configs!At(w, "insert")
            /\ Configs!Me(w).next > 1 /\ Configs!Me(w).given # ConfigColumns
            => /\ Configs!Me(w).prior \in Configs!OfScope(Configs!Me(w).scope)
               /\ Configs!Me(w).prior.version >= Configs!Me(w).next - 1

\* The fields of a writer.
Shaped(me) == me = [pc |-> me.pc, scope |-> me.scope, given |-> me.given, next |-> me.next,
                    prior |-> me.prior]

HistoryInv ==
  /\ DOMAIN writer = Writers
  /\ \A w \in Writers : Shaped(writer[w])
  /\ KeyedRowsOK /\ OnePerVersion
  /\ \A scope \in Keyed : Dense(scope)
  /\ \A r \in configs : r.scope \in Keyed => Descends(r)
  /\ \A w \in Writers : WriterOK(w)

-----------------------------------------------------------------------------
\* The latest version of a dense history is its length.
LEMMA LatestIsLength ==
  ASSUME NEW scope, NEW n \in Nat, VersionsOf(scope) = 1 .. n
  PROVE  Configs!LatestVersion(scope) = n
<1>1. Configs!LatestVersion(scope) = Configs!Max({0} \cup (1 .. n))
  BY DEF Configs!LatestVersion, VersionsOf
<1>2. n \in {0} \cup (1 .. n) /\ \A y \in {0} \cup (1 .. n) : n >= y
  OBVIOUS
<1>3. \A x \in {0} \cup (1 .. n) : (\A y \in {0} \cup (1 .. n) : x >= y) => x = n
  BY <1>2
<1> HIDE DEF Configs!LatestVersion
<1> QED  BY <1>1, <1>2, <1>3 DEF Configs!Max

\* Rows are only added: what a writer found stays.
LEMMA FoundStays ==
  ASSUME NEW w \in Writers, WriterOK(w), writer'[w] = writer[w], configs \subseteq configs'
  PROVE  WriterOK(w)'
<1>1. \A scope : /\ Configs!OfScope(scope) \subseteq Configs!OfScope(scope)'
                 /\ VersionsOf(scope) \subseteq VersionsOf(scope)'
  BY DEF Configs!OfScope, VersionsOf
<1>2. Configs!Me(w)' = Configs!Me(w) /\ (\A pc : Configs!At(w, pc)' = Configs!At(w, pc))
  BY DEF Configs!Me, Configs!At
<1> QED  BY <1>1, <1>2 DEF WriterOK

\* A row that extends a dense history by the next version, or that the key does not cover.
LEMMA RowsExtended ==
  ASSUME HistoryInv, NEW r, configs' = configs \cup {r},
         r.scope \in Keyed =>
           /\ r \in Configs!Rows
           /\ r.version \in Nat \ {0}
           /\ r.version \notin VersionsOf(r.scope)
           /\ r.version > 1 => r.version - 1 \in VersionsOf(r.scope)
           /\ Descends(r)
  PROVE  /\ KeyedRowsOK' /\ OnePerVersion'
         /\ \A scope \in Keyed : Dense(scope)'
         /\ \A s \in configs' : s.scope \in Keyed => Descends(s)'
<1>1. KeyedRowsOK'
  BY DEF HistoryInv, KeyedRowsOK
<1>2. ASSUME r.scope \in Keyed
      PROVE  \A s \in Configs!OfScope(r.scope) : s.version # r.version
  BY <1>2 DEF VersionsOf
<1>3. OnePerVersion'
  BY <1>2 DEF HistoryInv, OnePerVersion, Configs!OfScope
<1>4. ASSUME NEW s \in configs', s.scope \in Keyed
      PROVE  Descends(s)'
  <2>1. Descends(s)
    BY <1>4 DEF HistoryInv
  <2>2. Configs!OfScope(s.scope) \subseteq Configs!OfScope(s.scope)'
    BY DEF Configs!OfScope
  <2> QED  BY <2>1, <2>2 DEF Descends, Inherits
<1>5. ASSUME NEW scope \in Keyed
      PROVE  Dense(scope)'
  <2>1. PICK n \in Nat : VersionsOf(scope) = 1 .. n
    BY DEF HistoryInv, Dense
  <2>2. CASE r.scope # scope
    <3>1. VersionsOf(scope)' = VersionsOf(scope)
      BY <2>2 DEF VersionsOf, Configs!OfScope
    <3> QED  BY <2>1, <3>1 DEF Dense
  <2>3. CASE r.scope = scope
    <3>1. VersionsOf(scope)' = VersionsOf(scope) \cup {r.version}
      BY <2>3 DEF VersionsOf, Configs!OfScope
    <3>2. r.version = n + 1
      BY <2>1, <2>3
    <3>3. (1 .. n) \cup {n + 1} = 1 .. (n + 1)
      OBVIOUS
    <3> QED  BY <2>1, <3>1, <3>2, <3>3 DEF Dense
  <2> QED  BY <2>2, <2>3
<1> QED  BY <1>1, <1>3, <1>4, <1>5

\* Of a keyed scope, the latest rows are those of its highest version, if there are any.
LEMMA LatestFound ==
  ASSUME HistoryInv, NEW scope \in Keyed, NEW prior \in Configs!GetLatest(scope)
  PROVE  /\ Configs!LatestVersion(scope) \in Nat
         /\ \A v \in VersionsOf(scope) : v \in Nat \ {0} /\ v <= Configs!LatestVersion(scope)
         /\ Configs!LatestVersion(scope) > 0 => Configs!LatestVersion(scope) \in VersionsOf(scope)
         /\ prior \in Configs!OfScope(scope) \cup {None}
         /\ VersionsOf(scope) # {} =>
              prior \in Configs!OfScope(scope) /\ prior.version = Configs!LatestVersion(scope)
<1>1. PICK n \in Nat : VersionsOf(scope) = 1 .. n
  BY DEF HistoryInv, Dense
<1>2. Configs!LatestVersion(scope) = n
  BY <1>1, LatestIsLength
<1>3. prior \in Configs!OfScope(scope) \cup {None}
  BY DEF Configs!GetLatest
<1>4. ASSUME VersionsOf(scope) # {}
      PROVE  prior \in Configs!OfScope(scope) /\ prior.version = Configs!LatestVersion(scope)
  <2>1. Configs!OfScope(scope) # {}
    BY <1>4 DEF VersionsOf
  <2> QED  BY <2>1 DEF Configs!GetLatest
<1> QED  BY <1>1, <1>2, <1>3, <1>4

-----------------------------------------------------------------------------
LEMMA ReadStep ==
  ASSUME HistoryInv, NEW w \in Writers, Configs!ReadLatest(w)
  PROVE  /\ WriterOK(w)' /\ Shaped(writer'[w]) /\ DOMAIN writer' = Writers
         /\ \A v \in Writers \ {w} : writer'[v] = writer[v]
<1>1. PICK scope \in ConfigScopes, given \in SUBSET ConfigColumns :
        LET begun == [Configs!IdleWriter EXCEPT !.pc = "insert", !.scope = scope, !.given = given,
                                        !.next = Configs!LatestVersion(scope) + 1]
        IN \/ /\ given = ConfigColumns
              /\ writer' = [writer EXCEPT ![w] = begun]
           \/ writer' = [writer EXCEPT ![w] = [begun EXCEPT !.pc = "prior"]]
           \/ \E prior \in Configs!GetLatest(scope) :
                writer' = [writer EXCEPT ![w] = [begun EXCEPT !.prior = prior]]
  BY DEF Configs!ReadLatest
<1>2. configs' = configs /\ DOMAIN writer = Writers
  BY DEF Configs!ReadLatest, HistoryInv
<1> DEFINE next == Configs!LatestVersion(scope) + 1
<1> DEFINE with(pc, prior) ==
             [pc |-> pc, scope |-> scope, given |-> given, next |-> next, prior |-> prior]
<1>3. \/ given = ConfigColumns /\ writer' = [writer EXCEPT ![w] = with("insert", None)]
      \/ writer' = [writer EXCEPT ![w] = with("prior", None)]
      \/ \E prior \in Configs!GetLatest(scope) :
           writer' = [writer EXCEPT ![w] = with("insert", prior)]
  BY <1>1, Zenon DEF Configs!IdleWriter
<1> HIDE DEF next
<1>4. PICK new : /\ writer' = [writer EXCEPT ![w] = new]
                 /\ Shaped(new) /\ new.scope = scope /\ new.given = given /\ new.next = next
                 /\ \/ new.pc = "insert" /\ given = ConfigColumns /\ new.prior = None
                    \/ new.pc = "prior" /\ new.prior = None
                    \/ new.pc = "insert" /\ new.prior \in Configs!GetLatest(scope)
  <2>1. ASSUME NEW pc, NEW prior
        PROVE  /\ Shaped(with(pc, prior)) /\ with(pc, prior).scope = scope
               /\ with(pc, prior).given = given /\ with(pc, prior).next = next
               /\ with(pc, prior).pc = pc /\ with(pc, prior).prior = prior
    BY DEF Shaped
  <2> HIDE DEF with
  <2> QED  BY <1>3, <2>1
<1> USE DEF next
<1>5. /\ DOMAIN writer' = Writers /\ writer'[w] = new
      /\ \A v \in Writers \ {w} : writer'[v] = writer[v]
  BY <1>2, <1>4
<1>6. \A s : Configs!OfScope(s)' = Configs!OfScope(s) /\ VersionsOf(s)' = VersionsOf(s)
  BY <1>2 DEF Configs!OfScope, VersionsOf
<1>7. ASSUME scope \in Keyed
      PROVE  /\ next \in Nat \ {0}
             /\ next > 1 => next - 1 \in VersionsOf(scope)
             /\ new.prior \in Configs!OfScope(scope) \cup {None}
             /\ new.prior \in Configs!GetLatest(scope) /\ next > 1 =>
                  new.prior \in Configs!OfScope(scope) /\ new.prior.version >= next - 1
  <2>1. \E prior : prior \in Configs!GetLatest(scope)
    <3>1. PICK n \in Nat : VersionsOf(scope) = 1 .. n
      BY <1>7 DEF HistoryInv, Dense
    <3>2. Configs!LatestVersion(scope) = n
      BY <3>1, LatestIsLength
    <3>3. CASE n = 0
      BY <3>1, <3>3 DEF Configs!GetLatest, VersionsOf
    <3>4. CASE n > 0
      <4>1. PICK r \in Configs!OfScope(scope) : r.version = n
        BY <3>1, <3>4 DEF VersionsOf
      <4> QED  BY <3>2, <4>1 DEF Configs!GetLatest
    <3> QED  BY <3>3, <3>4
  <2>2. /\ Configs!LatestVersion(scope) \in Nat
        /\ Configs!LatestVersion(scope) > 0 => Configs!LatestVersion(scope) \in VersionsOf(scope)
    BY <1>7, <2>1, LatestFound
  <2>3. new.prior \in Configs!GetLatest(scope) => new.prior \in Configs!OfScope(scope) \cup {None}
    BY <1>7, LatestFound
  <2>4. new.prior \in Configs!GetLatest(scope) /\ next > 1 =>
          new.prior \in Configs!OfScope(scope) /\ new.prior.version = Configs!LatestVersion(scope)
    BY <1>7, <2>2, LatestFound
  <2> QED  BY <1>4, <2>2, <2>3, <2>4
<1> HIDE DEF next
<1>8. WriterOK(w)'
  BY <1>4, <1>5, <1>6, <1>7 DEF WriterOK, Configs!Me, Configs!At
<1> QED  BY <1>4, <1>5, <1>8

LEMMA WithPrior ==
  ASSUME NEW me, Shaped(me), NEW prior
  PROVE  [me EXCEPT !.prior = prior, !.pc = "insert"] =
           [pc |-> "insert", scope |-> me.scope, given |-> me.given, next |-> me.next,
            prior |-> prior]
<1> DEFINE found == [me EXCEPT !.prior = prior]
<1>1. found = [pc |-> me.pc, scope |-> me.scope, given |-> me.given, next |-> me.next,
               prior |-> prior]
  BY DEF Shaped
<1>2. /\ Shaped(found) /\ found.scope = me.scope /\ found.given = me.given
      /\ found.next = me.next /\ found.prior = prior
  BY <1>1 DEF Shaped
<1> HIDE DEF found
<1>3. [found EXCEPT !.pc = "insert"] =
        [pc |-> "insert", scope |-> me.scope, given |-> me.given, next |-> me.next, prior |-> prior]
  BY <1>2 DEF Shaped
<1>4. [me EXCEPT !.prior = prior, !.pc = "insert"] = [found EXCEPT !.pc = "insert"]
  BY DEF found
<1> QED  BY <1>3, <1>4

LEMMA PriorStep ==
  ASSUME HistoryInv, NEW w \in Writers, Configs!ReadPrior(w)
  PROVE  /\ WriterOK(w)' /\ Shaped(writer'[w]) /\ DOMAIN writer' = Writers
         /\ \A v \in Writers \ {w} : writer'[v] = writer[v]
<1>1. PICK prior \in Configs!GetLatest(Configs!Me(w).scope) :
        writer' = [writer EXCEPT ![w].prior = prior, ![w].pc = "insert"]
  BY DEF Configs!ReadPrior
<1>2. configs' = configs /\ DOMAIN writer = Writers /\ WriterOK(w) /\ Configs!At(w, "prior")
  BY DEF Configs!ReadPrior, HistoryInv
<1> DEFINE me  == writer[w]
           new == [pc |-> "insert", scope |-> me.scope, given |-> me.given, next |-> me.next,
                   prior |-> prior]
<1>3. writer' = [writer EXCEPT ![w] = new]
  <2>1. Shaped(me)
    BY DEF HistoryInv
  <2>2. [me EXCEPT !.prior = prior, !.pc = "insert"] = new
    BY <2>1, WithPrior
  <2> QED  BY <1>1, <2>2
<1>4. /\ DOMAIN writer' = Writers /\ writer'[w] = new
      /\ \A v \in Writers \ {w} : writer'[v] = writer[v]
  BY <1>2, <1>3
<1>5. \A s : Configs!OfScope(s)' = Configs!OfScope(s) /\ VersionsOf(s)' = VersionsOf(s)
  BY <1>2 DEF Configs!OfScope, VersionsOf
<1>6. /\ Configs!Me(w).scope = new.scope /\ Configs!Me(w).given = new.given
      /\ Configs!Me(w).next = new.next
  BY DEF Configs!Me
<1>7. ASSUME Configs!Me(w).scope \in Keyed
      PROVE  /\ prior \in Configs!OfScope(Configs!Me(w).scope) \cup {None}
             /\ Configs!Me(w).next > 1 =>
                  /\ prior \in Configs!OfScope(Configs!Me(w).scope)
                  /\ prior.version >= Configs!Me(w).next - 1
  <2>1. /\ Configs!Me(w).next \in Nat \ {0}
        /\ Configs!Me(w).next > 1 => Configs!Me(w).next - 1 \in VersionsOf(Configs!Me(w).scope)
    BY <1>2, <1>7 DEF WriterOK
  <2> QED  BY <1>7, <2>1, LatestFound
<1>8. /\ Configs!Me(w)'.scope = Configs!Me(w).scope
      /\ Configs!Me(w)'.given = Configs!Me(w).given /\ Configs!Me(w)'.next = Configs!Me(w).next
      /\ Configs!Me(w).scope \in Keyed =>
           Configs!Me(w)'.prior \in Configs!OfScope(Configs!Me(w).scope) \cup {None}
      /\ Configs!Me(w).scope \in Keyed /\ Configs!Me(w).next > 1 =>
           /\ Configs!Me(w)'.prior \in Configs!OfScope(Configs!Me(w).scope)
           /\ Configs!Me(w)'.prior.version >= Configs!Me(w).next - 1
  BY <1>4, <1>6, <1>7 DEF Configs!Me
<1>9. Shaped(writer'[w]) /\ Configs!At(w, "insert")'
  BY <1>4 DEF Shaped, Configs!At
<1> HIDE DEF new
<1> QED  BY <1>2, <1>4, <1>5, <1>8, <1>9 DEF WriterOK

\* What an insert that the key lets through adds to the history of a keyed scope.
LEMMA NewRowExtends ==
  ASSUME Configs!NoneAssumption, HistoryInv, NEW w \in Writers,
         Configs!At(w, "insert"), ~Configs!Conflicts(w),
         Configs!NewRow(w).scope \in Keyed
  PROVE  /\ Configs!NewRow(w) \in Configs!Rows
         /\ Configs!NewRow(w).version \in Nat \ {0}
         /\ Configs!NewRow(w).version \notin VersionsOf(Configs!NewRow(w).scope)
         /\ Configs!NewRow(w).version > 1 =>
              Configs!NewRow(w).version - 1 \in VersionsOf(Configs!NewRow(w).scope)
         /\ Descends(Configs!NewRow(w))
<1> DEFINE scope == Configs!Me(w).scope
           next  == Configs!Me(w).next
           prior == Configs!Me(w).prior
           given == Configs!Me(w).given
           r     == Configs!NewRow(w)
<1>1. /\ r.scope = scope /\ r.version = next /\ r.given = given
      /\ r.row = [c \in ConfigColumns |-> Configs!Carried(w, c)]
      /\ r = [scope |-> scope, version |-> next, given |-> given,
              row |-> [c \in ConfigColumns |-> Configs!Carried(w, c)]]
  BY DEF Configs!NewRow, Configs!NextVersion
<1>2. scope \in Keyed
  BY <1>1
<1>3. /\ scope \in ConfigScopes /\ given \in SUBSET ConfigColumns /\ next \in Nat \ {0}
      /\ next > 1 => next - 1 \in VersionsOf(scope)
      /\ prior \in Configs!OfScope(scope) \cup {None}
      /\ next > 1 /\ given # ConfigColumns =>
           prior \in Configs!OfScope(scope) /\ prior.version >= next - 1
  BY <1>2 DEF HistoryInv, WriterOK
<1>4. prior \in Configs!OfScope(scope) => prior \in Configs!Rows
  BY <1>2 DEF HistoryInv, KeyedRowsOK, Configs!OfScope
<1>5. \A c \in ConfigColumns : Configs!Carried(w, c) \in Configs!Cells
  <2>1. <<w, next>> \in Configs!Cells /\ None \in Configs!Cells
    BY <1>3 DEF Configs!Cells
  <2>2. prior # None => \A c \in ConfigColumns : prior.row[c] \in Configs!Cells
    BY <1>3, <1>4 DEF Configs!Rows
  <2> QED  BY <2>1, <2>2 DEF Configs!Carried, Configs!NextVersion
<1>6. r \in Configs!Rows
  <2>1. [c \in ConfigColumns |-> Configs!Carried(w, c)] \in [ConfigColumns -> Configs!Cells]
    BY <1>5
  <2> QED  BY <1>1, <1>3, <2>1 DEF Configs!Rows
<1>7. next \notin VersionsOf(scope)
  BY <1>2 DEF Configs!Conflicts, Configs!NextVersion, VersionsOf
<1>8. Descends(r)
  <2>1. ASSUME next > 1
        PROVE  \E s \in Configs!OfScope(scope) : Inherits(r, s)
    <3>1. PICK s \in Configs!OfScope(scope) : s.version = next - 1
      BY <1>3, <2>1 DEF VersionsOf
    <3>2. CASE given = ConfigColumns
      BY <1>1, <3>1, <3>2 DEF Inherits
    <3>3. CASE given # ConfigColumns
      <4>1. PICK n \in Nat : VersionsOf(scope) = 1 .. n
        BY <1>2 DEF HistoryInv, Dense
      <4>2. prior \in Configs!OfScope(scope) /\ prior.version >= next - 1 /\ prior.version \in 1 .. n
        BY <1>3, <2>1, <3>3, <4>1 DEF VersionsOf
      <4>3. prior.version = next - 1
        BY <1>3, <1>7, <2>1, <4>1, <4>2
      <4>4. prior # None
        BY <1>4, <4>2 DEF Configs!NoneAssumption
      <4>5. \A c \in ConfigColumns \ given : r.row[c] = prior.row[c]
        BY <1>1, <4>4 DEF Configs!Carried
      <4> QED  BY <1>1, <4>2, <4>3, <4>5 DEF Inherits
    <3> QED  BY <3>2, <3>3
  <2> QED  BY <1>1, <2>1 DEF Descends
<1> QED  BY <1>1, <1>3, <1>6, <1>7, <1>8

LEMMA InsertStep ==
  ASSUME Configs!NoneAssumption, HistoryInv, NEW w \in Writers, Configs!Insert(w)
  PROVE  HistoryInv'
<1>1. /\ Configs!At(w, "insert") /\ writer' = [writer EXCEPT ![w] = Configs!IdleWriter]
      /\ DOMAIN writer = Writers
      /\ configs' = IF Configs!Conflicts(w) THEN configs ELSE configs \cup {Configs!NewRow(w)}
  BY DEF Configs!Insert, HistoryInv
<1>2. /\ DOMAIN writer' = Writers /\ writer'[w] = Configs!IdleWriter
      /\ \A v \in Writers \ {w} : writer'[v] = writer[v]
  BY <1>1
<1>3. configs \subseteq configs'
  BY <1>1
<1>4. Shaped(Configs!IdleWriter) /\ Configs!IdleWriter.pc = "idle"
  BY DEF Shaped, Configs!IdleWriter
<1>5. \A v \in Writers : Shaped(writer'[v])
  BY <1>2, <1>4 DEF HistoryInv
<1>6. ASSUME NEW v \in Writers
      PROVE  WriterOK(v)'
  <2>1. CASE v = w
    BY <1>2, <1>4, <2>1 DEF WriterOK, Configs!At
  <2>2. CASE v # w
    <3>1. WriterOK(v) /\ writer'[v] = writer[v]
      BY <1>2, <2>2 DEF HistoryInv
    <3> QED  BY <1>3, <3>1, FoundStays
  <2> QED  BY <2>1, <2>2
<1>7. /\ KeyedRowsOK' /\ OnePerVersion'
      /\ \A scope \in Keyed : Dense(scope)'
      /\ \A s \in configs' : s.scope \in Keyed => Descends(s)'
  <2>1. CASE Configs!Conflicts(w)
    <3>1. configs' = configs
      BY <1>1, <2>1
    <3>2. \A s : Configs!OfScope(s)' = Configs!OfScope(s)
      BY <3>1 DEF Configs!OfScope
    <3>3. KeyedRowsOK' /\ OnePerVersion' /\ \A scope \in Keyed : Dense(scope)'
      BY <3>1, <3>2 DEF HistoryInv, KeyedRowsOK, OnePerVersion, Dense, VersionsOf
    <3>4. \A s \in configs' : s.scope \in Keyed => Descends(s)'
      BY <3>1, <3>2 DEF HistoryInv, Descends, Inherits
    <3> QED  BY <3>3, <3>4
  <2>2. CASE ~Configs!Conflicts(w)
    <3>1. configs' = configs \cup {Configs!NewRow(w)}
      BY <1>1, <2>2
    <3> QED  BY <1>1, <2>2, <3>1, NewRowExtends, RowsExtended
  <2> QED  BY <2>1, <2>2
<1> QED  BY <1>2, <1>5, <1>6, <1>7 DEF HistoryInv

\* A step that reads moves one writer and leaves the rows as they are.
LEMMA ReadKept ==
  ASSUME HistoryInv, NEW w \in Writers, configs' = configs,
         WriterOK(w)', Shaped(writer'[w]), DOMAIN writer' = Writers,
         \A v \in Writers \ {w} : writer'[v] = writer[v]
  PROVE  HistoryInv'
<1>1. \A s : Configs!OfScope(s)' = Configs!OfScope(s) /\ VersionsOf(s)' = VersionsOf(s)
  BY DEF Configs!OfScope, VersionsOf
<1>2. \A v \in Writers : Shaped(writer'[v])
  BY DEF HistoryInv
<1>3. ASSUME NEW v \in Writers
      PROVE  WriterOK(v)'
  <2>1. CASE v # w
    <3>1. WriterOK(v) /\ writer'[v] = writer[v]
      BY <2>1 DEF HistoryInv
    <3> QED  BY <3>1, FoundStays
  <2> QED  BY <2>1
<1>4. KeyedRowsOK' /\ OnePerVersion' /\ \A scope \in Keyed : Dense(scope)'
  BY <1>1 DEF HistoryInv, KeyedRowsOK, OnePerVersion, Dense
<1>5. \A s \in configs' : s.scope \in Keyed => Descends(s)'
  BY <1>1 DEF HistoryInv, Descends, Inherits
<1> QED  BY <1>2, <1>3, <1>4, <1>5 DEF HistoryInv

LEMMA HistoryStep ==
  ASSUME Configs!NoneAssumption, HistoryInv, [Configs!Next]_Configs!vars
  PROVE  HistoryInv'
<1>1. ASSUME NEW w \in Writers, Configs!ReadLatest(w)
      PROVE  HistoryInv'
  BY <1>1, ReadStep, ReadKept DEF Configs!ReadLatest
<1>2. ASSUME NEW w \in Writers, Configs!ReadPrior(w)
      PROVE  HistoryInv'
  BY <1>2, PriorStep, ReadKept DEF Configs!ReadPrior
<1>3. ASSUME NEW w \in Writers, Configs!Insert(w)
      PROVE  HistoryInv'
  BY <1>3, InsertStep
<1>4. CASE UNCHANGED Configs!vars
  BY <1>4 DEF Configs!vars, HistoryInv, KeyedRowsOK, OnePerVersion, Dense, VersionsOf,
              Configs!OfScope,
              Descends, Inherits, WriterOK, Configs!At, Configs!Me
<1> QED  BY <1>1, <1>2, <1>3, <1>4 DEF Configs!Next

LEMMA HistoryStart ==
  ASSUME Configs!Init
  PROVE  HistoryInv
<1>1. configs = {} /\ writer = [w \in Writers |-> Configs!IdleWriter]
  BY DEF Configs!Init
<1>2. Shaped(Configs!IdleWriter) /\ Configs!IdleWriter.pc = "idle"
  BY DEF Shaped, Configs!IdleWriter
<1>3. \A scope : VersionsOf(scope) = 1 .. 0
  BY <1>1 DEF VersionsOf, Configs!OfScope
<1>4. \A scope \in Keyed : Dense(scope)
  BY <1>3 DEF Dense
<1> QED  BY <1>1, <1>2, <1>4 DEF HistoryInv, KeyedRowsOK, OnePerVersion, WriterOK, Configs!At

LEMMA HistorySound ==
  ASSUME HistoryInv
  PROVE  Configs!Lineage
<1>1. ASSUME NEW r \in configs, r.scope \in Keyed
      PROVE  /\ r.version \in Nat \ {0}
             /\ \A s \in Configs!OfScope(r.scope) : s.version = r.version => s = r
             /\ r.version > 1 => \E s \in Configs!OfScope(r.scope) :
                  s.version = r.version - 1 /\ \A c \in ConfigColumns \ r.given : r.row[c] = s.row[c]
  <2>1. PICK n \in Nat : VersionsOf(r.scope) = 1 .. n
    BY <1>1 DEF HistoryInv, Dense
  <2>2. r.version \in 1 .. n
    BY <2>1 DEF VersionsOf, Configs!OfScope
  <2>3. \A s \in Configs!OfScope(r.scope) : s.version = r.version => s = r
    BY <1>1 DEF HistoryInv, OnePerVersion, Configs!OfScope
  <2>4. Descends(r)
    BY <1>1 DEF HistoryInv
  <2> QED  BY <2>2, <2>3, <2>4 DEF Descends, Inherits
<1> QED  BY <1>1 DEF Configs!Lineage

-----------------------------------------------------------------------------
(* Upserts on three dialects (Upserts). *)

\* The dialects agree.
DialectsAlike ==
  /\ table = [d \in Rows!Dialects |-> table["mysql"]]
  /\ said = [d \in Rows!Dialects |-> said["mysql"]]

LEMMA OneClash ==
  ASSUME NEW key, UniqueKeys = {key}, DialectsAlike, NEW v, NEW d \in Rows!Dialects
  PROVE  Rows!Duplicates(table["mysql"], v) = {r \in table[d] : Rows!SameKey(key, r, v)}
BY DEF DialectsAlike, Rows!Duplicates

LEMMA InsertsAlike ==
  ASSUME NEW key, UniqueKeys = {key}, DialectsAlike, NEW v, Rows!InsertIgnore(v, key)
  PROVE  DialectsAlike'
<1> DEFINE result(d) == IF d = "mysql" THEN Rows!NoOpStatement(v)
                        ELSE Rows!OnConflict(d, v, key, table[d], <<0, 1>>)
<1>1. /\ table' = [d \in Rows!Dialects |-> result(d).rows]
      /\ said' = [d \in Rows!Dialects |-> result(d).answer]
  BY DEF Rows!InsertIgnore, Rows!Ends
<1>2. ASSUME NEW d \in Rows!Dialects
      PROVE  result(d) = Rows!NoOpStatement(v)
  <2>1. table[d] = table["mysql"]
    BY DEF DialectsAlike
  <2>2. Rows!Duplicates(table[d], v) = {r \in table[d] : Rows!SameKey(key, r, v)}
    BY <2>1, OneClash
  <2> QED
    BY <2>1, <2>2 DEF Rows!NoOpStatement, Rows!OnConflict, Rows!Error, Rows!WithRow
<1> HIDE DEF result
<1>3. "mysql" \in Rows!Dialects
  BY DEF Rows!Dialects
<1> QED  BY <1>1, <1>2, <1>3 DEF DialectsAlike

LEMMA UpsertsAlike ==
  ASSUME NEW key, UniqueKeys = {key}, DialectsAlike, NEW v, NEW update, Rows!Upsert(v, key, update)
  PROVE  DialectsAlike'
<1> DEFINE hit(d)    == {r \in table[d] : Rows!SameKey(key, r, v)}
           result(d) == IF d = "mysql" THEN Rows!UpdateStatement(v, update)
                        ELSE Rows!OnConflict(d, v, key,
                               IF hit(d) = {} THEN {}
                               ELSE Rows!Overwritten(d, v, Rows!TheRow(hit(d)), update),
                               <<"done", "done">>)
<1>1. /\ table' = [d \in Rows!Dialects |-> result(d).rows]
      /\ said' = [d \in Rows!Dialects |-> result(d).answer]
  BY DEF Rows!Upsert, Rows!Ends
<1>2. ASSUME NEW d \in Rows!Dialects
      PROVE  result(d) = Rows!UpdateStatement(v, update)
  <2>1. table[d] = table["mysql"]
    BY DEF DialectsAlike
  <2>2. Rows!Duplicates(table["mysql"], v) = hit(d) /\ hit(d) = hit("mysql")
    BY <2>1, OneClash
  <2>3. Rows!Overwritten(d, v, Rows!TheRow(hit(d)), update) =
          Rows!Overwritten("mysql", v, Rows!TheRow(hit("mysql")), update)
    BY <2>1, <2>2 DEF Rows!Overwritten
  <2> QED
    BY <2>1, <2>2, <2>3
       DEF Rows!UpdateStatement, Rows!OnConflict, Rows!Error, Rows!WithRow
<1> HIDE DEF result
<1>3. "mysql" \in Rows!Dialects
  BY DEF Rows!Dialects
<1> QED  BY <1>1, <1>2, <1>3 DEF DialectsAlike

\* Upserts counts its keys like everybody else.
LEMMA SameCount == Rows!Cardinality(UniqueKeys) = Cardinality(UniqueKeys)
BY DEF Rows!Cardinality, Cardinality

LEMMA OneKeyOnly ==
  ASSUME Cardinality(UniqueKeys) = 1
  PROVE  \E key : UniqueKeys = {key}
BY RowsAssumption, FS_Singleton

LEMMA UpsertStep ==
  ASSUME Cardinality(UniqueKeys) = 1, DialectsAlike, [Rows!Next]_Rows!upsertVars
  PROVE  DialectsAlike'
<1>1. PICK key : UniqueKeys = {key}
  BY OneKeyOnly
<1>2. CASE UNCHANGED Rows!upsertVars
  BY <1>2 DEF Rows!upsertVars, DialectsAlike
<1>3. CASE Rows!Next
  <2>1. PICK v : \/ Rows!InsertIgnore(v, key)
                 \/ \E update : Rows!Upsert(v, key, update)
    BY <1>1, <1>3 DEF Rows!Next
  <2> QED  BY <1>1, <2>1, InsertsAlike, UpsertsAlike
<1> QED  BY <1>2, <1>3

LEMMA UpsertSound ==
  /\ Rows!Init => DialectsAlike
  /\ DialectsAlike => SameOnEveryDialect
<1>1. ASSUME Rows!Init PROVE DialectsAlike
  <2>1. "mysql" \in Rows!Dialects
    BY DEF Rows!Dialects
  <2> QED  BY <1>1, <2>1 DEF Rows!Init, DialectsAlike
<1>2. ASSUME DialectsAlike PROVE SameOnEveryDialect
  BY <1>2 DEF DialectsAlike, SameOnEveryDialect, Rows!SameOnEveryDialect
<1> QED  BY <1>1, <1>2

-----------------------------------------------------------------------------
(* Baselines of an output (Baselines). *)

SaverRecord == [pc : {"idle", "mkdir", "copy"}, label : Labels \cup {None}, version : Nat,
                left : SUBSET Outputs!Paths]

CopiesType ==
  /\ output \in Outputs!Outputs /\ version \in Nat
  /\ baseline \in [Labels -> Outputs!Copies \cup {None}]
  /\ meant \in [Labels -> Outputs!Outputs \cup {None}]
  /\ saver \in [Savers -> SaverRecord]
  /\ \A s \in Savers : saver[s].pc # "idle" => saver[s].label \in Labels

\* What a saver has copied so far is what it found, and its record is still to come.
CopiesOK(s) ==
  saver[s].pc = "copy" =>
    LET l == saver[s].label
    IN /\ baseline[l] # None /\ baseline[l].record = 0 /\ meant[l] = output
       /\ \A p \in Outputs!Paths \ saver[s].left : baseline[l].sections[p] = output[p]

\* A directory belongs to the saver that made it.
OneSaver ==
  \A s, t \in Savers :
    saver[s].pc = "copy" /\ saver[t].pc = "copy" /\ saver[s].label = saver[t].label => s = t

CopiesInv ==
  /\ CopiesType /\ OneSaver /\ Outputs!ListedIsComplete
  /\ \A s \in Savers : CopiesOK(s)

LEMMA SaverFields ==
  ASSUME CopiesType, NEW s \in Savers
  PROVE  /\ saver[s] \in SaverRecord /\ saver[s].pc \in {"idle", "mkdir", "copy"}
         /\ saver[s].label \in Labels \cup {None} /\ saver[s].left \in SUBSET Outputs!Paths
         /\ saver[s].version \in Nat
         /\ saver[s].pc # "idle" => saver[s].label \in Labels
BY DEF CopiesType, SaverRecord

LEMMA CopyFields ==
  ASSUME CopiesType, NEW l \in Labels, baseline[l] # None
  PROVE  /\ baseline[l] \in Outputs!Copies
         /\ baseline[l].sections \in [Outputs!Paths -> Bodies \cup {None}]
         /\ baseline[l].record \in Nat
BY DEF CopiesType, Outputs!Copies, Outputs!Outputs

LEMMA OneSaverMoves ==
  ASSUME CopiesType, NEW s \in Savers, NEW new \in SaverRecord,
         saver' = [saver EXCEPT ![s] = new]
  PROVE  /\ saver' \in [Savers -> SaverRecord] /\ saver'[s] = new
         /\ \A t \in Savers \ {s} : saver'[t] = saver[t]
BY DEF CopiesType

LEMMA IdleSaverOK == Outputs!IdleSaver \in SaverRecord /\ Outputs!IdleSaver.pc = "idle"
BY DEF Outputs!IdleSaver, SaverRecord

\* A saver that is, or becomes, no copier takes nothing from the others.
LEMMA MovesAside ==
  ASSUME CopiesInv, NEW s \in Savers, NEW new \in SaverRecord, new.pc # "copy",
         new.pc # "idle" => new.label \in Labels,
         saver' = [saver EXCEPT ![s] = new],
         output' = output, version' = version, baseline' = baseline, meant' = meant
  PROVE  CopiesInv'
<1>1. /\ saver' \in [Savers -> SaverRecord] /\ saver'[s] = new
      /\ \A t \in Savers \ {s} : saver'[t] = saver[t]
  BY OneSaverMoves DEF CopiesInv
<1>2. CopiesType'
  BY <1>1 DEF CopiesInv, CopiesType
<1>3. OneSaver' /\ Outputs!ListedIsComplete'
  BY <1>1 DEF CopiesInv, OneSaver, Outputs!ListedIsComplete, Outputs!Listed
<1>4. \A t \in Savers : CopiesOK(t)'
  BY <1>1 DEF CopiesInv, CopiesOK
<1> QED  BY <1>2, <1>3, <1>4 DEF CopiesInv

LEMMA MkdirStep ==
  ASSUME CopiesInv, NEW s \in Savers, Outputs!Mkdir(s)
  PROVE  CopiesInv'
<1> DEFINE l == saver[s].label
<1>1. /\ saver[s].pc = "mkdir" /\ output' = output /\ version' = version /\ l \in Labels
      /\ CopiesType
  BY SaverFields DEF Outputs!Mkdir, Outputs!At, CopiesInv
<1>2. CASE baseline[l] # None
  BY <1>1, <1>2, IdleSaverOK, MovesAside DEF Outputs!Mkdir, Outputs!Leaves
<1>3. CASE baseline[l] = None
  <2> DEFINE copy == [sections |-> [p \in Outputs!Paths |-> None], record |-> 0]
             left == Outputs!PathsOf(output)
             new  == [saver[s] EXCEPT !.pc = "copy", !.left = left]
  <2>1. /\ baseline' = [baseline EXCEPT ![l] = copy] /\ meant' = [meant EXCEPT ![l] = output]
        /\ saver' = [saver EXCEPT ![s].pc = "copy", ![s].left = left]
    BY <1>3 DEF Outputs!Mkdir
  <2>2. copy \in Outputs!Copies /\ copy.record = 0
        /\ \A p \in Outputs!Paths : copy.sections[p] = None
    BY DEF Outputs!Copies, Outputs!Outputs
  <2>3. copy # None
    BY <2>2, CopiesAssumption DEF Outputs!NoneAssumption
  <2>4. left \in SUBSET Outputs!Paths /\ \A p \in Outputs!Paths \ left : output[p] = None
    BY DEF Outputs!PathsOf
  <2> HIDE DEF copy, left
  <2>5. new \in SaverRecord /\ new.pc = "copy" /\ new.left = left /\ new.label = l
    BY <1>1, <2>4, SaverFields DEF SaverRecord
  <2>6. saver' = [saver EXCEPT ![s] = new]
    BY <1>1, <2>1, SaverFields DEF SaverRecord
  <2> HIDE DEF new
  <2>7. /\ saver' \in [Savers -> SaverRecord] /\ saver'[s] = new
        /\ \A t \in Savers \ {s} : saver'[t] = saver[t]
    BY <1>1, <2>5, <2>6, OneSaverMoves
  <2>8. /\ baseline'[l] = copy /\ meant'[l] = output
        /\ \A m \in Labels \ {l} : baseline'[m] = baseline[m] /\ meant'[m] = meant[m]
        /\ baseline' \in [Labels -> Outputs!Copies \cup {None}]
        /\ meant' \in [Labels -> Outputs!Outputs \cup {None}]
    BY <1>1, <2>1, <2>2 DEF CopiesType
  <2>9. \A t \in Savers : saver[t].pc = "copy" => saver[t].label \in Labels \ {l}
    BY <1>1, <1>3, SaverFields DEF CopiesInv, CopiesOK
  <2>10. CopiesType'
    BY <1>1, <2>5, <2>7, <2>8 DEF CopiesType
  <2>11. OneSaver'
    BY <2>5, <2>7, <2>9 DEF CopiesInv, OneSaver
  <2>12. Outputs!ListedIsComplete'
    BY <2>2, <2>8 DEF CopiesInv, Outputs!ListedIsComplete, Outputs!Listed
  <2>13. ASSUME NEW t \in Savers PROVE CopiesOK(t)'
    <3>1. CASE t = s
      BY <1>1, <2>2, <2>3, <2>4, <2>5, <2>7, <2>8, <3>1 DEF CopiesOK
    <3>2. CASE t # s
      BY <1>1, <2>7, <2>8, <2>9, <3>2 DEF CopiesInv, CopiesOK
    <3> QED  BY <3>1, <3>2
  <2> QED  BY <2>10, <2>11, <2>12, <2>13 DEF CopiesInv
<1> QED  BY <1>2, <1>3

\* The copier changes its own directory, and no other.
LEMMA CopyStep ==
  ASSUME CopiesInv, NEW s \in Savers, Outputs!Copy(s)
  PROVE  CopiesInv'
<1> DEFINE l == saver[s].label
<1>1. PICK p \in saver[s].left :
        /\ baseline' = [baseline EXCEPT ![l].sections[p] = output[p]]
        /\ saver' = [saver EXCEPT ![s].left = @ \ {p}]
  BY DEF Outputs!Copy
<1>2. /\ saver[s].pc = "copy" /\ output' = output /\ version' = version /\ meant' = meant
      /\ CopiesType
  BY DEF Outputs!Copy, Outputs!At, CopiesInv
<1>3. l \in Labels /\ p \in Outputs!Paths
  BY <1>2, SaverFields
<1>4. /\ baseline[l] # None /\ baseline[l].record = 0 /\ meant[l] = output
      /\ \A q \in Outputs!Paths \ saver[s].left : baseline[l].sections[q] = output[q]
  BY <1>2 DEF CopiesInv, CopiesOK
<1> DEFINE copy == [baseline[l] EXCEPT !.sections[p] = output[p]]
           new  == [saver[s] EXCEPT !.left = @ \ {p}]
<1>5. output \in [Outputs!Paths -> Bodies \cup {None}]
  BY <1>2 DEF CopiesType, Outputs!Outputs
<1>6. /\ copy \in Outputs!Copies /\ copy.record = 0 /\ copy.sections[p] = output[p]
      /\ \A q \in Outputs!Paths \ {p} : copy.sections[q] = baseline[l].sections[q]
  BY <1>2, <1>3, <1>4, <1>5, CopyFields DEF Outputs!Copies, Outputs!Outputs
<1>7. copy # None
  BY <1>6, CopiesAssumption DEF Outputs!NoneAssumption
<1>8. baseline' = [baseline EXCEPT ![l] = copy]
  BY <1>1
<1>9. /\ new \in SaverRecord /\ new.pc = "copy" /\ new.label = l
      /\ new.left = saver[s].left \ {p}
  BY <1>2, SaverFields DEF SaverRecord
<1>10. saver' = [saver EXCEPT ![s] = new]
  BY <1>1
<1> HIDE DEF copy, new
<1>11. /\ saver' \in [Savers -> SaverRecord] /\ saver'[s] = new
       /\ \A t \in Savers \ {s} : saver'[t] = saver[t]
  BY <1>2, <1>9, <1>10, OneSaverMoves
<1>12. /\ baseline'[l] = copy /\ \A m \in Labels \ {l} : baseline'[m] = baseline[m]
       /\ baseline' \in [Labels -> Outputs!Copies \cup {None}]
  BY <1>2, <1>3, <1>6, <1>8 DEF CopiesType
<1>13. \A t \in Savers \ {s} : saver[t].pc = "copy" => saver[t].label \in Labels \ {l}
  BY <1>2, SaverFields DEF CopiesInv, OneSaver
<1>14. CopiesType'
  BY <1>2, <1>3, <1>9, <1>11, <1>12 DEF CopiesType
<1>15. OneSaver'
  BY <1>2, <1>9, <1>11 DEF CopiesInv, OneSaver
<1>16. Outputs!ListedIsComplete'
  BY <1>2, <1>6, <1>12 DEF CopiesInv, Outputs!ListedIsComplete, Outputs!Listed
<1>17. ASSUME NEW t \in Savers PROVE CopiesOK(t)'
  <2>1. CASE t = s
    BY <1>2, <1>3, <1>4, <1>6, <1>7, <1>9, <1>11, <1>12, <2>1 DEF CopiesOK
  <2>2. CASE t # s
    BY <1>2, <1>11, <1>12, <1>13, <2>2 DEF CopiesInv, CopiesOK
  <2> QED  BY <2>1, <2>2
<1> QED  BY <1>14, <1>15, <1>16, <1>17 DEF CopiesInv

LEMMA RecordStep ==
  ASSUME CopiesInv, NEW s \in Savers, Outputs!CopyRecord(s)
  PROVE  CopiesInv'
<1> DEFINE l == saver[s].label
<1>1. PICK record \in {version, 0} : baseline' = [baseline EXCEPT ![l].record = record]
  BY DEF Outputs!CopyRecord
<1>2. /\ saver[s].pc = "copy" /\ saver[s].left = {} /\ CopiesType
      /\ saver' = [saver EXCEPT ![s] = Outputs!IdleSaver]
      /\ output' = output /\ version' = version /\ meant' = meant
  BY DEF Outputs!CopyRecord, Outputs!At, Outputs!Leaves, CopiesInv
<1>3. l \in Labels
  BY <1>2, SaverFields
<1>4. /\ baseline[l] # None /\ meant[l] = output
      /\ \A q \in Outputs!Paths : baseline[l].sections[q] = output[q]
  BY <1>2 DEF CopiesInv, CopiesOK
<1> DEFINE copy == [baseline[l] EXCEPT !.record = record]
<1>5. copy \in Outputs!Copies /\ copy.sections = baseline[l].sections
  BY <1>2, <1>3, <1>4, CopyFields DEF CopiesType, Outputs!Copies
<1>6. baseline[l].sections = output
  BY <1>2, <1>3, <1>4, CopyFields DEF CopiesType, Outputs!Outputs
<1>7. baseline' = [baseline EXCEPT ![l] = copy]
  BY <1>1
<1> HIDE DEF copy
<1>8. /\ baseline'[l] = copy /\ \A m \in Labels \ {l} : baseline'[m] = baseline[m]
      /\ baseline' \in [Labels -> Outputs!Copies \cup {None}]
  BY <1>2, <1>3, <1>5, <1>7 DEF CopiesType
<1>9. /\ saver' \in [Savers -> SaverRecord] /\ saver'[s].pc = "idle"
      /\ \A t \in Savers \ {s} : saver'[t] = saver[t]
  BY <1>2, IdleSaverOK, OneSaverMoves
<1>10. \A t \in Savers \ {s} : saver[t].pc = "copy" => saver[t].label \in Labels \ {l}
  BY <1>2, SaverFields DEF CopiesInv, OneSaver
<1>11. CopiesType' /\ OneSaver'
  BY <1>2, <1>8, <1>9 DEF CopiesInv, CopiesType, OneSaver
<1>12. Outputs!ListedIsComplete'
  BY <1>2, <1>3, <1>4, <1>5, <1>6, <1>8 DEF CopiesInv, Outputs!ListedIsComplete, Outputs!Listed
<1>13. \A t \in Savers : CopiesOK(t)'
  BY <1>2, <1>8, <1>9, <1>10 DEF CopiesInv, CopiesOK
<1> QED  BY <1>11, <1>12, <1>13 DEF CopiesInv

LEMMA CopiesStep ==
  ASSUME CopiesInv, [Outputs!Next]_Outputs!baselineVars
  PROVE  CopiesInv'
<1>1. CopiesType
  BY DEF CopiesInv
<1>2. ASSUME NEW s \in Savers, Outputs!SaveBegin(s) PROVE CopiesInv'
  <2>1. PICK l \in Labels :
          saver' = [saver EXCEPT ![s] = [Outputs!IdleSaver EXCEPT !.pc = "mkdir", !.label = l,
                                                                  !.version = version]]
    BY <1>2 DEF Outputs!SaveBegin
  <2> DEFINE new == [Outputs!IdleSaver EXCEPT !.pc = "mkdir", !.label = l, !.version = version]
  <2>2. version \in Nat
    BY <1>1 DEF CopiesType
  <2>3. new \in SaverRecord /\ new.pc = "mkdir" /\ new.label = l
    BY <2>2 DEF Outputs!IdleSaver, SaverRecord
  <2>4. saver' = [saver EXCEPT ![s] = new]
    BY <2>1
  <2> HIDE DEF new
  <2> QED  BY <1>2, <2>3, <2>4, MovesAside DEF Outputs!SaveBegin
<1>3. ASSUME NEW s \in Savers, Outputs!SaveFails(s) PROVE CopiesInv'
  BY <1>3, IdleSaverOK, MovesAside DEF Outputs!SaveFails, Outputs!Leaves
<1>4. CASE Outputs!Rewrite
  <2>1. /\ output' \in Outputs!Outputs /\ version' \in Nat /\ baseline' = baseline
        /\ meant' = meant /\ saver' = saver /\ \A s \in Savers : saver[s].pc = "idle"
    BY <1>1, <1>4 DEF Outputs!Rewrite, Outputs!At, CopiesType
  <2> QED  BY <2>1 DEF CopiesInv, CopiesType, OneSaver, CopiesOK, Outputs!ListedIsComplete,
                       Outputs!Listed
<1>5. CASE UNCHANGED Outputs!baselineVars
  BY <1>5 DEF Outputs!baselineVars, CopiesInv, CopiesType, OneSaver, CopiesOK,
              Outputs!ListedIsComplete, Outputs!Listed
<1> QED  BY <1>2, <1>3, <1>4, <1>5, MkdirStep, CopyStep, RecordStep DEF Outputs!Next

LEMMA CopiesStart ==
  ASSUME Outputs!Init
  PROVE  CopiesInv
<1>1. /\ output \in Outputs!Outputs /\ version = 1
      /\ baseline = [l \in Labels |-> None] /\ meant = [l \in Labels |-> None]
      /\ saver = [s \in Savers |-> Outputs!IdleSaver]
  BY DEF Outputs!Init
<1>2. CopiesType
  BY <1>1, IdleSaverOK DEF CopiesType
<1> QED  BY <1>1, <1>2, IdleSaverOK
         DEF CopiesInv, OneSaver, CopiesOK, Outputs!ListedIsComplete, Outputs!Listed

-----------------------------------------------------------------------------
(* A comparison with a baseline (baseline_diff.py). *)

Less == {ss \in Nat \X Nat : ss[1] < ss[2]}

\* Every set of numbers that is not empty has a least one.
LEMMA LeastNumber ==
  ASSUME NEW T \in SUBSET Nat, T # {}
  PROVE  \E m \in T : \A k \in T : m <= k
<1>1. IsWellFoundedOn(Less, Nat)
  BY NatLessThanWellFounded, Zenon DEF OpToRel, Less
<1>2. PICK m \in T : \A k \in T : ~(<<k, m>> \in Less)
  BY <1>1, WFMin, Zenon
<1>3. \A k \in T : k \in Nat /\ m \in Nat
  OBVIOUS
<1>4. \A k \in T : ~(k < m)
  BY <1>2, <1>3 DEF Less
<1> QED  BY <1>3, <1>4

\* The pairs that are found are of a removed and an added path each, no path is in two of them,
\* and what is paired is similar.
Pairing(base, curr, pairs) ==
  /\ pairs \subseteq Outputs!Removed(base, curr) \X Outputs!Added(base, curr)
  /\ \A r, r2 \in pairs : r[1] = r2[1] \/ r[2] = r2[2] => r = r2
  /\ \A r \in pairs : Alike[<<base[r[1]], curr[r[2]]>>] >= Threshold

Similar(base, curr, fit) ==
  \A r \in fit : Alike[<<base[r[1]], curr[r[2]]>>] >= Threshold

\* One path more.
LEMMA PairKept ==
  ASSUME NEW base, NEW curr, NEW fit, NEW pairs, NEW p,
         Similar(base, curr, fit), Pairing(base, curr, pairs)
  PROVE  Pairing(base, curr, Outputs!Pair(base, curr, fit, pairs, p))
<1> DEFINE left == Outputs!Unpaired(Outputs!Added(base, curr), pairs)
           alike(q) == Alike[<<base[p], curr[q]>>]
           near == {q \in left : <<p, q>> \in fit}
           best == {q \in near : \A r \in near : alike(q) >= alike(r)}
           q0   == Outputs!Min(best)
           free == /\ p \in Outputs!Removed(base, curr) /\ best # {}
                   /\ \A r \in pairs : r[1] # p
<1>1. Outputs!Pair(base, curr, fit, pairs, p) = IF free THEN pairs \cup {<<p, q0>>} ELSE pairs
  BY DEF Outputs!Pair
<1>2. CASE ~free
  BY <1>1, <1>2
<1>3. CASE free
  <2>1. best \subseteq near /\ near \subseteq left
    OBVIOUS
  <2>2. left \subseteq Outputs!Added(base, curr) /\ left \subseteq Nat
    BY CopiesAssumption
       DEF Outputs!Unpaired, Outputs!Added, Outputs!PathsOf, Outputs!Paths, Outputs!AlikeAssumption
  <2>3. q0 \in best
    <3> HIDE DEF best
    <3>1. best \in SUBSET Nat /\ best # {}
      BY <1>3, <2>1, <2>2
    <3>2. \E m \in best : \A k \in best : m <= k
      BY <3>1, LeastNumber
    <3> QED  BY <3>2 DEF Outputs!Min
  <2>4. q0 \in Outputs!Added(base, curr) /\ \A r \in pairs : r[2] # q0
    BY <2>1, <2>2, <2>3 DEF Outputs!Unpaired
  <2>5. <<p, q0>> \in fit
    BY <2>1, <2>3
  <2> HIDE DEF q0, best, near, left
  <2>6. alike(q0) >= Threshold
    BY <2>5 DEF Similar
  <2> QED  BY <1>1, <1>3, <2>4, <2>6 DEF Pairing
<1> QED  BY <1>2, <1>3

\* What a pass has found after each path.
PairedUpTo(base, curr, fit, start, f, n) ==
  /\ f = [p \in 0 .. n |-> f[p]]
  /\ \A p \in 0 .. n :
       f[p] = IF p = 0 THEN start ELSE Outputs!Pair(base, curr, fit, f[p - 1], p)

LEMMA PassExists ==
  ASSUME NEW base, NEW curr, NEW fit, NEW start
  PROVE  \A n \in Nat : \E f : PairedUpTo(base, curr, fit, start, f, n)
<1> DEFINE Wrong == {n \in Nat : ~\E f : PairedUpTo(base, curr, fit, start, f, n)}
<1> SUFFICES ASSUME Wrong # {}
             PROVE  FALSE
  OBVIOUS
<1>1. PICK n \in Wrong : \A k \in Wrong : n <= k
  BY LeastNumber
<1>2. /\ n \in Nat /\ \A f : ~PairedUpTo(base, curr, fit, start, f, n)
      /\ \A k \in Nat : k < n => \E f : PairedUpTo(base, curr, fit, start, f, k)
  BY <1>1
<1>3. CASE n = 0
  <2> DEFINE f == [p \in 0 .. 0 |-> start]
  <2>1. PairedUpTo(base, curr, fit, start, f, 0)
    BY DEF PairedUpTo
  <2> QED  BY <1>2, <1>3, <2>1
<1>4. CASE n # 0
  <2>1. n - 1 \in Nat /\ n - 1 < n
    BY <1>2, <1>4
  <2>2. PICK f : PairedUpTo(base, curr, fit, start, f, n - 1)
    BY <1>2, <2>1
  <2> DEFINE g == [p \in 0 .. n |->
                     IF p = n THEN Outputs!Pair(base, curr, fit, f[n - 1], n) ELSE f[p]]
  <2>3. g = [p \in 0 .. n |-> g[p]]
    OBVIOUS
  <2>4. \A p \in 0 .. n - 1 : g[p] = f[p]
    BY <1>2
  <2>5. g[n] = Outputs!Pair(base, curr, fit, g[n - 1], n)
    BY <1>2, <2>1, <2>4
  <2> HIDE DEF g
  <2>6. ASSUME NEW p \in 0 .. n
        PROVE  g[p] = IF p = 0 THEN start ELSE Outputs!Pair(base, curr, fit, g[p - 1], p)
    <3>1. CASE p = n
      BY <1>4, <2>5, <3>1
    <3>2. CASE p = 0
      <4>1. 0 \in 0 .. n - 1
        BY <2>1
      <4>2. g[0] = f[0] /\ f[0] = start
        BY <2>2, <2>4, <4>1 DEF PairedUpTo
      <4> QED  BY <3>2, <4>2
    <3>3. CASE p # n /\ p # 0
      <4>1. p \in 0 .. n - 1 /\ p - 1 \in 0 .. n - 1
        BY <1>2, <3>3
      <4>2. f[p] = Outputs!Pair(base, curr, fit, f[p - 1], p)
        BY <2>2, <3>3, <4>1 DEF PairedUpTo
      <4> QED  BY <2>4, <3>3, <4>1, <4>2
    <3> QED  BY <3>1, <3>2, <3>3
  <2>7. PairedUpTo(base, curr, fit, start, g, n)
    BY <2>3, <2>6 DEF PairedUpTo
  <2> QED  BY <1>2, <2>7
<1> QED  BY <1>3, <1>4

\* So the function of a pass is what its definition says.
PassFrom(base, curr, fit, start) ==
  CHOOSE f : f = [p \in 0 .. MaxPath |->
                    IF p = 0 THEN start ELSE Outputs!Pair(base, curr, fit, f[p - 1], p)]

LEMMA PassIs ==
  ASSUME NEW base, NEW curr, NEW fit, NEW start
  PROVE  /\ Outputs!Pass(base, curr, fit, start) = PassFrom(base, curr, fit, start)[MaxPath]
         /\ PairedUpTo(base, curr, fit, start, PassFrom(base, curr, fit, start), MaxPath)
<1>1. PICK f : PairedUpTo(base, curr, fit, start, f, MaxPath)
  BY PassExists, CopiesAssumption DEF Outputs!AlikeAssumption
<1>2. f = [p \in 0 .. MaxPath |->
             IF p = 0 THEN start ELSE Outputs!Pair(base, curr, fit, f[p - 1], p)]
  BY <1>1 DEF PairedUpTo
<1> DEFINE h == PassFrom(base, curr, fit, start)
<1>3. h = [p \in 0 .. MaxPath |->
             IF p = 0 THEN start ELSE Outputs!Pair(base, curr, fit, h[p - 1], p)]
  BY <1>2 DEF PassFrom
<1>4. Outputs!Pass(base, curr, fit, start) = h[MaxPath]
  BY DEF Outputs!Pass, PassFrom
<1> HIDE DEF h
<1>5. PairedUpTo(base, curr, fit, start, h, MaxPath)
  BY <1>3 DEF PairedUpTo
<1> QED  BY <1>4, <1>5 DEF h

\* A pass keeps the pairs apart.
LEMMA PassKept ==
  ASSUME NEW base, NEW curr, NEW fit, NEW start,
         Similar(base, curr, fit), Pairing(base, curr, start)
  PROVE  Pairing(base, curr, Outputs!Pass(base, curr, fit, start))
<1> DEFINE f == PassFrom(base, curr, fit, start)
           Wrong == {p \in 0 .. MaxPath : ~Pairing(base, curr, f[p])}
<1>1. /\ Outputs!Pass(base, curr, fit, start) = f[MaxPath] /\ MaxPath \in Nat
      /\ PairedUpTo(base, curr, fit, start, f, MaxPath)
  BY PassIs, CopiesAssumption DEF Outputs!AlikeAssumption
<1> HIDE DEF f
<1>2. Wrong = {}
  <2> SUFFICES ASSUME Wrong # {}
               PROVE  FALSE
    OBVIOUS
  <2>1. PICK p \in Wrong : \A k \in Wrong : p <= k
    <3>1. Wrong \in SUBSET Nat
      BY <1>1
    <3> HIDE DEF Wrong
    <3> QED  BY <3>1, LeastNumber
  <2>2. p # 0
    BY <1>1, <2>1 DEF PairedUpTo
  <2>3. p - 1 \in 0 .. MaxPath /\ Pairing(base, curr, f[p - 1])
    BY <1>1, <2>1, <2>2
  <2>4. f[p] = Outputs!Pair(base, curr, fit, f[p - 1], p)
    BY <1>1, <2>1, <2>2 DEF PairedUpTo
  <2> QED  BY <2>1, <2>3, <2>4, PairKept
<1> QED  BY <1>1, <1>2

LEMMA RenamesPair ==
  ASSUME NEW base \in Outputs!Outputs, NEW curr \in Outputs!Outputs
  PROVE  Pairing(base, curr, Outputs!Renames(base, curr))
<1> DEFINE same == {r \in Outputs!Removed(base, curr) \X Outputs!Added(base, curr) :
                      base[r[1]] = curr[r[2]]}
           near == {r \in Near \cap (Outputs!Removed(base, curr) \X Outputs!Added(base, curr)) :
                      Alike[<<base[r[1]], curr[r[2]]>>] >= Threshold}
<1>1. ASSUME NEW r \in same PROVE Alike[<<base[r[1]], curr[r[2]]>>] >= Threshold
  <2>1. base[r[1]] \in Bodies /\ curr[r[2]] = base[r[1]]
    BY DEF Outputs!Removed, Outputs!PathsOf, Outputs!Outputs
  <2>2. Alike[<<base[r[1]], base[r[1]]>>] = 10 /\ Threshold \in 0 .. 10
    BY <2>1, CopiesAssumption DEF Outputs!AlikeAssumption
  <2>3. \A n \in 0 .. 10 : 10 >= n
    OBVIOUS
  <2> QED  BY <2>1, <2>2, <2>3
<1>2. Similar(base, curr, same) /\ Similar(base, curr, near)
  BY <1>1 DEF Similar
<1>3. Pairing(base, curr, {})
  BY DEF Pairing
<1>4. Outputs!SameBody(base, curr) = Outputs!Pass(base, curr, same, {})
  BY DEF Outputs!SameBody
<1>5. Outputs!Renames(base, curr) = Outputs!Pass(base, curr, near, Outputs!SameBody(base, curr))
  BY DEF Outputs!Renames
<1> HIDE DEF same, near
<1> QED  BY <1>2, <1>3, <1>4, <1>5, PassKept

LEMMA SameCardinality == \A S : Outputs!Cardinality(S) = Cardinality(S)
BY DEF Outputs!Cardinality, Cardinality

\* As many old names as new ones.
LEMMA AsMany ==
  ASSUME NEW pairs, NEW A, NEW B, IsFiniteSet(A), IsFiniteSet(B), pairs \subseteq A \X B,
         \A r, r2 \in pairs : r[1] = r2[1] \/ r[2] = r2[2] => r = r2
  PROVE  /\ Cardinality({r[1] : r \in pairs}) = Cardinality({r[2] : r \in pairs})
         /\ IsFiniteSet({r[1] : r \in pairs}) /\ IsFiniteSet({r[2] : r \in pairs})
         /\ {r[1] : r \in pairs} \subseteq A /\ {r[2] : r \in pairs} \subseteq B
<1> DEFINE olds == {r[1] : r \in pairs}
           news == {r[2] : r \in pairs}
           new  == [p \in olds |-> CHOOSE q \in B : <<p, q>> \in pairs]
<1>1. olds \subseteq A /\ news \subseteq B
  OBVIOUS
<1>2. IsFiniteSet(olds) /\ IsFiniteSet(news)
  BY <1>1, FS_Subset
<1>3. \A p \in olds : \E q \in B : <<p, q>> \in pairs
  OBVIOUS
<1>4. \A p \in olds : new[p] \in B /\ <<p, new[p]>> \in pairs
  BY <1>3
<1>5. \A p \in olds : new[p] \in news
  BY <1>4
<1>6. \A p, p2 \in olds : new[p] = new[p2] => p = p2
  BY <1>4
<1>7. ASSUME NEW q \in news PROVE \E p \in olds : new[p] = q
  <2>1. PICK r \in pairs : r[2] = q
    OBVIOUS
  <2>2. r = <<r[1], q>> /\ r[1] \in olds
    BY <2>1
  <2>3. <<r[1], new[r[1]]>> \in pairs
    BY <1>4, <2>2
  <2> QED  BY <2>1, <2>2, <2>3
<1>8. new \in [olds -> news]
  BY <1>5
<1> HIDE DEF new
<1>9. new \in Bijection(olds, news)
  BY <1>6, <1>7, <1>8 DEF Bijection, Injection, Surjection, IsInjective
<1>10. ExistsBijection(olds, news)
  BY <1>9 DEF ExistsBijection
<1>11. Cardinality(news) = Cardinality(olds)
  BY <1>2, <1>10, FS_Bijection
<1> QED  BY <1>1, <1>2, <1>11

\* Of a set, a part is taken away.
LEMMA Leaves ==
  ASSUME NEW S, NEW T, IsFiniteSet(S), T \subseteq S
  PROVE  Cardinality(S \ T) = Cardinality(S) - Cardinality(T)
         /\ Cardinality(T) \in Nat /\ Cardinality(S) \in Nat
<1>1. IsFiniteSet(T) /\ IsFiniteSet(S \ T)
  BY FS_Subset
<1>2. Cardinality(S) = Cardinality(S \ T) + Cardinality(T) - Cardinality((S \ T) \cap T)
  <2>1. S = (S \ T) \cup T
    OBVIOUS
  <2> QED  BY <1>1, <2>1, FS_Union
<1>3. (S \ T) \cap T = {}
  OBVIOUS
<1>4. /\ Cardinality(S \ T) \in Nat /\ Cardinality(T) \in Nat /\ Cardinality(S) \in Nat
      /\ Cardinality((S \ T) \cap T) = 0
  BY <1>1, <1>3, FS_EmptySet, FS_CardinalityType
<1> QED  BY <1>2, <1>4

LEMMA DiffSound ==
  ASSUME NEW base \in Outputs!Outputs, NEW curr \in Outputs!Outputs
  PROVE  LET d == Outputs!Diff(base, curr)
         IN /\ Outputs!PathsOf(curr) =
                 (Outputs!PathsOf(base) \ (d.removed \cup {r[1] : r \in d.renamed}))
                   \cup d.added \cup {r[2] : r \in d.renamed}
            /\ Cardinality(Outputs!PathsOf(curr)) =
                 Cardinality(Outputs!PathsOf(base)) + Cardinality(d.added)
                   - Cardinality(d.removed)
            /\ \A p \in Outputs!PathsOf(curr) \ (d.added \cup d.changed) :
                 \/ curr[p] = base[p]
                 \/ \E r \in d.renamed :
                      r[2] = p /\ Alike[<<base[r[1]], curr[p]>>] >= Threshold
<1> DEFINE d == Outputs!Diff(base, curr)
           R == Outputs!Renames(base, curr)
           added == Outputs!Added(base, curr)
           removed == Outputs!Removed(base, curr)
           here == Outputs!PathsOf(curr)
           there == Outputs!PathsOf(base)
           olds == {r[1] : r \in R}
           news == {r[2] : r \in R}
<1>1. /\ d.added = {p \in added : \A r \in R : r[2] # p}
      /\ d.removed = {p \in removed : \A r \in R : r[1] # p}
      /\ d.renamed = R
      /\ d.changed = {p \in there \cap here : base[p] # curr[p]}
  BY DEF Outputs!Diff
<1>2. Pairing(base, curr, R)
  BY RenamesPair
<1>3. added = here \ there /\ removed = there \ here
  BY DEF Outputs!Added, Outputs!Removed
<1>4. IsFiniteSet(here) /\ IsFiniteSet(there)
  <2>1. MaxPath \in Nat /\ IsFiniteSet(1 .. MaxPath)
    BY CopiesAssumption, FS_Interval DEF Outputs!AlikeAssumption
  <2>2. here \subseteq 1 .. MaxPath /\ there \subseteq 1 .. MaxPath
    BY DEF Outputs!PathsOf, Outputs!Paths
  <2> QED  BY <2>1, <2>2, FS_Subset
<1> HIDE DEF d, R, added, removed, here, there
<1>5. IsFiniteSet(added) /\ IsFiniteSet(removed)
  BY <1>3, <1>4, FS_Subset
<1>6. R \subseteq removed \X added /\ \A r, r2 \in R : r[1] = r2[1] \/ r[2] = r2[2] => r = r2
  BY <1>2 DEF Pairing, added, removed
<1>7. /\ Cardinality(olds) = Cardinality(news) /\ olds \subseteq removed /\ news \subseteq added
  BY <1>5, <1>6, AsMany
<1>8. d.added = added \ news /\ d.removed = removed \ olds
  BY <1>1
<1>9. here = (there \ (d.removed \cup olds)) \cup d.added \cup news
  BY <1>3, <1>7, <1>8
<1>10. Cardinality(here) = Cardinality(there) + Cardinality(d.added) - Cardinality(d.removed)
  <2>1. /\ here \ added = there \ removed /\ added \subseteq here /\ removed \subseteq there
    BY <1>3
  <2>2. /\ Cardinality(here \ added) = Cardinality(here) - Cardinality(added)
        /\ Cardinality(there \ removed) = Cardinality(there) - Cardinality(removed)
        /\ Cardinality(here) \in Nat /\ Cardinality(there) \in Nat
        /\ Cardinality(added) \in Nat /\ Cardinality(removed) \in Nat
    BY <1>4, <2>1, Leaves
  <2>3. /\ Cardinality(added \ news) = Cardinality(added) - Cardinality(news)
        /\ Cardinality(removed \ olds) = Cardinality(removed) - Cardinality(olds)
        /\ Cardinality(news) \in Nat
    BY <1>5, <1>7, Leaves
  <2>4. Cardinality(d.added) = Cardinality(added) - Cardinality(news)
    BY <1>8, <2>3
  <2>5. Cardinality(d.removed) = Cardinality(removed) - Cardinality(news)
    BY <1>7, <1>8, <2>3
  <2>6. Cardinality(here) - Cardinality(added) = Cardinality(there) - Cardinality(removed)
    BY <2>1, <2>2
  <2>7. \A h, t, a, r, n \in Nat : h - a = t - r => h = t + (a - n) - (r - n)
    OBVIOUS
  <2>8. Cardinality(here) = Cardinality(there) + (Cardinality(added) - Cardinality(news))
                              - (Cardinality(removed) - Cardinality(news))
    BY <2>2, <2>3, <2>6, <2>7
  <2> QED  BY <2>4, <2>5, <2>8
<1>11. ASSUME NEW p \in here \ (d.added \cup d.changed)
       PROVE  \/ curr[p] = base[p]
              \/ \E r \in R : r[2] = p /\ Alike[<<base[r[1]], curr[p]>>] >= Threshold
  <2>1. CASE p \in there
    BY <1>1, <1>11, <2>1
  <2>2. CASE p \notin there
    <3>1. PICK r \in R : r[2] = p
      BY <1>1, <1>3, <1>11, <2>2
    <3>2. Alike[<<base[r[1]], curr[r[2]]>>] >= Threshold
      BY <1>2, <3>1 DEF Pairing
    <3> QED  BY <3>1, <3>2
  <2> QED  BY <2>1, <2>2
<1> QED  BY <1>1, <1>9, <1>10, <1>11 DEF d, here, there

LEMMA CopiesSound ==
  ASSUME CopiesInv
  PROVE  BaselinesAreWhole
<1>1. output \in Outputs!Outputs
  BY DEF CopiesInv, CopiesType
<1>2. \A l \in Outputs!Listed : baseline[l].sections \in Outputs!Outputs
  BY CopyFields DEF CopiesInv, Outputs!Listed, Outputs!Outputs
<1>3. Outputs!DiffAccounts
  BY <1>1, <1>2, DiffSound, SameCardinality DEF Outputs!DiffAccounts
<1> QED  BY <1>3 DEF CopiesInv, BaselinesAreWhole, Outputs!BaselinesAreWhole

-----------------------------------------------------------------------------
(* The composition. *)

sharedVars == <<part, vars, reloadVars, redisVars, configVars, upsertVars, baselineVars>>

\* A step of the composition is a step of each part, or leaves it alone.
LEMMA StepOfEach ==
  ASSUME [SharedNext]_sharedVars
  PROVE  /\ [Next]_vars /\ [Reload!Next]_Reload!vars /\ [Redis!Next]_Redis!redisVars
         /\ [Configs!Next]_Configs!vars /\ [Rows!Next]_Rows!upsertVars
         /\ [Outputs!Next]_Outputs!baselineVars
BY DEF SharedNext, sharedVars, vars, reloadVars, redisVars, configVars, upsertVars, baselineVars,
       Reload!vars, Redis!redisVars, Configs!vars, Rows!upsertVars, Outputs!baselineVars

\* The composition implements the specification of every part: what a behaviour of one part
\* alone satisfies, it satisfies beside the others.
THEOREM EachPartRunsAlone ==
  SharedSpec => /\ Spec /\ Reload!Spec /\ Redis!Spec /\ Configs!Spec /\ Rows!Spec
                /\ Outputs!Spec
<1>1. SharedInit => /\ Init /\ Reload!Init /\ Redis!Init /\ Configs!Init /\ Rows!Init
                    /\ Outputs!Init
  BY DEF SharedInit
<1>2. [SharedNext]_sharedVars
        => /\ [Next]_vars /\ [Reload!Next]_Reload!vars /\ [Redis!Next]_Redis!redisVars
           /\ [Configs!Next]_Configs!vars /\ [Rows!Next]_Rows!upsertVars
           /\ [Outputs!Next]_Outputs!baselineVars
  BY StepOfEach
<1> QED  BY <1>1, <1>2, PTL DEF SharedSpec, sharedVars, Spec, Reload!Spec, Redis!Spec,
                                Configs!Spec, Rows!Spec, Outputs!Spec

\* ReloadsInStep (utils/reload_cache.py): with one path, what a get returns is no older than
\* what any get before it returned, and the file is read once per time to live unless a caller
\* forces it, for any threads, edits and clears.
THEOREM ReloadsStayInStep ==
  ASSUME OnePath
  PROVE  SharedSpec => []ReloadsInStep
<1>1. LoadsInv /\ VersionsInv /\ [Reload!Next]_Reload!vars => (LoadsInv /\ VersionsInv)'
  BY ReloadStep
<1>2. Reload!Init => LoadsInv /\ VersionsInv
  BY ReloadStart
<1> QED  BY <1>1, <1>2, ReloadSound, EachPartRunsAlone, PTL DEF Reload!Spec

\* OneLoadPerTtl (utils/reload_cache.py) for any number of paths: of the threads that find the
\* value stale together, one reads the file.
THEOREM LoadsOncePerTtl ==
  SharedSpec => []Reload!OneLoadPerTtl
<1>1. LoadsInv /\ [Reload!Next]_Reload!vars => LoadsInv'
  BY ReloadStep
<1>2. Reload!Init => LoadsInv
  BY ReloadStart
<1>3. LoadsInv => Reload!OneLoadPerTtl
  BY DEF LoadsInv, Reload!OneLoadPerTtl
<1> QED  BY <1>1, <1>2, <1>3, EachPartRunsAlone, PTL DEF Reload!Spec

\* AckedWrites (cache/redis.py): when a set or delete is told to have arrived, what the server
\* holds was put there after that call began, for any number of threads and processes that write
\* and fill the key, with failures before and after the server has executed an operation.
THEOREM AcksAreTrue ==
  SharedSpec => []AckedWrites
<1>1. Redis!Init => RedisInv
  BY RedisStart
<1>2. RedisInv => AckedWrites
  BY DEF RedisInv, AckedWrites
<1>3. RedisInv /\ [Redis!Next]_Redis!redisVars => RedisInv'
  BY RedisStep, RedisAssumption
<1> QED  BY <1>1, <1>2, <1>3, EachPartRunsAlone, PTL DEF Redis!Spec

\* Lineage (db/versioned_config.py): where the unique key holds, the versions of a scope are
\* 1, 2, ..., one row each, and a column that its writer left open has the value of the version
\* right before it, for any number of writers and at either isolation level.
THEOREM HistoryIsWhole ==
  SharedSpec => []Lineage
<1>1. Configs!Init => HistoryInv
  BY HistoryStart
<1>2. HistoryInv => Lineage
  BY HistorySound DEF Lineage
<1>3. HistoryInv /\ [Configs!Next]_Configs!vars => HistoryInv'
  BY HistoryStep, ConfigAssumption
<1> QED  BY <1>1, <1>2, <1>3, EachPartRunsAlone, PTL DEF Configs!Spec

\* SameOnEveryDialect (db/upsert.py): after the same calls a table with one unique key has the
\* same rows on SQLite, PostgreSQL and MySQL, and the latest call ended the same on each, for any
\* columns, values and number of calls.
THEOREM DialectsAgree ==
  SharedSpec => []SameOnEveryDialect
<1> DEFINE Inv == Cardinality(UniqueKeys) = 1 => DialectsAlike
<1>1. Rows!Init => Inv
  BY UpsertSound
<1>2. Inv => SameOnEveryDialect
  BY SameCount, UpsertSound DEF SameOnEveryDialect, Rows!SameOnEveryDialect
<1>3. Inv /\ [Rows!Next]_Rows!upsertVars => Inv'
  BY UpsertStep
<1> HIDE DEF Inv
<1> QED  BY <1>1, <1>2, <1>3, EachPartRunsAlone, PTL DEF Rows!Spec

\* ListedIsComplete (pipeline/baseline.py), the first half of BaselinesAreWhole: a listed
\* baseline holds the whole output it was taken of, whoever failed or died while saving and
\* however labels were contended for, for any savers, labels and sections.
THEOREM ListedBaselinesAreWhole ==
  SharedSpec => []Outputs!ListedIsComplete
<1>1. Outputs!Init => CopiesInv
  BY CopiesStart
<1>2. CopiesInv => Outputs!ListedIsComplete
  BY DEF CopiesInv
<1>3. CopiesInv /\ [Outputs!Next]_Outputs!baselineVars => CopiesInv'
  BY CopiesStep
<1> QED  BY <1>1, <1>2, <1>3, EachPartRunsAlone, PTL DEF Outputs!Spec

\* BaselinesAreWhole (pipeline/baseline.py, baseline_diff.py): and a comparison of it with the
\* output of today accounts for every path once: a renamed file is the new name of one file, as
\* similar as the threshold asks, and one not reported changed is the same, for any bodies,
\* likeness and nearness of names.
THEOREM ComparisonsAddUp ==
  SharedSpec => []BaselinesAreWhole
<1>1. Outputs!Init => CopiesInv
  BY CopiesStart
<1>2. CopiesInv => BaselinesAreWhole
  BY CopiesSound
<1>3. CopiesInv /\ [Outputs!Next]_Outputs!baselineVars => CopiesInv'
  BY CopiesStep
<1> QED  BY <1>1, <1>2, <1>3, EachPartRunsAlone, PTL DEF Outputs!Spec
=============================================================================
