---------------------------- MODULE ReloadCache -----------------------------
(***************************************************************************)
(* utils/reload_cache.py: one value loaded from a file, shared by threads, *)
(* reloaded when it is older than a TTL.  The router's configuration       *)
(* (llm/_router_loader.py) is served through one.                          *)
(*                                                                         *)
(* The first look at the slot takes no lock, so the value, the key and the *)
(* age are read one by one while another thread replaces them one by one.  *)
(***************************************************************************)
EXTENDS Naturals

CONSTANTS
  Threads,
  Keys,         \* paths of the file
  Ttl,          \* ttl(), 0 to reload on every call
  None,
  MaxTime, MaxGets, MaxEdits, MaxClears   \* bounds

VARIABLES
  now,
  file,     \* [Keys -> version of the content, and whether it parses]
  slot,     \* _value, _key, _loaded_at
  lock,
  thread,
  shown,    \* the newest version any get has returned (history)
  loads,    \* the last time the loader produced the slot's value, None after a clear (history)
  early,    \* a get reloaded a value that was not due (history)
  count

vars == <<now, file, slot, lock, thread, shown, loads, early, count>>

FileVersions == 1 .. MaxEdits + 1
Values   == [key : Keys, version : FileVersions]
Slots    == [value : Values \cup {None}, key : Keys \cup {None}, at : 0 .. MaxTime]
Pcs      == {"idle", "value", "key", "age", "lock", "load", "set"}

\* Times are numbers; None is no time, no value, and nobody who holds the lock.
ReloadAssumption ==
  /\ Ttl \in Nat /\ MaxTime \in Nat /\ MaxEdits \in Nat
  /\ None \notin Values /\ None \notin Threads /\ None \notin Nat

EmptySlot == [value |-> None, key |-> None, at |-> 0]
IdleThread == [pc |-> "idle", key |-> None, force |-> FALSE, start |-> 0, held |-> None,
               next |-> EmptySlot, field |-> "value", floor |-> 0, answer |-> None]

Init ==
  /\ now = 0
  /\ file = [k \in Keys |-> [version |-> 1, ok |-> TRUE]]
  /\ slot = EmptySlot
  /\ lock = None
  /\ thread = [t \in Threads |-> IdleThread]
  /\ shown = 0 /\ loads = None /\ early = FALSE
  /\ count = [x \in {"get", "clear"} |-> 0]

At(t, pc)   == thread[t].pc = pc
Goto(t, pc) == thread' = [thread EXCEPT ![t].pc = pc]

\* The get returns v; a get that started afterwards may not see an older one.
Return(t, v) ==
  /\ thread' = [thread EXCEPT ![t].pc = "idle", ![t].answer = v]
  /\ shown' = IF v.version > shown THEN v.version ELSE shown

\* `now` and `ttl` are read once, before the slot is.
Begin(t) ==
  /\ At(t, "idle") /\ count["get"] < MaxGets
  /\ count' = [count EXCEPT !["get"] = @ + 1]
  /\ \E k \in Keys, force \in BOOLEAN :
       thread' = [thread EXCEPT ![t] = [IdleThread EXCEPT !.key = k, !.force = force,
                    !.start = now, !.floor = shown,
                    !.pc = IF force THEN "lock" ELSE "value"]]
  /\ UNCHANGED <<now, file, slot, lock, shown, loads, early>>

ReadValue(t) ==
  /\ At(t, "value")
  /\ thread' = [thread EXCEPT ![t].held = slot.value,
                              ![t].pc = IF slot.value = None THEN "lock" ELSE "key"]
  /\ UNCHANGED <<now, file, slot, lock, shown, loads, early, count>>

ReadKey(t) ==
  /\ At(t, "key")
  /\ Goto(t, IF slot.key = thread[t].key /\ Ttl > 0 THEN "age" ELSE "lock")
  /\ UNCHANGED <<now, file, slot, lock, shown, loads, early, count>>

\* An age in the future of `start` counts as young: the difference is negative.
Young(start, at) == start < at + Ttl

ReadAge(t) ==
  /\ At(t, "age")
  /\ IF Young(thread[t].start, slot.at)
       THEN Return(t, thread[t].held)
       ELSE Goto(t, "lock") /\ UNCHANGED shown
  /\ UNCHANGED <<now, file, slot, lock, loads, early, count>>

\* The slot answers for key k without a reload.
Serves(k, force) == ~force /\ slot.value # None /\ slot.key = k /\ Ttl > 0 /\ Young(now, slot.at)

\* Faulty variant: the lock is taken to look and given back before the file is read.
UnlockedRecheck(t) ==
  /\ At(t, "lock") /\ lock = None
  /\ IF Serves(thread[t].key, thread[t].force)
       THEN Return(t, slot.value)
       ELSE /\ thread' = [thread EXCEPT ![t].pc = "load", ![t].start = now]
            /\ UNCHANGED shown
  /\ UNCHANGED <<now, file, slot, lock, loads, early, count>>

\* Faulty variant: a thread that waited for the lock loads without another look.
NoRecheck(t) ==
  /\ At(t, "lock") /\ lock = None
  /\ lock' = t
  /\ thread' = [thread EXCEPT ![t].pc = "load", ![t].start = now]
  /\ UNCHANGED <<now, file, slot, shown, loads, early, count>>

\* Under the lock: the same questions again, with the time of now.
Recheck(t) ==
  /\ At(t, "lock") /\ lock = None
  /\ IF Serves(thread[t].key, thread[t].force)
       THEN Return(t, slot.value) /\ UNCHANGED lock
       ELSE /\ lock' = t
            /\ thread' = [thread EXCEPT ![t].pc = "load", ![t].start = now]
            /\ UNCHANGED shown
  /\ UNCHANGED <<now, file, slot, loads, early, count>>

\* Not forced, and the loader gave the slot's value for this key less than a TTL ago.
Due(t) ==
  \/ thread[t].force \/ Ttl = 0
  \/ loads = None \/ slot.key # thread[t].key
  \/ thread[t].start >= loads + Ttl

Load(t) ==
  /\ At(t, "load")
  /\ LET f == file[thread[t].key]
         k == thread[t].key
     IN IF f.ok
          THEN /\ thread' = [thread EXCEPT ![t].pc = "set",
                    ![t].next = [value |-> [key |-> k, version |-> f.version],
                                 key |-> k, at |-> thread[t].start]]
               /\ early' = (early \/ ~Due(t))
               /\ loads' = thread[t].start
               /\ UNCHANGED <<slot, lock, shown>>
          ELSE /\ lock' = None
               /\ early' = (early \/ ~Due(t))
               /\ IF slot.value # None /\ slot.key = k
                    THEN /\ slot' = [slot EXCEPT !.at = thread[t].start]
                         /\ loads' = thread[t].start
                         /\ Return(t, slot.value)
                    ELSE Goto(t, "idle") /\ UNCHANGED <<slot, loads, shown>>
  /\ UNCHANGED <<now, file, count>>

\* The three assignments of a reload, or of clear(), and the release of the lock.
Assign(t) ==
  /\ At(t, "set")
  /\ LET f == thread[t].field
         n == thread[t].next
     IN /\ slot' = [slot EXCEPT ![f] = n[f]]
        /\ IF f # "at"
             THEN /\ thread' = [thread EXCEPT ![t].field = IF f = "value" THEN "key" ELSE "at"]
                  /\ UNCHANGED <<lock, shown>>
             ELSE /\ lock' = None
                  /\ IF n.value = None THEN Goto(t, "idle") /\ UNCHANGED shown
                                       ELSE Return(t, n.value)
  /\ UNCHANGED <<now, file, loads, early, count>>

Clear(t) ==
  /\ At(t, "idle") /\ lock = None /\ count["clear"] < MaxClears
  /\ count' = [count EXCEPT !["clear"] = @ + 1]
  /\ lock' = t
  /\ thread' = [thread EXCEPT ![t] = [IdleThread EXCEPT !.pc = "set"]]
  /\ loads' = None
  /\ UNCHANGED <<now, file, slot, shown, early>>

\* Somebody edits the file, well or badly.
Edit ==
  /\ \E k \in Keys, ok \in BOOLEAN :
       /\ file[k].version <= MaxEdits
       /\ file' = [file EXCEPT ![k] = [version |-> @.version + 1, ok |-> ok]]
  /\ UNCHANGED <<now, slot, lock, thread, shown, loads, early, count>>

Tick ==
  /\ now < MaxTime
  /\ now' = now + 1
  /\ UNCHANGED <<file, slot, lock, thread, shown, loads, early, count>>

Get(t) == \/ Begin(t) \/ ReadValue(t) \/ ReadKey(t) \/ ReadAge(t)
          \/ Recheck(t) \/ Load(t) \/ Assign(t)

Next == \/ \E t \in Threads : Get(t) \/ Clear(t)
        \/ Edit \/ Tick

Spec == Init /\ [][Next]_vars

-----------------------------------------------------------------------------
TypeOK ==
  /\ now \in 0 .. MaxTime
  /\ file \in [Keys -> [version : FileVersions, ok : BOOLEAN]]
  /\ slot \in Slots
  /\ lock \in Threads \cup {None}
  /\ thread \in [Threads -> [pc : Pcs, key : Keys \cup {None}, force : BOOLEAN,
                   start : 0 .. MaxTime, held : Values \cup {None}, next : Slots,
                   field : {"value", "key", "at"},
                   floor : 0 .. MaxEdits + 1, answer : Values \cup {None}]]
  /\ shown \in 0 .. MaxEdits + 1

\* A get for one path is never answered with the value of another (utils/reload_cache.py:
\* "a key change invalidates immediately").
ServesItsKey ==
  \A t \in Threads : At(t, "idle") /\ thread[t].answer # None
                       => thread[t].answer.key = thread[t].key

\* With one path, a get that starts after another has returned is not answered with an older
\* version of the file: an operator who saw the new configuration in use sees it stay.
NeverBackwards ==
  \A t \in Threads : At(t, "idle") /\ thread[t].answer # None
                       => thread[t].answer.version >= thread[t].floor

\* However many threads find the value stale together, the file is read once per TTL, failed
\* reads included, unless the caller forces it or the cache was cleared.
OneLoadPerTtl == ~early

\* What a thread is shown never goes back, and the file is read once for each time to live.
ReloadsInStep == NeverBackwards /\ OneLoadPerTtl
=============================================================================
