----------------------------- MODULE RedisCache -----------------------------
(***************************************************************************)
(* cache/redis.py: the entry of one key on a server that comes and goes,   *)
(* written and filled by threads of several processes.  A failed operation *)
(* is absorbed as a miss and counted, and RedisCache tells its caller by   *)
(* the count whether a write arrived.                                      *)
(*                                                                         *)
(* degraded_ops += 1 is one step: the interpreter switches threads at      *)
(* calls and jumps, not between the load and the store.  dogpile is        *)
(* modelled as the module uses it: get_or_create computes under a lock of  *)
(* the process (distributed_lock is False).  bump_generation, a time in    *)
(* one process before which entries count as missing, is left out.         *)
(***************************************************************************)
EXTENDS Naturals

CONSTANTS
  Clients, HostOf,       \* threads, and their processes
  MaxOps,                \* bound: the time on the clock when an operation may begin
  MaxSwitches,           \* bound: outages, returns and expirations
  None

Hosts == {HostOf[c] : c \in Clients}

NoneAssumption == None \notin Nat \cup {"set", "delete", "fill"}

VARIABLES
  up, entry,      \* the server, and when the value it holds for the key was put there
  degraded_ops,   \* of the backend proxy of each process
  filling,        \* the client that holds the process's lock of the key
  client,
  clock,          \* counts the operations begun and sent
  acked,          \* when the latest write began that was told to have arrived (history)
  switches

redisVars == <<up, entry, degraded_ops, filling, client, clock, acked, switches>>

IdleClient == [pc |-> "idle", op |-> None, begun |-> 0, before |-> 0]

Init ==
  /\ up = TRUE /\ entry = None
  /\ degraded_ops = [h \in Hosts |-> 0]
  /\ filling = [h \in Hosts |-> None]
  /\ client = [c \in Clients |-> IdleClient]
  /\ clock = 1 /\ acked = 0 /\ switches = 0

At(c, pc)   == client[c].pc = pc
Goto(c, pc) == client' = [client EXCEPT ![c].pc = pc]
Ended(c)    == client' = [client EXCEPT ![c] = IdleClient]
Later       == clock' = clock + 1

\* Faulty variant: only the failure that is logged as a warning is counted.
DegradeWarned(h) ==
  degraded_ops' = [degraded_ops EXCEPT ![h] = IF @ = 0 THEN 1 ELSE @]

Degrade(h) == degraded_ops' = [degraded_ops EXCEPT ![h] = @ + 1]

\* What get answers: an unreachable server is a miss.
Fetched == IF up THEN entry ELSE None

\* RedisCache.set and delete: _write reads the counter before.
WriteBegin(c) ==
  /\ At(c, "idle") /\ clock <= MaxOps /\ Later
  /\ \E op \in {"set", "delete"} :
       client' = [client EXCEPT ![c] = [IdleClient EXCEPT !.pc = "send", !.op = op, !.begun = clock,
                                          !.before = degraded_ops[HostOf[c]]]]
  /\ UNCHANGED <<up, entry, degraded_ops, filling, acked, switches>>

Put(c) == IF client[c].op = "delete" THEN None ELSE clock

\* The operation reaches the server, or fails; an answer that is lost fails after it took effect.
Send(c) ==
  /\ At(c, "send") /\ Goto(c, "sent") /\ Later
  /\ \/ up /\ entry' = Put(c) /\ UNCHANGED degraded_ops
     \/ up /\ entry' = Put(c) /\ Degrade(HostOf[c])
     \/ UNCHANGED entry /\ Degrade(HostOf[c])
  /\ UNCHANGED <<up, filling, acked, switches>>

\* True if the counter is as it was: failures of other threads in between count too.
Arrived(c) == degraded_ops[HostOf[c]] = client[c].before

WriteEnd(c) ==
  /\ At(c, "sent") /\ client[c].op # "fill"
  /\ acked' = IF Arrived(c) /\ client[c].begun > acked THEN client[c].begun ELSE acked
  /\ Ended(c)
  /\ UNCHANGED <<up, entry, degraded_ops, filling, clock, switches>>

\* cached_json: get_or_create looks, waits for the process's lock, looks again, and computes.
FillBegin(c) ==
  /\ At(c, "idle") /\ clock <= MaxOps /\ Later
  /\ \/ Fetched = None /\ UNCHANGED degraded_ops
     \/ Degrade(HostOf[c])
  /\ client' = [client EXCEPT ![c] = [IdleClient EXCEPT !.pc = "lock", !.op = "fill"]]
  /\ UNCHANGED <<up, entry, filling, acked, switches>>

FillLock(c) ==
  /\ At(c, "lock") /\ filling[HostOf[c]] = None
  /\ \/ /\ Fetched # None
        /\ Ended(c) /\ UNCHANGED filling
     \/ /\ Fetched = None
        /\ filling' = [filling EXCEPT ![HostOf[c]] = c]
        /\ client' = [client EXCEPT ![c].pc = "send", ![c].begun = clock]
  /\ UNCHANGED <<up, entry, degraded_ops, clock, acked, switches>>

\* The caller gets what it computed, stored or not.
FillEnd(c) ==
  /\ At(c, "sent") /\ client[c].op = "fill"
  /\ filling' = [filling EXCEPT ![HostOf[c]] = None]
  /\ Ended(c)
  /\ UNCHANGED <<up, entry, degraded_ops, clock, acked, switches>>

\* The server goes away, comes back with or without its data, or expires the entry.
Switch ==
  /\ switches < MaxSwitches /\ switches' = switches + 1
  /\ \/ up' = ~up /\ entry' \in {entry, None}
     \/ up /\ entry # None /\ entry' = None /\ UNCHANGED up
  /\ UNCHANGED <<degraded_ops, filling, client, clock, acked>>

Next ==
  \/ \E c \in Clients : \/ WriteBegin(c) \/ Send(c) \/ WriteEnd(c) \/ FillBegin(c) \/ FillLock(c)
                        \/ FillEnd(c)
  \/ Switch

Spec == Init /\ [][Next]_redisVars

-----------------------------------------------------------------------------
\* "A caller that must report success or failure can tell a dropped operation from a real one":
\* once a set or delete was told to have arrived, what the server holds was put there after that
\* call began, whatever failed in other threads and processes at the same time.
AckedWrites == entry # None => entry >= acked

=============================================================================
