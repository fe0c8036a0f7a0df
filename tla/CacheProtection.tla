---------------------------- MODULE CacheProtection ----------------------------
(***************************************************************************)
(* GetWithProtection of utils/redis/cache.go on one key: the entry in      *)
(* Redis, the calls and the singleflight group of each node, and the row   *)
(* the loader reads.  The row is a version number; in the versions outside *)
(* Present it does not exist, the loader answers "" and the cache keeps    *)
(* the marker "<NIL>".  Time is counted in ticks.                          *)
(***************************************************************************)

EXTENDS Naturals, FiniteSets

CONSTANTS
  Calls,       \* calls of GetWithProtection
  Nodes,       \* processes; each has a singleflight group of its own
  node,        \* node[c]: the process c runs in
  MaxWrites,   \* bound of the model: changes of the row
  Present,     \* versions in which the row exists
  BaseTTL,     \* baseTTL, in ticks
  MaxJitter,   \* a tenth of it, rounded up to ticks
  EmptyTTL,    \* emptyCacheTTL, in ticks
  MaxFill,     \* ticks that the function given to singleflight may take, until Redis
               \* has served the last command it has sent
  None,        \* no entry, no flight, no answer
  Failed,      \* the answer of a call that returns an error
  MaxFaults    \* bound of the model: errors of Redis and of the loader

Version == 0 .. MaxWrites

\* A baseTTL below ten nanoseconds makes Int63n(0) panic.
ASSUME CacheAssumption ==
  /\ node \in [Calls -> Nodes]
  /\ IsFiniteSet(Calls)
  /\ {MaxWrites, MaxJitter, MaxFill, MaxFaults} \subseteq Nat
  /\ {BaseTTL, EmptyTTL} \subseteq Nat \ {0}
  /\ Present \subseteq Version
  /\ None # Failed /\ {None, Failed} \cap (Version \cup Calls) = {}

VARIABLES
  version,   \* the version of the row
  retired,   \* retired[v]: ticks since version v was replaced
  entry,     \* the version in Redis, or None
  ttl,       \* ticks until it expires
  flight,    \* flight[n]: the call registered in the group of n, or None
  pc,        \* where c is: "idle", "do", "recheck", "load", "store", "finish"
             \* (the leader of a flight), "wait" (for one) or "done"
  joined,    \* joined[c]: the leader c waits for
  val,       \* val[c]: what c has to return
  took,      \* took[c]: ticks since the flight of c began
  loads,     \* loads[n]: calls of the loader on n
  expiries,  \* expiries of the entry, counted up to the number of calls
  blamed,    \* calls under way on a node while a loader's error was on its way
  faults

row == <<version, retired>>
redis == <<entry, ttl, expiries>>
vars == <<row, redis, flight, pc, joined, val, took, loads, blamed, faults>>

Life(v) == IF v \in Present THEN BaseTTL + MaxJitter ELSE EmptyTTL

\* Longer than any entry lives, counted from the lookup of the row.
Horizon == BaseTTL + MaxJitter + EmptyTTL + MaxFill

-----------------------------------------------------------------------------
TypeOK ==
  /\ version \in Version
  /\ retired \in [Version -> 0 .. Horizon]
  /\ \A v \in version .. MaxWrites : retired[v] = 0
  /\ entry \in (0 .. version) \cup {None}
  /\ ttl \in 0 .. BaseTTL + MaxJitter + EmptyTTL
  /\ entry = None <=> ttl = 0
  /\ flight \in [Nodes -> Calls \cup {None}]
  /\ \A n \in Nodes : {c \in Calls : node[c] = n /\ pc[c] \in {"recheck", "load", "store", "finish"}}
                        = {flight[n]} \ {None}
  /\ pc \in [Calls -> {"idle", "do", "recheck", "load", "store", "finish", "wait", "done"}]
  /\ joined \in [Calls -> Calls \cup {None}]
  /\ val \in [Calls -> (0 .. version) \cup {None, Failed}]
  /\ \A c \in Calls : pc[c] \in {"store", "finish", "done"} => val[c] # None
  /\ took \in [Calls -> 0 .. MaxFill]
  /\ loads \in [Nodes -> 0 .. Cardinality(Calls)]
  /\ expiries \in 0 .. Cardinality(Calls)
  /\ blamed \subseteq Calls
  /\ faults \in 0 .. MaxFaults

Init ==
  /\ version = 0 /\ retired = [v \in Version |-> 0]
  /\ entry = None /\ ttl = 0
  /\ flight = [n \in Nodes |-> None]
  /\ pc = [c \in Calls |-> "idle"]
  /\ joined = [c \in Calls |-> None]
  /\ val = [c \in Calls |-> None]
  /\ took = [c \in Calls |-> 0]
  /\ loads = [n \in Nodes |-> 0]
  /\ expiries = 0 /\ blamed = {} /\ faults = 0

Goto(c, p) == pc' = [pc EXCEPT ![c] = p]
Fault == faults < MaxFaults /\ faults' = faults + 1

\* What GET finds: the entry, None, or None for an error of any kind.
Lookup(v) ==
  \/ v = entry /\ UNCHANGED faults
  \/ entry # None /\ v = None /\ Fault

-----------------------------------------------------------------------------
\* An error of the loader that some flight on n has still to hand out.
Failing(n) == \E c \in Calls : node[c] = n /\ pc[c] = "finish" /\ val[c] = Failed

\* The first lookup; a hit is the answer.
Get(c) ==
  /\ pc[c] = "idle"
  /\ \E v \in Version \cup {None} :
       /\ Lookup(v)
       /\ Goto(c, IF v = None THEN "do" ELSE "done")
       /\ val' = [val EXCEPT ![c] = v]
  /\ blamed' = IF Failing(node[c]) THEN blamed \cup {c} ELSE blamed
  /\ UNCHANGED <<row, redis, flight, joined, took, loads>>

\* sfGroup.Do: the first call on the node leads, the others wait for it.
Do(c) ==
  /\ pc[c] = "do"
  /\ \/ /\ flight[node[c]] = None
        /\ flight' = [flight EXCEPT ![node[c]] = c]
        /\ Goto(c, "recheck")
        /\ UNCHANGED joined
     \/ /\ flight[node[c]] # None
        /\ joined' = [joined EXCEPT ![c] = flight[node[c]]]
        /\ Goto(c, "wait")
        /\ UNCHANGED flight
  /\ UNCHANGED <<row, redis, val, took, loads, blamed, faults>>

\* Mutant of Recheck: the cache is not looked up again.
NoRecheck(c) ==
  /\ pc[c] = "recheck" /\ Goto(c, "load")
  /\ UNCHANGED <<row, redis, flight, joined, val, took, loads, blamed, faults>>

\* The second lookup.
Recheck(c) ==
  /\ pc[c] = "recheck"
  /\ \E v \in Version \cup {None} :
       /\ Lookup(v)
       /\ Goto(c, IF v = None THEN "load" ELSE "finish")
       /\ val' = [val EXCEPT ![c] = v]
  /\ UNCHANGED <<row, redis, flight, joined, took, loads, blamed>>

\* Mutant of Load: after an error the leader calls sfGroup.Do again.
LoadRetries(c) ==
  /\ pc[c] = "load" /\ val' = [val EXCEPT ![c] = version]
  /\ \/ Goto(c, "store") /\ UNCHANGED faults
     \/ Goto(c, "do") /\ Fault
  /\ UNCHANGED <<row, redis, flight, joined, took, loads, blamed>>

\* The loader reads the row, or fails.
Load(c) ==
  /\ pc[c] = "load"
  /\ loads' = [loads EXCEPT ![node[c]] = @ + 1]
  /\ \/ /\ val' = [val EXCEPT ![c] = version]
        /\ Goto(c, "store")
        /\ UNCHANGED <<blamed, faults>>
     \/ /\ Fault
        /\ val' = [val EXCEPT ![c] = Failed]
        /\ Goto(c, "finish")
        /\ blamed' = blamed \cup {d \in Calls : node[d] = node[c] /\ pc[d] \notin {"idle", "done"}}
  /\ UNCHANGED <<row, redis, flight, joined, took>>

\* Mutant of Lifetime: the marker is kept as long as a value.
LifetimeLong(v) == BaseTTL .. BaseTTL + MaxJitter

\* Lifetimes the code gives an entry for version v.
Lifetime(v) == IF v \in Present THEN BaseTTL .. BaseTTL + MaxJitter ELSE {EmptyTTL}

Set(v) == entry' = v /\ ttl' \in Lifetime(v)

\* SET; its error is only logged, whether or not Redis has executed it.
Store(c) ==
  /\ pc[c] = "store"
  /\ \/ Set(val[c]) /\ UNCHANGED faults
     \/ Fault /\ (Set(val[c]) \/ UNCHANGED <<entry, ttl>>)
  /\ Goto(c, "finish")
  /\ UNCHANGED <<row, expiries, flight, joined, val, took, loads, blamed>>

\* Mutant of Finish: the call stays registered in the group.
FinishKeeps(c) ==
  /\ pc[c] = "finish" /\ Goto(c, "done")
  /\ UNCHANGED <<row, redis, flight, joined, val, took, loads, blamed, faults>>

\* The flight is over: it leaves the group, and its leader returns.
Finish(c) ==
  /\ pc[c] = "finish" /\ Goto(c, "done")
  /\ flight' = [flight EXCEPT ![node[c]] = None]
  /\ took' = [took EXCEPT ![c] = 0]
  /\ UNCHANGED <<row, redis, joined, val, loads, blamed, faults>>

Ready(c) == pc[c] = "wait" /\ pc[joined[c]] = "done"

\* A caller that has waited returns what the leader returns.
Wake(c) ==
  /\ Ready(c) /\ Goto(c, "done")
  /\ val' = [val EXCEPT ![c] = val[joined[c]]]
  /\ joined' = [joined EXCEPT ![c] = None]
  /\ UNCHANGED <<row, redis, flight, took, loads, blamed, faults>>

-----------------------------------------------------------------------------
Leads(c) == pc[c] \in {"recheck", "load", "store", "finish"}

\* The row is created, changed or deleted; no code deletes the key.
Write ==
  /\ version < MaxWrites /\ version' = version + 1
  /\ UNCHANGED <<retired, redis, flight, pc, joined, val, took, loads, blamed, faults>>

Saturated(n, bound) == IF n < bound THEN n + 1 ELSE bound

\* A tick passes; flights do not overrun, and a caller that may go on has gone on.
Tick ==
  /\ \A c \in Calls : ~Ready(c) /\ (Leads(c) => took[c] < MaxFill)
  /\ took' = [c \in Calls |-> IF Leads(c) THEN took[c] + 1 ELSE 0]
  /\ retired' = [v \in Version |-> IF v < version THEN Saturated(retired[v], Horizon) ELSE 0]
  /\ ttl' = IF ttl = 0 THEN 0 ELSE ttl - 1
  /\ entry' = IF ttl = 1 THEN None ELSE entry
  /\ expiries' = IF ttl = 1 THEN Saturated(expiries, Cardinality(Calls)) ELSE expiries
  /\ UNCHANGED <<version, flight, pc, joined, val, loads, blamed, faults>>

Next ==
  \/ \E c \in Calls : Get(c) \/ Do(c) \/ Recheck(c) \/ Load(c) \/ Store(c) \/ Finish(c) \/ Wake(c)
  \/ Write \/ Tick

\* A call that has begun goes on; the loader and Redis answer.
Fairness ==
  \A c \in Calls : WF_vars(Do(c) \/ Recheck(c) \/ Load(c) \/ Store(c) \/ Finish(c) \/ Wake(c))

Spec == Init /\ [][Next]_vars
FairSpec == Spec /\ Fairness

-----------------------------------------------------------------------------
(* Properties *)

\* Nothing invalidates the entry, and a loader's answer is written after the row
\* may have changed: what the cache holds is all the same gone, at the latest, a
\* lifetime and a flight after the row has changed.  A cached absence goes after
\* the short lifetime.
BoundedStaleness ==
  entry # None => retired[entry] + ttl <= Life(entry) + MaxFill

\* However many callers miss, each node calls the loader once for each time that
\* the entry was missing, as long as nothing fails.
OneLoadPerMiss ==
  faults = 0 => \A n \in Nodes : loads[n] <= expiries + 1

\* A loader's error reaches only calls that had begun when it was handed out: a
\* failed flight leaves nothing behind that a later call could be answered with.
ErrorsExplained ==
  \A c \in Calls : pc[c] = "done" /\ val[c] = Failed => c \in blamed

\* Every call returns: the leader, and whoever waits for it.
CallsReturn == \A c \in Calls : pc[c] = "do" ~> pc[c] = "done"
================================================================================
