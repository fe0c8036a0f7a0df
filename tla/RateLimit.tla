------------------------------- MODULE RateLimit -------------------------------
(***************************************************************************)
(* AllowIP and cleanupLoop of utils/ratelimit/ratelimit.go: a table of     *)
(* token buckets, one per address, that requests use without a lock while  *)
(* the cleaner deletes the idle ones.  An entry of the table is named by a *)
(* number, since a request may go on with one that has been deleted.  Time *)
(* is counted in ticks; a request takes less than a tick.                  *)
(***************************************************************************)

EXTENDS Integers, FiniteSets, FiniteSetsExt

CONSTANTS
  Addresses,
  Requests,    \* goroutines that serve requests
  Rate, Burst, \* rate.NewLimiter(100, 200): tokens per tick, tokens at most
  Idle,        \* an entry unused for longer than this is deleted
  Period,      \* of the cleaner's ticker
  MaxLapse,    \* ticks that a sweep may take
  None

Entry == 1 .. Cardinality(Addresses) + Cardinality(Requests)

\* A bucket is full long before it counts as idle: 2 s, against 10 minutes.
ASSUME RateAssumption ==
  /\ IsFiniteSet(Addresses) /\ IsFiniteSet(Requests)
  /\ {Rate, Burst, Idle, Period} \subseteq Nat \ {0} /\ MaxLapse \in Nat
  /\ Idle * Rate >= 2 * Burst
  /\ MaxLapse < Period
  /\ None \notin Addresses \cup Entry

VARIABLES
  table,     \* rl.ipLimiters: table[a] is the entry of a, or None
  tokens,    \* tokens[e]: what is in the bucket of e
  seen,      \* seen[e]: ticks since e.lastSeen
  pc,        \* pc[r]: "idle", "touch" (has the entry) or "allow" (has set lastSeen)
  ip,        \* ip[r]: the address of the request
  held,      \* held[r]: its entry
  timer,     \* ticks until the ticker fires
  pending,   \* a tick waits in the ticker's channel
  sweeping,  \* the cleaner is inside Range
  todo,      \* addresses that it has still to visit
  victim,    \* the address whose entry it has found idle, or None
  lapse,     \* ticks since it read the clock
  meter,     \* meter[a]: requests of a admitted, less Rate for each tick
  crossed,   \* a request has had the entry of the victim since it was found idle
  split      \* addresses that lost a bucket in use and have not been quiet since

requestVars == <<pc, ip, held>>
cleanerVars == <<timer, pending, sweeping, todo, victim, lapse>>
vars == <<table, tokens, seen, requestVars, cleanerVars, meter, crossed, split>>

\* Nothing distinguishes longer idle times.
Forgotten == Idle + Period + MaxLapse + 1

TypeOK ==
  /\ table \in [Addresses -> Entry \cup {None}]
  /\ \A a, b \in Addresses : table[a] = table[b] /\ table[a] # None => a = b
  /\ tokens \in [Entry -> 0 .. Burst]
  /\ seen \in [Entry -> 0 .. Forgotten]
  /\ pc \in [Requests -> {"idle", "touch", "allow"}]
  /\ ip \in [Requests -> Addresses \cup {None}]
  /\ held \in [Requests -> Entry \cup {None}]
  /\ \A r \in Requests : pc[r] # "idle" => held[r] # None /\ ip[r] # None
  /\ timer \in 1 .. Period
  /\ pending \in BOOLEAN /\ sweeping \in BOOLEAN
  /\ todo \subseteq Addresses /\ victim \in Addresses \cup {None}
  /\ lapse \in 0 .. MaxLapse
  /\ meter \in [Addresses -> Nat]
  /\ crossed \in BOOLEAN /\ split \subseteq Addresses

Init ==
  /\ table = [a \in Addresses |-> None]
  /\ tokens = [e \in Entry |-> Burst] /\ seen = [e \in Entry |-> 0]
  /\ pc = [r \in Requests |-> "idle"]
  /\ ip = [r \in Requests |-> None] /\ held = [r \in Requests |-> None]
  /\ timer = Period /\ pending = FALSE
  /\ sweeping = FALSE /\ todo = {} /\ victim = None /\ lapse = 0
  /\ meter = [a \in Addresses |-> 0]
  /\ crossed = FALSE /\ split = {}

-----------------------------------------------------------------------------
(* AllowIP *)

InUse == {table[a] : a \in Addresses} \cup {held[r] : r \in Requests}
Fresh == CHOOSE e \in Entry : e \notin InUse

\* The entry of the address, or a new one with a full bucket.
LoadOrStore(r, a) ==
  /\ pc[r] = "idle" /\ pc' = [pc EXCEPT ![r] = "touch"]
  /\ ip' = [ip EXCEPT ![r] = a]
  /\ \/ /\ table[a] # None
        /\ held' = [held EXCEPT ![r] = table[a]]
        /\ UNCHANGED <<table, tokens, seen>>
     \/ /\ table[a] = None
        /\ table' = [table EXCEPT ![a] = Fresh] /\ held' = [held EXCEPT ![r] = Fresh]
        /\ tokens' = [tokens EXCEPT ![Fresh] = Burst]
        /\ seen' = [seen EXCEPT ![Fresh] = 0]
  /\ crossed' = (crossed \/ victim = a)
  /\ UNCHANGED <<cleanerVars, meter, split>>

\* Mutant of Touch: lastSeen keeps the time at which the entry was made.
NoTouch(r) ==
  /\ pc[r] = "touch" /\ pc' = [pc EXCEPT ![r] = "allow"]
  /\ UNCHANGED <<table, tokens, seen, ip, held, cleanerVars, meter, crossed, split>>

\* Sub reads a single word of lastSeen, its monotonic reading: a race with the
\* cleaner yields the old time or the new one, as an atomic step does.
Touch(r) ==
  /\ pc[r] = "touch" /\ pc' = [pc EXCEPT ![r] = "allow"]
  /\ seen' = [seen EXCEPT ![held[r]] = 0]
  /\ UNCHANGED <<table, tokens, ip, held, cleanerVars, meter, crossed, split>>

\* The request is admitted if its bucket has a token.
Allow(r) ==
  /\ pc[r] = "allow" /\ pc' = [pc EXCEPT ![r] = "idle"]
  /\ \/ /\ tokens[held[r]] > 0
        /\ tokens' = [tokens EXCEPT ![held[r]] = @ - 1]
        /\ meter' = [meter EXCEPT ![ip[r]] = @ + 1]
     \/ tokens[held[r]] = 0 /\ UNCHANGED <<tokens, meter>>
  /\ ip' = [ip EXCEPT ![r] = None] /\ held' = [held EXCEPT ![r] = None]
  /\ UNCHANGED <<table, seen, cleanerVars, crossed, split>>

-----------------------------------------------------------------------------
(* cleanupLoop *)

\* A turn of the loop: the clock is read once for all addresses.
SweepStart ==
  /\ pending /\ ~sweeping
  /\ pending' = FALSE /\ sweeping' = TRUE /\ lapse' = 0
  /\ todo' = {a \in Addresses : table[a] # None}
  /\ UNCHANGED <<table, tokens, seen, requestVars, timer, victim, meter, crossed, split>>

\* now.Sub(entry.lastSeen) > 10*time.Minute
Expired(e) == seen[e] > Idle + lapse

\* Mutant of Visit: the function given to Range returns false.
VisitOne(a) ==
  /\ sweeping /\ victim = None /\ a \in todo /\ todo' = {}
  /\ victim' = IF Expired(table[a]) THEN a ELSE None
  /\ UNCHANGED <<table, tokens, seen, requestVars, timer, pending, sweeping, lapse, meter, crossed, split>>

\* Range calls its function for one address, which finds the entry idle or not.
Visit(a) ==
  /\ sweeping /\ victim = None /\ a \in todo
  /\ todo' = todo \ {a}
  /\ \/ /\ Expired(table[a]) /\ victim' = a
        /\ crossed' = \E r \in Requests : ip[r] = a
     \/ ~Expired(table[a]) /\ UNCHANGED <<victim, crossed>>
  /\ UNCHANGED <<table, tokens, seen, requestVars, timer, pending, sweeping, lapse, meter, split>>

Delete ==
  /\ victim # None /\ victim' = None
  /\ table' = [table EXCEPT ![victim] = None]
  /\ split' = IF crossed THEN split \cup {victim} ELSE split
  /\ crossed' = FALSE
  /\ UNCHANGED <<tokens, seen, requestVars, timer, pending, sweeping, todo, lapse, meter>>

SweepEnd ==
  /\ sweeping /\ todo = {} /\ victim = None
  /\ sweeping' = FALSE /\ lapse' = 0
  /\ UNCHANGED <<table, tokens, seen, requestVars, timer, pending, todo, victim, meter, crossed, split>>

-----------------------------------------------------------------------------
\* A tick: buckets fill, the ticker may fire.  Requests are through within a tick,
\* a sweep begins within one and ends within MaxLapse.
Tick ==
  /\ \A r \in Requests : pc[r] = "idle"
  /\ ~(pending /\ ~sweeping)
  /\ sweeping => lapse < MaxLapse
  /\ tokens' = [e \in Entry |-> Min({tokens[e] + Rate, Burst})]
  /\ seen' = [e \in Entry |-> IF e \in InUse THEN Min({seen[e] + 1, Forgotten}) ELSE 0]
  /\ timer' = IF timer = 1 THEN Period ELSE timer - 1
  /\ pending' = (pending \/ timer = 1)
  /\ lapse' = IF sweeping THEN lapse + 1 ELSE 0
  /\ meter' = [a \in Addresses |-> IF meter[a] > Rate THEN meter[a] - Rate ELSE 0]
  /\ split' = {a \in split : meter[a] > Rate}
  /\ UNCHANGED <<table, requestVars, sweeping, todo, victim, crossed>>

Next ==
  \/ \E r \in Requests : Touch(r) \/ Allow(r) \/ \E a \in Addresses : LoadOrStore(r, a)
  \/ SweepStart \/ Delete \/ SweepEnd \/ Tick \/ \E a \in Addresses : Visit(a)

Spec == Init /\ [][Next]_vars

-----------------------------------------------------------------------------
(* Properties *)

\* Deleting buckets lets no address exceed its rate and burst, but for one whose
\* bucket is deleted between LoadOrStore and the update of lastSeen: a second, full
\* bucket doubles its burst, until it has been quiet.
BurstBound ==
  \A a \in Addresses : meter[a] <= IF a \in split THEN 2 * Burst ELSE Burst

\* The table does not keep addresses that are no longer heard of: an entry goes in
\* the first sweep that begins more than Idle after its last request.
NoLeak ==
  \A a \in Addresses : table[a] # None => seen[table[a]] <= Idle + Period + MaxLapse
================================================================================
