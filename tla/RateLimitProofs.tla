----------------------------- MODULE RateLimitProofs -----------------------------
(***************************************************************************)
(* Type correctness of RateLimit, that idle buckets go, and that an        *)
(* address does not exceed its burst, for any number of addresses and      *)
(* requests and any rate, burst and periods.                               *)
(***************************************************************************)

EXTENDS RateLimit, FiniteSetTheorems, TLAPS

-----------------------------------------------------------------------------
(* The first invariant: types, and how long ago a bucket was used *)

\* A sweep ends before the ticker fires again, and begins in the tick in which it
\* fires, so the ticker tells how long a sweep has been under way.
Clock ==
  /\ sweeping => ~pending /\ lapse = Period - timer
  /\ ~sweeping => lapse = 0
  /\ pending => timer = Period

\* The sweep under way has not come to the entry of a, or is about to delete it.
Due(a) == sweeping /\ (a \in todo \/ victim = a)

\* The last sweep to look at an entry found it used Idle before its clock, or later.
Ages ==
  \A a \in Addresses : table[a] # None =>
    seen[table[a]] <= IF Due(a) THEN Idle + Period + lapse
                      ELSE IF pending THEN Idle + Period ELSE Idle + Period - timer

IInv == TypeOK /\ Clock /\ Ages

\* TypeOK has two parts, which need different provers: the flags, and the rest.
Flags == pending \in BOOLEAN /\ sweeping \in BOOLEAN /\ crossed \in BOOLEAN

Types ==
  /\ table \in [Addresses -> Entry \cup {None}]
  /\ \A a, b \in Addresses : table[a] = table[b] /\ table[a] # None => a = b
  /\ tokens \in [Entry -> 0 .. Burst]
  /\ seen \in [Entry -> 0 .. Forgotten]
  /\ pc \in [Requests -> {"idle", "touch", "allow"}]
  /\ ip \in [Requests -> Addresses \cup {None}]
  /\ held \in [Requests -> Entry \cup {None}]
  /\ \A r \in Requests : pc[r] # "idle" => held[r] # None /\ ip[r] # None
  /\ timer \in 1 .. Period
  /\ todo \subseteq Addresses /\ victim \in Addresses \cup {None}
  /\ lapse \in 0 .. MaxLapse
  /\ meter \in [Addresses -> Nat]
  /\ split \subseteq Addresses

-----------------------------------------------------------------------------
(* Lemmas on the operators *)

\* There are as many entries as addresses and requests together, so one that is
\* neither in the table nor held by a request can be found for an address that
\* has none.
LEMMA FreshEntry ==
  ASSUME Types, NEW a \in Addresses, table[a] = None
  PROVE  Fresh \in Entry \ InUse
<1> DEFINE T == {table[b] : b \in Addresses}
           H == {held[r] : r \in Requests}
<1>1. IsFiniteSet(T) /\ Cardinality(T) <= Cardinality(Addresses)
  <2>1. table \in Surjection(Addresses, T)
    BY DEF Types, Surjection
  <2> QED
    BY <2>1, RateAssumption, FS_Surjection DEF RateAssumption
<1>2. IsFiniteSet(H) /\ Cardinality(H) <= Cardinality(Requests)
  <2>1. held \in Surjection(Requests, H)
    BY DEF Types, Surjection
  <2> QED
    BY <2>1, RateAssumption, FS_Surjection DEF RateAssumption
<1>3. {Cardinality(Addresses), Cardinality(Requests), Cardinality(T), Cardinality(H)} \subseteq Nat
  BY <1>1, <1>2, RateAssumption, FS_CardinalityType DEF RateAssumption
<1>4. IsFiniteSet(T \cup H)
  BY <1>1, <1>2, FS_Union
<1>5. Cardinality(T \cup H) <= Cardinality(Addresses) + Cardinality(Requests)
  <2>1. IsFiniteSet(T \cap H) /\ Cardinality(T \cap H) \in Nat
    BY <1>1, FS_Subset, FS_CardinalityType
  <2>2. Cardinality(T \cup H) = Cardinality(T) + Cardinality(H) - Cardinality(T \cap H)
    BY <1>1, <1>2, FS_Union
  <2> QED
    BY <1>1, <1>2, <1>3, <2>1, <2>2
<1>6. /\ IsFiniteSet((T \cup H) \ {None})
      /\ Cardinality((T \cup H) \ {None}) = Cardinality(T \cup H) - 1
  <2>1. None \in T
    OBVIOUS
  <2> QED
    BY <1>4, <2>1, FS_RemoveElement
<1>7. Cardinality(Entry) = Cardinality(Addresses) + Cardinality(Requests)
  BY <1>3, FS_Interval DEF Entry
<1>8. Cardinality(T \cup H) \in Nat
  BY <1>4, FS_CardinalityType
<1>9. ~(Entry \subseteq InUse)
  <2> SUFFICES ASSUME Entry \subseteq InUse
               PROVE  FALSE
    OBVIOUS
  <2>1. Entry \subseteq (T \cup H) \ {None}
    BY RateAssumption DEF RateAssumption, InUse
  <2>2. Cardinality(Entry) <= Cardinality((T \cup H) \ {None})
    BY <1>6, <2>1, FS_Subset
  <2> QED
    BY <1>3, <1>5, <1>6, <1>7, <1>8, <2>2
<1> QED
  BY <1>9 DEF Fresh

\* The lesser of two.
LEMMA MinTwo ==
  ASSUME NEW m \in Int, NEW n \in Int
  PROVE  Min({m, n}) = IF m <= n THEN m ELSE n
<1> DEFINE x == IF m <= n THEN m ELSE n
<1>1. x \in {m, n} /\ \A y \in {m, n} : x <= y
  OBVIOUS
<1>2. \A z \in {m, n} : (\A y \in {m, n} : z <= y) => z = x
  OBVIOUS
<1> QED
  BY <1>1, <1>2 DEF Min

-----------------------------------------------------------------------------
(* The initial state, and the kinds of steps *)

LEMMA InitIInv == Init => IInv
<1> USE RateAssumption DEF RateAssumption
<1> SUFFICES ASSUME Init
             PROVE  IInv
  OBVIOUS
<1>1. Types
  BY DEF Init, Types, Forgotten
<1>2. Flags
  BY Zenon DEF Init, Flags
<1>3. Clock /\ Ages
  BY DEF Init, Clock, Ages
<1> QED
  BY <1>1, <1>2, <1>3 DEF IInv, TypeOK, Types, Flags

RequestStep(r) == Touch(r) \/ Allow(r) \/ \E a \in Addresses : LoadOrStore(r, a)
SweepStep == SweepStart \/ Delete \/ SweepEnd \/ \E a \in Addresses : Visit(a)

LEMMA Steps ==
  [Next]_vars => (\E r \in Requests : RequestStep(r)) \/ SweepStep \/ Tick \/ UNCHANGED vars
BY DEF Next, RequestStep, SweepStep

-----------------------------------------------------------------------------
(* Requests *)

LEMMA LoadKeeps ==
  ASSUME IInv, NEW r \in Requests, NEW a \in Addresses, LoadOrStore(r, a)
  PROVE  IInv'
<1> USE RateAssumption DEF RateAssumption
<1>1. Types /\ Flags
  BY DEF IInv, TypeOK, Types, Flags
<1>2. UNCHANGED <<timer, pending, sweeping, todo, victim, lapse, meter, split>>
  BY DEF LoadOrStore, cleanerVars
<1>3. CASE table[a] # None
  <2>1. UNCHANGED <<table, tokens, seen>> /\ held' = [held EXCEPT ![r] = table[a]]
    BY <1>3 DEF LoadOrStore
  <2>2. Types'
    BY <1>1, <1>2, <1>3, <2>1 DEF LoadOrStore, Types
  <2>3. Clock' /\ Ages'
    BY <1>2, <2>1 DEF IInv, Clock, Ages, Due
  <2>4. Flags'
    BY <1>1, <1>2, Zenon DEF LoadOrStore, Flags
  <2> QED
    BY <2>2, <2>3, <2>4 DEF IInv, TypeOK, Types, Flags
<1>4. CASE table[a] = None
  <2>1. /\ table' = [table EXCEPT ![a] = Fresh] /\ held' = [held EXCEPT ![r] = Fresh]
        /\ tokens' = [tokens EXCEPT ![Fresh] = Burst] /\ seen' = [seen EXCEPT ![Fresh] = 0]
    BY <1>4 DEF LoadOrStore
  <2>2. Fresh \in Entry /\ \A b \in Addresses : table[b] # Fresh
    BY <1>1, <1>4, FreshEntry DEF InUse
  <2>3. Types'
    BY <1>1, <1>2, <2>1, <2>2 DEF LoadOrStore, Types, Forgotten
  <2>4. Clock'
    BY <1>2 DEF IInv, Clock
  <2>5. Ages'
    BY <1>1, <1>2, <2>1, <2>2 DEF IInv, Types, Ages, Due
  <2>6. Flags'
    BY <1>1, <1>2, Zenon DEF LoadOrStore, Flags
  <2> QED
    BY <2>3, <2>4, <2>5, <2>6 DEF IInv, TypeOK, Types, Flags
<1> QED
  BY <1>3, <1>4

LEMMA RequestKeeps ==
  ASSUME IInv, NEW r \in Requests, RequestStep(r)
  PROVE  IInv'
<1> USE RateAssumption DEF RateAssumption
<1>1. CASE Touch(r)
  <2>1. TypeOK'
    BY <1>1 DEF IInv, TypeOK, Touch, cleanerVars, Forgotten
  <2>2. Clock' /\ Ages'
    BY <1>1 DEF IInv, TypeOK, Clock, Ages, Due, Touch, cleanerVars
  <2> QED
    BY <2>1, <2>2 DEF IInv
<1>2. CASE Allow(r)
  <2>1. TypeOK'
    BY <1>2 DEF IInv, TypeOK, Allow, cleanerVars
  <2>2. Clock' /\ Ages'
    BY <1>2 DEF IInv, Clock, Ages, Due, Allow, cleanerVars
  <2> QED
    BY <2>1, <2>2 DEF IInv
<1> QED
  BY <1>1, <1>2, LoadKeeps DEF RequestStep

-----------------------------------------------------------------------------
(* The cleaner *)

LEMMA SweepKeeps == IInv /\ SweepStep => IInv'
<1> USE RateAssumption DEF RateAssumption
<1> SUFFICES ASSUME IInv, SweepStep
             PROVE  IInv'
  OBVIOUS
<1>1. Types /\ Flags
  BY DEF IInv, TypeOK, Types, Flags
<1>2. CASE SweepStart
  <2>1. Types'
    BY <1>1, <1>2 DEF Types, SweepStart, requestVars
  <2>2. Flags'
    BY <1>1, <1>2 DEF Flags, SweepStart
  <2>3. Clock' /\ Ages'
    BY <1>1, <1>2 DEF IInv, Types, Clock, Ages, Due, SweepStart
  <2> QED
    BY <2>1, <2>2, <2>3 DEF IInv, TypeOK, Types, Flags
<1>3. ASSUME NEW a \in Addresses, Visit(a)
      PROVE  IInv'
  <2>1. Types'
    BY <1>1, <1>3 DEF Types, Visit, requestVars
  <2>2. Flags'
    <3>1. crossed' \in BOOLEAN
      BY <1>1, <1>3, Zenon DEF Flags, Visit
    <3> QED
      BY <1>1, <1>3, <3>1 DEF Flags, Visit
  <2>3. Clock'
    BY <1>3 DEF IInv, Clock, Visit
  <2>4. Ages'
    <3> SUFFICES ASSUME NEW b \in Addresses, table[b] # None
                 PROVE  seen[table[b]] <= IF Due(b)' THEN Idle + Period + lapse
                                          ELSE IF pending THEN Idle + Period ELSE Idle + Period - timer
      BY <1>3 DEF Ages, Visit
    <3>1. ~pending /\ lapse = Period - timer /\ sweeping' = sweeping
      BY <1>3 DEF IInv, Clock, Visit
    <3>2. sweeping /\ victim = None /\ a \in todo /\ todo' = todo \ {a}
      BY <1>3 DEF Visit
    <3>3. seen[table[b]] \in Nat /\ {timer, lapse} \subseteq Int
      BY <1>1 DEF Types, Forgotten
    <3>4. CASE b = a /\ Expired(table[a])
      <4>1. victim' = a
        BY <1>3, <3>4 DEF Visit
      <4> QED
        BY <3>1, <3>4, <3>2, <4>1 DEF IInv, Ages, Due
    <3>5. CASE b = a /\ ~Expired(table[a])
      BY <3>1, <3>5, <3>3 DEF Expired
    <3>6. CASE b # a
      <4>1. victim' \in {None, a}
        BY <1>3, <3>2 DEF Visit
      <4>2. Due(b)' <=> Due(b)
        BY <3>1, <3>6, <3>2, <4>1 DEF Due
      <4> QED
        BY <3>1, <4>2 DEF IInv, Ages
    <3> QED
      BY <3>4, <3>5, <3>6
  <2> QED
    BY <2>1, <2>2, <2>3, <2>4 DEF IInv, TypeOK, Types, Flags
<1>4. CASE Delete
  <2>1. TypeOK'
    BY <1>1, <1>4 DEF TypeOK, Types, Flags, Delete, requestVars
  <2>2. Clock' /\ Ages'
    BY <1>1, <1>4 DEF IInv, Types, Clock, Ages, Due, Delete
  <2> QED
    BY <2>1, <2>2 DEF IInv
<1>5. CASE SweepEnd
  <2>1. Types'
    BY <1>1, <1>5 DEF Types, SweepEnd, requestVars
  <2>2. Flags'
    BY <1>1, <1>5 DEF Flags, SweepEnd
  <2>3. Clock' /\ Ages'
    BY <1>1, <1>5 DEF IInv, Types, Clock, Ages, Due, SweepEnd
  <2> QED
    BY <2>1, <2>2, <2>3 DEF IInv, TypeOK, Types, Flags
<1> QED
  BY <1>2, <1>3, <1>4, <1>5 DEF SweepStep

-----------------------------------------------------------------------------
(* Time *)

LEMMA TickKeeps == IInv /\ Tick => IInv'
<1> USE RateAssumption DEF RateAssumption
<1> SUFFICES ASSUME IInv, Tick
             PROVE  IInv'
  OBVIOUS
<1>1. Types /\ Flags
  BY DEF IInv, TypeOK, Types, Flags
<1>2. /\ tokens' \in [Entry -> 0 .. Burst]
      /\ seen' \in [Entry -> 0 .. Forgotten]
      /\ \A e \in Entry : seen'[e] <= seen[e] + 1
  <2>1. \A e \in Entry : Min({tokens[e] + Rate, Burst}) \in 0 .. Burst
    BY <1>1, MinTwo DEF Types
  <2>2. \A e \in Entry : /\ Min({seen[e] + 1, Forgotten}) \in 0 .. Forgotten
                          /\ Min({seen[e] + 1, Forgotten}) <= seen[e] + 1
    BY <1>1, MinTwo DEF Types, Forgotten
  <2> QED
    BY <1>1, <2>1, <2>2 DEF Tick, Types, Forgotten
<1>3. Types'
  <2>1. meter' \in [Addresses -> Nat] /\ split' \subseteq Addresses
    BY <1>1 DEF Tick, Types
  <2>2. timer' \in 1 .. Period /\ lapse' \in 0 .. MaxLapse
    BY <1>1 DEF Tick, Types
  <2> QED
    BY <1>1, <1>2, <2>1, <2>2 DEF Tick, Types, requestVars
<1>4. Flags'
  <2>1. pending' \in BOOLEAN
    BY Zenon DEF Tick
  <2> QED
    BY <1>1, <2>1 DEF Tick, Flags
<1>5. /\ sweeping => timer # 1 /\ ~pending' /\ lapse' = Period - timer'
      /\ ~pending /\ (pending' <=> timer = 1)
  <2>1. ~pending
    BY DEF IInv, Clock, Tick
  <2>2. pending' <=> timer = 1
    BY <2>1 DEF Tick
  <2>3. ASSUME sweeping
        PROVE  timer # 1 /\ lapse' = Period - timer'
    <3>1. lapse = Period - timer /\ lapse < MaxLapse /\ lapse' = lapse + 1
      BY <2>3 DEF IInv, Clock, Tick
    <3>2. timer \in Int /\ lapse \in Int
      BY <1>1 DEF Types
    <3>3. timer # 1
      BY <3>1, <3>2
    <3>4. timer' = timer - 1
      BY <3>3 DEF Tick
    <3> QED
      BY <3>1, <3>2, <3>3, <3>4
  <2> QED
    BY <2>1, <2>2, <2>3
<1>6. Clock'
  BY <1>1, <1>5 DEF Types, Clock, Tick
<1>7. Ages'
  BY <1>1, <1>2, <1>5 DEF IInv, Types, Clock, Ages, Due, Tick
<1> QED
  BY <1>3, <1>4, <1>6, <1>7 DEF IInv, TypeOK, Types, Flags

LEMMA NextIInv == IInv /\ [Next]_vars => IInv'
<1>1. IInv /\ UNCHANGED vars => IInv'
  BY DEF IInv, TypeOK, Clock, Ages, Due, vars, requestVars, cleanerVars
<1> QED
  BY <1>1, Steps, RequestKeeps, SweepKeeps, TickKeeps

-----------------------------------------------------------------------------
(* The second invariant: what a bucket may still give its address *)

\* A sweep goes through addresses that have an entry, to each of them once.
Listed ==
  /\ \A a \in todo : table[a] # None /\ victim # a
  /\ victim # None => sweeping /\ table[victim] # None

\* A bucket serves one address, and counts as just used before it is used.
Holding ==
  /\ \A r \in Requests : ip[r] = None <=> held[r] = None
  /\ \A r \in Requests : pc[r] = "idle" => held[r] = None
  /\ \A r, s \in Requests : held[r] = held[s] => ip[r] = ip[s]
  /\ \A r \in Requests, a \in Addresses : held[r] = table[a] /\ held[r] # None => ip[r] = a
  /\ \A r \in Requests : pc[r] = "allow" => seen[held[r]] = 0

\* The request goes on with a bucket that its address has lost.
Stray(r) == ip[r] # None /\ held[r] # table[ip[r]]

\* Such a bucket is one at most, since the bucket that has taken its place is too
\* new to be deleted before the tick is over and with it the requests.
Strays ==
  /\ \A r \in Requests : Stray(r) =>
       /\ ip[r] \in split /\ victim # ip[r]
       /\ table[ip[r]] # None => seen[table[ip[r]]] = 0
  /\ \A r, s \in Requests : Stray(r) /\ Stray(s) /\ ip[r] = ip[s] => held[r] = held[s]

\* An address that is found idle, and has not been heard of since, owes nothing.
Crossing ==
  victim # None /\ ~crossed => meter[victim] = 0 /\ \A r \in Requests : ip[r] # victim

\* What the next request of the address finds in its bucket, which may be a new one.
Live(a) == IF table[a] = None THEN Burst ELSE tokens[table[a]]

\* What an address has had and what its buckets still hold.
Budget ==
  /\ \A a \in Addresses :
       meter[a] + Live(a) <= IF a \in split /\ victim # a THEN 2 * Burst ELSE Burst
  /\ \A r \in Requests : Stray(r) => meter[ip[r]] + Live(ip[r]) + tokens[held[r]] <= 2 * Burst

\* The meter of an address runs down while its bucket is not used.
Quiet ==
  \A a \in Addresses :
    table[a] # None /\ meter[a] > 0 => meter[a] + Rate * seen[table[a]] <= 2 * Burst

Bounds == Listed /\ Holding /\ Strays /\ Crossing /\ Budget /\ Quiet

-----------------------------------------------------------------------------
(* The second invariant holds initially *)

LEMMA Parameters ==
  /\ {Rate, Burst, Idle} \subseteq Nat \ {0} /\ Idle * Rate >= 2 * Burst
  /\ None \notin Addresses \cup Entry
BY RateAssumption DEF RateAssumption

\* A bucket that counts as idle has outlasted everything its address was admitted.
LEMMA IdleIsQuiet ==
  ASSUME Types, Quiet, NEW a \in Addresses, table[a] # None, Expired(table[a])
  PROVE  meter[a] = 0
<1>1. table[a] \in Entry /\ seen[table[a]] \in Nat /\ lapse \in Nat /\ meter[a] \in Nat
  BY RateAssumption DEF RateAssumption, Types, Forgotten
<1>2. PICK d \in Nat \ {0} : seen[table[a]] = Idle + d
  <2>1. seen[table[a]] - Idle \in Nat \ {0}
    BY <1>1, Parameters DEF Expired
  <2> QED
    BY <1>1, <2>1, Parameters
<1>3. Rate * seen[table[a]] = Idle * Rate + Rate * d /\ Rate * d \in Nat /\ Idle * Rate \in Nat
  BY <1>2, Parameters
<1> DEFINE x == Rate * seen[table[a]]
<1>4. x >= 2 * Burst /\ x \in Nat
  BY <1>3, Parameters
<1> QED
  BY <1>1, <1>4, Parameters DEF Quiet

LEMMA InitBounds == Init => Bounds
<1> SUFFICES ASSUME Init
             PROVE  Bounds
  OBVIOUS
<1>1. Listed /\ Holding /\ Strays /\ Crossing
  BY Parameters DEF Init, Listed, Holding, Strays, Stray, Crossing
<1>2. Budget /\ Quiet
  BY Parameters DEF Init, Budget, Quiet, Live, Stray
<1> QED
  BY <1>1, <1>2 DEF Bounds

-----------------------------------------------------------------------------
(* The second invariant: requests *)

LEMMA LoadBounds ==
  ASSUME IInv, Bounds, NEW r \in Requests, NEW a \in Addresses, LoadOrStore(r, a)
  PROVE  Bounds'
<1>1. Types
  BY DEF IInv, TypeOK, Types
<1>2. UNCHANGED <<sweeping, todo, victim, meter, split>>
  BY DEF LoadOrStore, cleanerVars
<1>3. /\ pc[r] = "idle" /\ held[r] = None /\ ip[r] = None
      /\ pc' = [pc EXCEPT ![r] = "touch"] /\ ip' = [ip EXCEPT ![r] = a]
      /\ crossed' = (crossed \/ victim = a)
  BY DEF Bounds, Holding, LoadOrStore
<1>4. CASE table[a] # None
  <2>1. UNCHANGED <<table, tokens, seen>> /\ held' = [held EXCEPT ![r] = table[a]]
    BY <1>4 DEF LoadOrStore
  <2>2. Listed'
    BY <1>2, <2>1 DEF Bounds, Listed
  <2>3. Holding'
    BY <1>1, <1>3, <1>4, <2>1, Parameters DEF Bounds, Holding, Types
  <2>4. \A s \in Requests : Stray(s)' => Stray(s) /\ ip'[s] = ip[s] /\ held'[s] = held[s]
    BY <1>1, <1>3, <2>1 DEF Stray, Types
  <2>5. Strays'
    BY <1>2, <2>1, <2>4 DEF Bounds, Strays
  <2>6. Crossing'
    BY <1>1, <1>2, <1>3 DEF Bounds, Crossing, Types
  <2>7. Budget'
    BY <1>2, <2>1, <2>4 DEF Bounds, Budget, Live
  <2>8. Quiet'
    BY <1>2, <2>1 DEF Bounds, Quiet
  <2> QED
    BY <2>2, <2>3, <2>5, <2>6, <2>7, <2>8 DEF Bounds
<1>5. CASE table[a] = None
  <2>1. /\ table' = [table EXCEPT ![a] = Fresh] /\ held' = [held EXCEPT ![r] = Fresh]
        /\ tokens' = [tokens EXCEPT ![Fresh] = Burst] /\ seen' = [seen EXCEPT ![Fresh] = 0]
    BY <1>5 DEF LoadOrStore
  <2>2. /\ Fresh \in Entry /\ Fresh # None
        /\ \A b \in Addresses : table[b] # Fresh
        /\ \A s \in Requests : held[s] # Fresh
    BY <1>1, <1>5, FreshEntry, Parameters DEF InUse
  <2>3. Listed'
    BY <1>1, <1>2, <2>1, <2>2 DEF Bounds, Listed, Types
  <2>4. Holding'
    <3>1. \A s \in Requests : ip'[s] = None <=> held'[s] = None
      BY <1>1, <1>3, <2>1, <2>2, Parameters DEF Bounds, Holding, Types
    <3>2. \A s \in Requests : pc'[s] = "idle" => held'[s] = None
      BY <1>1, <1>3, <2>1, <2>2 DEF Bounds, Holding, Types
    <3>3. \A s, t \in Requests : held'[s] = held'[t] => ip'[s] = ip'[t]
      BY <1>1, <1>3, <2>1, <2>2 DEF Bounds, Holding, Types
    <3>4. \A s \in Requests, b \in Addresses : held'[s] = table'[b] /\ held'[s] # None => ip'[s] = b
      BY <1>1, <1>3, <2>1, <2>2 DEF Bounds, Holding, Types
    <3>5. \A s \in Requests : pc'[s] = "allow" => seen'[held'[s]] = 0
      BY <1>1, <1>3, <2>1, <2>2 DEF Bounds, Holding, Types
    <3> QED
      BY <3>1, <3>2, <3>3, <3>4, <3>5 DEF Holding
  <2>5. \A s \in Requests : Stray(s)' =>
          Stray(s) /\ ip'[s] = ip[s] /\ held'[s] = held[s] /\ held[s] # Fresh /\ ip[s] \in Addresses
    <3> SUFFICES ASSUME NEW s \in Requests, Stray(s)'
                 PROVE  /\ Stray(s) /\ ip'[s] = ip[s] /\ held'[s] = held[s]
                        /\ held[s] # Fresh /\ ip[s] \in Addresses
      OBVIOUS
    <3>1. s # r
      BY <1>1, <1>3, <2>1 DEF Stray, Types
    <3>2. ip'[s] = ip[s] /\ held'[s] = held[s] /\ held[s] # Fresh
      BY <1>1, <1>3, <2>1, <2>2, <3>1 DEF Types
    <3>3. ip[s] \in Addresses /\ held[s] # None /\ held[s] # table'[ip[s]]
      BY <1>1, <3>2 DEF Bounds, Holding, Stray, Types
    <3>4. held[s] # table[ip[s]]
      BY <1>1, <1>5, <2>1, <3>3 DEF Types
    <3> QED
      BY <3>2, <3>3, <3>4, Parameters DEF Stray
  <2>6. Strays'
    BY <1>1, <1>2, <2>1, <2>2, <2>5 DEF Bounds, Strays, Types
  <2>7. Crossing'
    BY <1>1, <1>2, <1>3 DEF Bounds, Crossing, Types
  <2>8. \A b \in Addresses : Live(b)' = Live(b)
    BY <1>1, <1>5, <2>1, <2>2 DEF Live, Types
  <2>9. \A s \in Requests : Stray(s)' => tokens'[held'[s]] = tokens[held[s]]
    BY <1>1, <2>1, <2>5 DEF Types
  <2>10. Budget'
    BY <1>2, <2>5, <2>8, <2>9 DEF Bounds, Budget
  <2>11. Quiet'
    <3> SUFFICES ASSUME NEW b \in Addresses, table'[b] # None, meter[b] > 0
                 PROVE  meter[b] + Rate * seen'[table'[b]] <= 2 * Burst
      BY <1>2 DEF Quiet
    <3>1. CASE b = a
      <4>1. meter[a] + Live(a) <= 2 * Burst /\ Live(a) = Burst
        BY <1>1, <1>5, Parameters DEF Bounds, Budget, Live, Types
      <4>2. seen'[table'[b]] = 0
        BY <1>1, <2>1, <2>2, <3>1 DEF Types
      <4> QED
        BY <1>1, <3>1, <4>1, <4>2, Parameters DEF Types
    <3>2. CASE b # a
      <4>1. table'[b] = table[b] /\ seen'[table'[b]] = seen[table[b]]
        BY <1>1, <2>1, <2>2, <3>2 DEF Types
      <4> QED
        BY <4>1 DEF Bounds, Quiet
    <3> QED
      BY <3>1, <3>2
  <2> QED
    BY <2>3, <2>4, <2>6, <2>7, <2>10, <2>11 DEF Bounds
<1> QED
  BY <1>4, <1>5

LEMMA TouchBounds ==
  ASSUME IInv, Bounds, NEW r \in Requests, Touch(r)
  PROVE  Bounds'
<1>1. Types
  BY DEF IInv, TypeOK, Types
<1>2. UNCHANGED <<table, tokens, ip, held, sweeping, todo, victim, meter, crossed, split>>
  BY DEF Touch, cleanerVars
<1>3. /\ pc[r] = "touch" /\ pc' = [pc EXCEPT ![r] = "allow"]
      /\ seen' = [seen EXCEPT ![held[r]] = 0] /\ held[r] \in Entry
  BY <1>1, Parameters DEF Touch, Types
<1>4. \A e \in Entry : seen'[e] \in {seen[e], 0}
  BY <1>1, <1>3 DEF Types
<1>5. \A s \in Requests : Stray(s)' <=> Stray(s)
  BY <1>2 DEF Stray
<1>6. Listed' /\ Crossing'
  BY <1>2 DEF Bounds, Listed, Crossing
<1>7. Holding'
  <2>1. \A s \in Requests : pc'[s] = "allow" => seen'[held'[s]] = 0
    BY <1>1, <1>2, <1>3, <1>4, Parameters DEF Bounds, Holding, Types
  <2> QED
    BY <1>1, <1>2, <1>3, <2>1 DEF Bounds, Holding, Types
<1>8. Strays'
  <2>1. \A s \in Requests : Stray(s) /\ table[ip[s]] # None => table[ip[s]] \in Entry
    BY <1>1 DEF Stray, Types
  <2> QED
    BY <1>2, <1>4, <1>5, <2>1 DEF Bounds, Strays
<1>9. Budget'
  BY <1>2, <1>5 DEF Bounds, Budget, Live
<1>10. Quiet'
  <2> SUFFICES ASSUME NEW b \in Addresses, table[b] # None, meter[b] > 0
               PROVE  meter[b] + Rate * seen'[table[b]] <= 2 * Burst
    BY <1>2 DEF Quiet
  <2>1. table[b] \in Entry /\ meter[b] \in Nat /\ Live(b) \in Nat
    BY <1>1, Parameters DEF Types, Live
  <2>2. CASE seen'[table[b]] = 0
    <3>1. meter[b] + Live(b) <= 2 * Burst
      BY <2>1, Parameters DEF Bounds, Budget
    <3> QED
      BY <2>1, <2>2, <3>1, Parameters
  <2>3. CASE seen'[table[b]] = seen[table[b]]
    BY <2>3 DEF Bounds, Quiet
  <2> QED
    BY <1>4, <2>1, <2>2, <2>3
<1> QED
  BY <1>6, <1>7, <1>8, <1>9, <1>10 DEF Bounds

LEMMA AllowBounds ==
  ASSUME IInv, Bounds, NEW r \in Requests, Allow(r)
  PROVE  Bounds'
<1>1. Types
  BY DEF IInv, TypeOK, Types
<1>2. UNCHANGED <<table, seen, sweeping, todo, victim, crossed, split>>
  BY DEF Allow, cleanerVars
<1> PICK a \in Addresses, e \in Entry : a = ip[r] /\ e = held[r]
  BY <1>1 DEF Allow, Types
<1>3. /\ pc[r] = "allow" /\ pc' = [pc EXCEPT ![r] = "idle"]
      /\ ip' = [ip EXCEPT ![r] = None] /\ held' = [held EXCEPT ![r] = None]
      /\ ip[r] = a /\ held[r] = e /\ a # None /\ e # None
  BY Parameters DEF Allow
<1>4. PICK d \in {0, 1} : /\ tokens[e] >= d
                          /\ tokens' = [tokens EXCEPT ![e] = @ - d]
                          /\ meter' = [meter EXCEPT ![a] = @ + d]
  <2>1. CASE tokens[e] > 0 /\ tokens' = [tokens EXCEPT ![e] = @ - 1]
                           /\ meter' = [meter EXCEPT ![a] = @ + 1]
    <3>1. tokens[e] >= 1
      BY <1>1, <2>1, Parameters DEF Types
    <3> QED
      BY <2>1, <3>1
  <2>2. CASE tokens[e] = 0 /\ UNCHANGED <<tokens, meter>>
    <3>1. tokens' = [tokens EXCEPT ![e] = @ - 0] /\ meter' = [meter EXCEPT ![a] = @ + 0]
      BY <1>1, <1>3, <2>2 DEF Types
    <3> QED
      BY <2>2, <3>1, tokens[e] >= 0
  <2> QED
    BY <1>3, <2>1, <2>2 DEF Allow
<1>5. \A s \in Requests : Stray(s)' =>
        s # r /\ Stray(s) /\ ip'[s] = ip[s] /\ held'[s] = held[s]
  BY <1>1, <1>2, <1>3 DEF Stray, Types
<1>6. Listed'
  BY <1>2 DEF Bounds, Listed
<1>7. Holding'
  BY <1>1, <1>2, <1>3, Parameters DEF Bounds, Holding, Types
<1>8. Strays'
  BY <1>2, <1>5 DEF Bounds, Strays
<1>9. Crossing'
  <2> SUFFICES ASSUME victim # None, ~crossed
               PROVE  meter'[victim] = 0 /\ \A s \in Requests : ip'[s] # victim
    BY <1>2 DEF Crossing
  <2>1. meter[victim] = 0 /\ \A s \in Requests : ip[s] # victim
    BY DEF Bounds, Crossing
  <2>2. victim \in Addresses /\ victim # a
    BY <1>1, <2>1 DEF Types
  <2>3. meter'[victim] = 0
    BY <1>1, <1>4, <2>1, <2>2 DEF Types
  <2> QED
    BY <1>1, <1>3, <2>1, <2>3 DEF Types
<1>10. meter'[a] = meter[a] + d /\ \A b \in Addresses \ {a} : meter'[b] = meter[b]
  BY <1>1, <1>3, <1>4 DEF Types
<1>11. tokens'[e] = tokens[e] - d /\ \A x \in Entry \ {e} : tokens'[x] = tokens[x]
  BY <1>1, <1>3, <1>4 DEF Types
<1>12. \A b \in Addresses \ {a} : Live(b)' = Live(b)
  <2>1. \A b \in Addresses \ {a} : table[b] # e /\ table[b] \in Entry \cup {None}
    BY <1>1, <1>3 DEF Bounds, Holding, Types
  <2> QED
    BY <1>2, <1>11, <2>1 DEF Live
<1>13. /\ Stray(r) => Live(a)' = Live(a)
       /\ ~Stray(r) => table[a] = e /\ Live(a)' = Live(a) - d
  <2>1. CASE Stray(r)
    <3>1. table[a] # e /\ table[a] \in Entry \cup {None}
      BY <1>1, <1>3, <2>1 DEF Stray, Types
    <3> QED
      BY <1>2, <1>11, <2>1, <3>1 DEF Live
  <2>2. CASE ~Stray(r)
    <3>1. table[a] = e
      BY <1>3, <2>2 DEF Stray
    <3> QED
      BY <1>2, <1>3, <1>11, <2>2, <3>1 DEF Live
  <2> QED
    BY <2>1, <2>2
<1>14. \A b \in Addresses : meter[b] \in Nat /\ Live(b) \in Nat
  BY <1>1, Parameters DEF Types, Live
<1>15. \A x \in Entry : tokens[x] \in Nat
  BY <1>1, Parameters DEF Types
<1>16. \A b \in Addresses :
         meter'[b] + Live(b)' <= IF b \in split /\ victim # b THEN 2 * Burst ELSE Burst
  <2> SUFFICES ASSUME NEW b \in Addresses
               PROVE  meter'[b] + Live(b)' <= IF b \in split /\ victim # b THEN 2 * Burst ELSE Burst
    OBVIOUS
  <2>1. CASE b # a
    BY <1>10, <1>12, <2>1 DEF Bounds, Budget
  <2>2. CASE b = a /\ Stray(r)
    <3>1. a \in split /\ victim # a /\ meter[a] + Live(a) + tokens[e] <= 2 * Burst
      BY <2>2 DEF Bounds, Strays, Budget
    <3>2. meter'[a] + Live(a)' <= 2 * Burst
      BY <1>3, <1>4, <1>10, <1>13, <1>14, <1>15, <2>2, <3>1, Parameters
    <3> QED
      BY <2>2, <3>1, <3>2
  <2>3. CASE b = a /\ ~Stray(r)
    <3>1. meter'[b] + Live(b)' = meter[b] + Live(b)
      BY <1>3, <1>10, <1>13, <1>14, <2>3
    <3> QED
      BY <3>1 DEF Bounds, Budget
  <2> QED
    BY <2>1, <2>2, <2>3
<1>17. \A s \in Requests, b \in Addresses : Stray(s) /\ s # r /\ ip[s] = b =>
         meter'[b] + Live(b)' + tokens'[held[s]] <= 2 * Burst
  <2> SUFFICES ASSUME NEW s \in Requests, NEW b \in Addresses, Stray(s), s # r, ip[s] = b
               PROVE  meter'[b] + Live(b)' + tokens'[held[s]] <= 2 * Burst
    OBVIOUS
  <2>1. held[s] \in Entry /\ meter[b] + Live(b) + tokens[held[s]] <= 2 * Burst
    BY <1>1, Parameters DEF Bounds, Holding, Budget, Stray, Types
  <2>2. CASE b # a
    <3>1. held[s] # e
      BY <1>3, <2>2 DEF Bounds, Holding
    <3> QED
      BY <1>10, <1>11, <1>12, <2>1, <2>2, <3>1
  <2>3. CASE b = a /\ Stray(r)
    <3>1. held[s] = e
      BY <1>3, <2>3 DEF Bounds, Strays
    <3> QED
      BY <1>4, <1>10, <1>11, <1>13, <1>14, <1>15, <2>1, <2>3, <3>1, Parameters
  <2>4. CASE b = a /\ ~Stray(r)
    <3>1. held[s] # e
      BY <1>13, <2>4 DEF Stray
    <3> QED
      BY <1>4, <1>10, <1>11, <1>13, <1>14, <1>15, <2>1, <2>4, <3>1, Parameters
  <2> QED
    BY <2>2, <2>3, <2>4
<1>18. Budget'
  <2>1. \A s \in Requests : Stray(s)' => s # r /\ Stray(s) /\ ip'[s] = ip[s] /\ held'[s] = held[s]
                                         /\ ip[s] \in Addresses
    BY <1>1, <1>5 DEF Stray, Types
  <2> QED
    BY <1>2, <1>16, <1>17, <2>1 DEF Budget, Live
<1>19. Quiet'
  <2> SUFFICES ASSUME NEW b \in Addresses, table[b] # None, meter'[b] > 0
               PROVE  meter'[b] + Rate * seen[table[b]] <= 2 * Burst
    BY <1>2 DEF Quiet
  <2>1. CASE b # a
    BY <1>10, <2>1 DEF Bounds, Quiet
  <2>2. CASE b = a
    <3>1. seen[table[a]] = 0
      BY <1>3, <1>13, <2>2 DEF Bounds, Holding, Strays
    <3>2. meter'[a] + Live(a)' <= IF a \in split /\ victim # a THEN 2 * Burst ELSE Burst
      BY <1>16
    <3>3. meter'[a] \in Nat
      BY <1>4, <1>10, <1>14
    <3>4. Live(a)' \in Nat
      <4>1. CASE Stray(r)
        BY <1>13, <1>14, <4>1
      <4>2. CASE ~Stray(r)
        <5>1. Live(a) = tokens[e]
          BY <1>3, <1>13, <4>2 DEF Live
        <5> QED
          BY <1>4, <1>13, <1>14, <4>2, <5>1
      <4> QED
        BY <4>1, <4>2
    <3> QED
      BY <2>2, <3>1, <3>2, <3>3, <3>4, Parameters
  <2> QED
    BY <2>1, <2>2
<1> QED
  BY <1>6, <1>7, <1>8, <1>9, <1>18, <1>19 DEF Bounds

-----------------------------------------------------------------------------
(* The second invariant: the cleaner *)

LEMMA VisitBounds ==
  ASSUME IInv, Bounds, NEW a \in Addresses, Visit(a)
  PROVE  Bounds'
<1>1. Types
  BY DEF IInv, TypeOK, Types
<1>2. /\ UNCHANGED <<table, tokens, seen, pc, ip, held, sweeping, meter, split>>
      /\ sweeping /\ victim = None /\ a \in todo /\ todo' = todo \ {a}
  BY DEF Visit, requestVars
<1>3. table[a] # None /\ a # None
  BY <1>2, Parameters DEF Bounds, Listed
<1>4. Holding' /\ Quiet'
  BY <1>2 DEF Bounds, Holding, Quiet
<1>5. \A r \in Requests : Stray(r)' <=> Stray(r)
  BY <1>2 DEF Stray
<1>6. CASE Expired(table[a]) /\ victim' = a /\ crossed' = \E r \in Requests : ip[r] = a
  <2>1. meter[a] = 0
    BY <1>1, <1>3, <1>6, IdleIsQuiet DEF Bounds
  <2>2. seen[table[a]] # 0
    BY <1>1, <1>3, <1>6, Parameters DEF Expired, Types
  <2>3. Listed'
    BY <1>2, <1>3, <1>6 DEF Bounds, Listed
  <2>4. Strays'
    BY <1>2, <1>3, <1>5, <1>6, <2>2 DEF Bounds, Strays
  <2>5. Crossing'
    BY <1>2, <1>6, <2>1 DEF Crossing
  <2>6. \A b \in Addresses :
          meter[b] + Live(b) <= IF b \in split /\ victim' # b THEN 2 * Burst ELSE Burst
    <3>1. Live(a) \in 0 .. Burst
      BY <1>1, <1>3, Parameters DEF Types, Live
    <3> QED
      BY <1>2, <1>6, <2>1, <3>1, Parameters DEF Bounds, Budget
  <2>7. Budget'
    BY <1>2, <1>5, <2>6 DEF Bounds, Budget, Live
  <2> QED
    BY <1>4, <2>3, <2>4, <2>5, <2>7 DEF Bounds
<1>7. CASE UNCHANGED <<victim, crossed>>
  <2>1. Listed' /\ Crossing'
    BY <1>2, <1>7 DEF Bounds, Listed, Crossing
  <2>2. Strays'
    BY <1>2, <1>5, <1>7 DEF Bounds, Strays
  <2>3. Budget'
    BY <1>2, <1>5, <1>7 DEF Bounds, Budget, Live
  <2> QED
    BY <1>4, <2>1, <2>2, <2>3 DEF Bounds
<1> QED
  BY <1>6, <1>7, Zenon DEF Visit

LEMMA DeleteBounds == IInv /\ Bounds /\ Delete => Bounds'
<1> SUFFICES ASSUME IInv, Bounds, Delete
             PROVE  Bounds'
  OBVIOUS
<1>1. Types
  BY DEF IInv, TypeOK, Types
<1> PICK a \in Addresses : a = victim
  BY <1>1 DEF Delete, Types
<1>2. /\ UNCHANGED <<tokens, seen, pc, ip, held, sweeping, todo, meter>>
      /\ victim = a /\ a # None /\ table[a] # None /\ victim' = None
      /\ table' = [table EXCEPT ![a] = None]
      /\ split' = IF crossed THEN split \cup {a} ELSE split
  BY DEF Bounds, Listed, Delete, requestVars
<1>3. table'[a] = None /\ \A b \in Addresses \ {a} : table'[b] = table[b]
  BY <1>1, <1>2 DEF Types
<1>4. \A r \in Requests : ip[r] = a => ~Stray(r) /\ held[r] = table[a] /\ crossed
  BY <1>2 DEF Bounds, Strays, Stray, Crossing
<1>5. \A r \in Requests : Stray(r)' => ip[r] \in Addresses /\ (ip[r] # a => Stray(r))
  BY <1>1, <1>2, <1>3 DEF Stray, Types
<1>6. Listed'
  <2>1. todo \subseteq Addresses \ {a}
    BY <1>1, <1>2 DEF Bounds, Listed, Types
  <2> QED
    BY <1>2, <1>3, <2>1, Parameters DEF Bounds, Listed
<1>7. Holding'
  BY <1>2, <1>3 DEF Bounds, Holding
<1>8. Strays'
  <2>1. ASSUME NEW r \in Requests, Stray(r)'
        PROVE  ip[r] \in split' /\ (table'[ip[r]] # None => seen[table'[ip[r]]] = 0)
    BY <1>2, <1>3, <1>4, <1>5, <2>1 DEF Bounds, Strays
  <2>2. ASSUME NEW r \in Requests, NEW s \in Requests, Stray(r)', Stray(s)', ip[r] = ip[s]
        PROVE  held[r] = held[s]
    BY <1>4, <1>5, <2>2 DEF Bounds, Strays
  <2> QED
    BY <1>2, <1>5, <2>1, <2>2, Parameters DEF Strays
<1>9. Crossing'
  BY <1>2 DEF Crossing
<1>10. Live(a)' = Burst /\ \A b \in Addresses \ {a} : Live(b)' = Live(b)
  BY <1>2, <1>3 DEF Live
<1>11. /\ meter[a] + tokens[table[a]] <= Burst
       /\ meter[a] \in Nat /\ tokens[table[a]] \in Nat
  BY <1>1, <1>2, Parameters DEF Bounds, Budget, Live, Types
<1>12. \A b \in Addresses : meter[b] + Live(b)' <= IF b \in split' THEN 2 * Burst ELSE Burst
  <2> SUFFICES ASSUME NEW b \in Addresses
               PROVE  meter[b] + Live(b)' <= IF b \in split' THEN 2 * Burst ELSE Burst
    OBVIOUS
  <2>1. CASE b # a
    <3>1. b \in split' <=> b \in split
      BY <1>2, <2>1
    <3> QED
      BY <1>2, <1>10, <2>1, <3>1 DEF Bounds, Budget
  <2>2. CASE b = a /\ crossed
    BY <1>2, <1>10, <1>11, <2>2, Parameters
  <2>3. CASE b = a /\ ~crossed
    <3>1. meter[a] = 0
      BY <1>2, <2>3 DEF Bounds, Crossing
    <3> QED
      BY <1>10, <2>3, <3>1, Parameters
  <2> QED
    BY <2>1, <2>2, <2>3
<1>13. \A r \in Requests, b \in Addresses : Stray(r)' /\ ip[r] = b =>
         meter[b] + Live(b)' + tokens[held[r]] <= 2 * Burst
  <2> SUFFICES ASSUME NEW r \in Requests, NEW b \in Addresses, Stray(r)', ip[r] = b
               PROVE  meter[b] + Live(b)' + tokens[held[r]] <= 2 * Burst
    OBVIOUS
  <2>1. CASE b # a
    BY <1>5, <1>10, <2>1 DEF Bounds, Budget
  <2>2. CASE b = a
    <3>1. held[r] = table[a]
      BY <1>4, <2>2
    <3> QED
      BY <1>10, <1>11, <2>2, <3>1, Parameters
  <2> QED
    BY <2>1, <2>2
<1>14. Budget'
  BY <1>2, <1>5, <1>12, <1>13, Parameters DEF Budget, Live
<1>15. Quiet'
  BY <1>2, <1>3 DEF Bounds, Quiet
<1> QED
  BY <1>6, <1>7, <1>8, <1>9, <1>14, <1>15 DEF Bounds

LEMMA SweepBounds == IInv /\ Bounds /\ SweepStep => Bounds'
<1> SUFFICES ASSUME IInv, Bounds, SweepStep
             PROVE  Bounds'
  OBVIOUS
<1>1. ASSUME SweepStart \/ SweepEnd
      PROVE  Bounds'
  <2>1. /\ UNCHANGED <<table, tokens, seen, pc, ip, held, victim, meter, crossed, split>>
        /\ victim = None /\ \A a \in todo' : table[a] # None /\ a \in Addresses
    BY <1>1 DEF SweepStart, SweepEnd, requestVars, Bounds, Listed
  <2>2. Listed'
    BY <2>1, Parameters DEF Listed
  <2>3. Holding' /\ Crossing' /\ Quiet'
    BY <2>1 DEF Bounds, Holding, Crossing, Quiet
  <2>4. Strays' /\ Budget'
    BY <2>1 DEF Bounds, Strays, Stray, Budget, Live
  <2> QED
    BY <2>2, <2>3, <2>4 DEF Bounds
<1> QED
  BY <1>1, VisitBounds, DeleteBounds DEF SweepStep

-----------------------------------------------------------------------------
(* The second invariant: time *)

LEMMA TickBounds == IInv /\ Bounds /\ Tick => Bounds'
<1> SUFFICES ASSUME IInv, Bounds, Tick
             PROVE  Bounds'
  OBVIOUS
<1>1. Types
  BY DEF IInv, TypeOK, Types
<1>2. /\ UNCHANGED <<table, pc, ip, held, sweeping, todo, victim, crossed>>
      /\ meter' = [a \in Addresses |-> IF meter[a] > Rate THEN meter[a] - Rate ELSE 0]
      /\ split' = {a \in split : meter[a] > Rate}
  BY DEF Tick, requestVars
<1>3. \A r \in Requests : pc[r] = "idle" /\ held[r] = None /\ ip[r] = None
  BY DEF Bounds, Holding, Tick
<1>4. \A e \in Entry : tokens'[e] \in Nat /\ tokens'[e] <= Burst /\ tokens'[e] <= tokens[e] + Rate
  <2> SUFFICES ASSUME NEW e \in Entry
               PROVE  tokens'[e] \in Nat /\ tokens'[e] <= Burst /\ tokens'[e] <= tokens[e] + Rate
    OBVIOUS
  <2>1. tokens'[e] = Min({tokens[e] + Rate, Burst}) /\ tokens[e] \in Nat
    BY <1>1, Parameters DEF Tick, Types
  <2> QED
    BY <2>1, MinTwo, Parameters
<1>5. \A a \in Addresses : table[a] # None => seen'[table[a]] \in {seen[table[a]], seen[table[a]] + 1}
  <2> SUFFICES ASSUME NEW a \in Addresses, table[a] # None
               PROVE  seen'[table[a]] \in {seen[table[a]], seen[table[a]] + 1}
    OBVIOUS
  <2>1. table[a] \in Entry /\ table[a] \in InUse /\ seen[table[a]] \in 0 .. Forgotten /\ Forgotten \in Nat
    BY <1>1, RateAssumption DEF RateAssumption, Types, InUse, Forgotten
  <2>2. seen'[table[a]] = Min({seen[table[a]] + 1, Forgotten})
    BY <2>1 DEF Tick
  <2> QED
    BY <2>1, <2>2, MinTwo
<1>6. Listed'
  BY <1>2 DEF Bounds, Listed
<1>7. Holding'
  <2>1. \A r \in Requests : pc'[r] # "allow"
    BY <1>2, <1>3
  <2> QED
    BY <1>2, <2>1 DEF Bounds, Holding
<1>8. Strays'
  BY <1>2, <1>3 DEF Strays, Stray
<1>9. Crossing'
  <2>1. \A a \in Addresses : meter[a] = 0 => meter'[a] = 0
    BY <1>2, Parameters
  <2> QED
    BY <1>1, <1>2, <2>1 DEF Bounds, Crossing, Types
<1>10. \A a \in Addresses :
         meter'[a] + Live(a)' <= IF a \in split' /\ victim # a THEN 2 * Burst ELSE Burst
  <2> SUFFICES ASSUME NEW a \in Addresses
               PROVE  meter'[a] + Live(a)' <= IF a \in split' /\ victim # a THEN 2 * Burst ELSE Burst
    OBVIOUS
  <2>1. /\ meter[a] \in Nat /\ Live(a) \in Nat /\ Live(a)' \in Nat
        /\ Live(a)' <= Burst /\ Live(a)' <= Live(a) + Rate
    BY <1>1, <1>2, <1>4, Parameters DEF Types, Live
  <2>2. CASE meter[a] > Rate
    <3>1. meter'[a] = meter[a] - Rate /\ (a \in split' <=> a \in split)
      BY <1>2, <2>2
    <3>2. meter'[a] + Live(a)' <= meter[a] + Live(a)
      BY <2>1, <3>1, Parameters
    <3>3. meter[a] + Live(a) <= IF a \in split /\ victim # a THEN 2 * Burst ELSE Burst
      BY DEF Bounds, Budget
    <3> QED
      BY <2>1, <3>1, <3>2, <3>3, Parameters
  <2>3. CASE ~(meter[a] > Rate)
    <3>1. meter'[a] = 0
      BY <1>2, <2>3
    <3> QED
      BY <2>1, <3>1, Parameters
  <2> QED
    BY <2>2, <2>3
<1>11. Budget'
  BY <1>2, <1>3, <1>10 DEF Budget, Stray
<1>12. Quiet'
  <2> SUFFICES ASSUME NEW a \in Addresses, table[a] # None, meter'[a] > 0
               PROVE  meter'[a] + Rate * seen'[table[a]] <= 2 * Burst
    BY <1>2 DEF Quiet
  <2>1. meter[a] > Rate /\ meter'[a] = meter[a] - Rate /\ meter[a] \in Nat /\ seen[table[a]] \in Nat
    BY <1>1, <1>2, RateAssumption DEF RateAssumption, Types, Forgotten
  <2> DEFINE x == Rate * seen[table[a]]
  <2>2. x \in Nat /\ meter[a] + x <= 2 * Burst
    BY <2>1, Parameters DEF Bounds, Quiet
  <2>3. Rate * seen'[table[a]] \in {x, x + Rate}
    BY <1>5, <2>1, Parameters
  <2> HIDE DEF x
  <2> QED
    BY <2>1, <2>2, <2>3, Parameters
<1> QED
  BY <1>6, <1>7, <1>8, <1>9, <1>11, <1>12 DEF Bounds

LEMMA NextBounds == IInv /\ Bounds /\ [Next]_vars => Bounds'
<1>1. Bounds /\ UNCHANGED vars => Bounds'
  BY DEF Bounds, Listed, Holding, Strays, Stray, Crossing, Budget, Live, Quiet,
         vars, requestVars, cleanerVars
<1> QED
  BY <1>1, Steps, LoadBounds, TouchBounds, AllowBounds, SweepBounds, TickBounds DEF RequestStep

-----------------------------------------------------------------------------
(* Theorems *)

\* The two invariants hold in every state, so that each theorem below follows from
\* one of its states alone.
THEOREM Invariance == Spec => [](IInv /\ Bounds)
<1>1. Init => IInv /\ Bounds
  BY InitIInv, InitBounds
<1>2. IInv /\ Bounds /\ [Next]_vars => (IInv /\ Bounds)'
  BY NextIInv, NextBounds
<1> QED
  BY <1>1, <1>2, PTL DEF Spec

\* Every variable keeps its type; in particular no two addresses share a bucket.
THEOREM TypeCorrect == Spec => []TypeOK
BY Invariance, PTL DEF IInv

\* Whatever requests come in the meantime, an idle entry goes in the first sweep
\* that begins more than Idle after its last use.
THEOREM IdleEntriesGo == Spec => []NoLeak
<1>1. IInv => NoLeak
  BY RateAssumption DEF RateAssumption, IInv, TypeOK, Ages, NoLeak
<1> QED
  BY <1>1, Invariance, PTL

\* Whatever the cleaner deletes and whenever, an address has at most its burst and
\* its rate; if its bucket goes while a request has it, at most twice the burst.
THEOREM BurstIsBounded == Spec => []BurstBound
<1>1. TypeOK /\ Bounds => BurstBound
  <2> SUFFICES ASSUME TypeOK, Bounds, NEW a \in Addresses
               PROVE  meter[a] <= IF a \in split THEN 2 * Burst ELSE Burst
    BY DEF BurstBound
  <2>1. meter[a] \in Nat /\ Live(a) \in Nat
    BY Parameters DEF TypeOK, Live
  <2>2. meter[a] + Live(a) <= IF a \in split /\ victim # a THEN 2 * Burst ELSE Burst
    BY DEF Bounds, Budget
  <2> QED
    BY <2>1, <2>2, Parameters
<1> QED
  BY <1>1, Invariance, PTL DEF IInv
==================================================================================
