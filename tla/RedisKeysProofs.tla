---------------------------- MODULE RedisKeysProofs ----------------------------
(***************************************************************************)
(* The safety of the two keys of utils/redis that live for a TTL: the      *)
(* cache entry, CacheProtection, for any number of calls, nodes, versions  *)
(* and faults, any lifetimes and any bound on the length of a flight, and  *)
(* the online status, Presence, for any connections and number of failures *)
(* and any TTL, interval of the Pings and delay that it assumes.  They     *)
(* share no state.                                                         *)
(***************************************************************************)

EXTENDS CacheProtection, Presence, FiniteSetTheorems, TLAPS

-----------------------------------------------------------------------------
(* The cache: the inductive invariant *)

\* What a leader is going to store was current when its flight loaded it, and an
\* error is on the way to the callers.
Carried ==
  \A c \in Calls : /\ pc[c] = "store" => val[c] \in Version /\ retired[val[c]] <= took[c]
                   /\ val[c] = Failed => pc[c] \in {"finish", "done"}

\* Who waits, waits for a call of its node that leads a flight or has led it.
Waiting ==
  \A c \in Calls : pc[c] = "wait" =>
    /\ joined[c] \in Calls /\ node[joined[c]] = node[c]
    /\ Leads(joined[c]) \/ pc[joined[c]] = "done"
    /\ val[joined[c]] = Failed => c \in blamed

\* Whoever has an error, or could still join the flight that has it, is blamed.
Blamed ==
  \A c \in Calls : /\ val[c] = Failed => c \in blamed
                   /\ pc[c] = "do" /\ Failing(node[c]) => c \in blamed

\* A call loads once at most.
MayLoad(n) == {c \in Calls : node[c] = n /\ pc[c] \in {"idle", "do", "recheck", "load"}}

Counted == \A n \in Nodes : loads[n] + Cardinality(MayLoad(n)) <= Cardinality(Calls)

\* Some call of n is at p: for the steps of a flight, its leader.
At(n, p) == \E c \in Calls : node[c] = n /\ pc[c] = p

\* Each load of a node has an expiry of its own, but for the one whose answer is in
\* the cache or on its way there.
Periods ==
  faults = 0 => \A n \in Nodes :
    loads[n] <= IF At(n, "load") \/ (entry = None /\ ~At(n, "store")) THEN expiries ELSE expiries + 1

IInv == TypeOK /\ Carried /\ Waiting /\ Blamed /\ Counted /\ Periods /\ BoundedStaleness

-----------------------------------------------------------------------------
(* The cache: lemmas *)

Step(c) == Get(c) \/ Do(c) \/ Recheck(c) \/ Load(c) \/ Store(c) \/ Finish(c) \/ Wake(c)

LEMMA Steps ==
  [Next]_vars => (\E c \in Calls : Step(c)) \/ Write \/ Tick \/ UNCHANGED vars
BY DEF Next, Step

LEMMA Parameters ==
  /\ node \in [Calls -> Nodes]
  /\ {MaxWrites, MaxJitter, MaxFill, MaxFaults, Horizon} \subseteq Nat
  /\ {BaseTTL, EmptyTTL} \subseteq Nat \ {0}
  /\ None # Failed /\ {None, Failed} \cap (Version \cup Calls) = {}
  /\ Version = 0 .. MaxWrites /\ Cardinality(Calls) \in Nat
BY CacheAssumption, FS_CardinalityType DEF CacheAssumption, Version, Horizon

\* The leaders of a node are one at most, the one that is registered.
LEMMA OneLeader ==
  ASSUME TypeOK, NEW c \in Calls, Leads(c)
  PROVE  /\ flight[node[c]] = c
         /\ \A d \in Calls : node[d] = node[c] /\ Leads(d) => d = c
<1> DEFINE L(n) == {d \in Calls : node[d] = n /\ pc[d] \in {"recheck", "load", "store", "finish"}}
<1>1. node[c] \in Nodes /\ L(node[c]) = {flight[node[c]]} \ {None}
  BY Parameters DEF TypeOK
<1>2. \A d \in Calls : node[d] = node[c] /\ Leads(d) => d \in L(node[c])
  BY DEF Leads
<1> QED
  BY <1>1, <1>2

LEMMA LeaderOfFlight ==
  ASSUME TypeOK, NEW n \in Nodes, flight[n] # None
  PROVE  flight[n] \in Calls /\ node[flight[n]] = n /\ Leads(flight[n])
<1>1. flight[n] \in {d \in Calls : node[d] = n /\ pc[d] \in {"recheck", "load", "store", "finish"}}
  BY DEF TypeOK
<1> QED
  BY <1>1 DEF Leads

\* What a lookup can find.
LEMMA Found ==
  ASSUME TypeOK, NEW v \in Version \cup {None}, Lookup(v)
  PROVE  /\ v \in (0 .. version) \cup {None} /\ v # Failed
         /\ faults' \in 0 .. MaxFaults
         /\ faults' = 0 => faults = 0 /\ v = entry
<1>1. entry \in (0 .. version) \cup {None} /\ 0 .. version \subseteq Version
  BY Parameters DEF TypeOK
<1>2. v = entry \/ v = None
  BY DEF Lookup
<1>3. v \in (0 .. version) \cup {None} /\ v # Failed
  BY <1>1, <1>2, Parameters
<1>4. faults' \in 0 .. MaxFaults /\ (faults' = 0 => faults = 0 /\ v = entry)
  <2>1. faults \in 0 .. MaxFaults /\ MaxFaults \in Nat
    BY Parameters DEF TypeOK
  <2> QED
    BY <2>1 DEF Lookup, Fault
<1> QED
  BY <1>3, <1>4

LEMMA Faulted ==
  ASSUME TypeOK, Fault
  PROVE  faults' \in 0 .. MaxFaults /\ faults' # 0
BY Parameters DEF TypeOK, Fault

LEMMA MayLoadFinite ==
  ASSUME NEW n
  PROVE  IsFiniteSet(MayLoad(n)) /\ Cardinality(MayLoad(n)) \in Nat
         /\ Cardinality(MayLoad(n)) <= Cardinality(Calls)
BY CacheAssumption, FS_Subset, FS_CardinalityType DEF CacheAssumption, MayLoad

LEMMA InitIInv == Init => IInv
<1> SUFFICES ASSUME Init
             PROVE  IInv
  OBVIOUS
<1>1. TypeOK
  BY Parameters DEF Init, TypeOK
<1>2. Carried /\ Waiting /\ Blamed
  BY Parameters DEF Init, Carried, Waiting, Blamed, Failing
<1>3. Counted
  BY Parameters, MayLoadFinite DEF Init, Counted
<1>4. Periods /\ BoundedStaleness
  BY Parameters DEF Init, Periods, BoundedStaleness, At
<1> QED
  BY <1>1, <1>2, <1>3, <1>4 DEF IInv
-----------------------------------------------------------------------------
(* The cache: the steps of a call: types *)

LEMMA StepTypes ==
  ASSUME IInv, NEW c \in Calls, Step(c)
  PROVE  TypeOK'
<1>1. TypeOK
  BY DEF IInv
<1>2. UNCHANGED <<version, retired>>
  BY DEF Step, Get, Do, Recheck, Load, Store, Finish, Wake, row
<1>a. /\ pc \in [Calls -> {"idle", "do", "recheck", "load", "store", "finish", "wait", "done"}]
      /\ node \in [Calls -> Nodes]
  BY <1>1, Parameters DEF TypeOK
<1>b. /\ flight \in [Nodes -> Calls \cup {None}] /\ joined \in [Calls -> Calls \cup {None}]
      /\ None \notin Calls
  BY <1>1, Parameters DEF TypeOK
<1>v. /\ val \in [Calls -> (0 .. version) \cup {None, Failed}] /\ Failed # None
      /\ \A d \in Calls : pc[d] \in {"store", "finish", "done"} => val[d] # None
  BY <1>1, Parameters DEF TypeOK
<1>3. pc' \in [Calls -> {"idle", "do", "recheck", "load", "store", "finish", "wait", "done"}]
  BY <1>a DEF Step, Get, Do, Recheck, Load, Store, Finish, Wake, Goto
<1>4. flight' \in [Nodes -> Calls \cup {None}] /\ joined' \in [Calls -> Calls \cup {None}]
  <2>1. node[c] \in Nodes /\ flight[node[c]] \in Calls \cup {None}
    BY <1>a, <1>b
  <2>2. CASE Do(c)
    <3>1. /\ flight' \in {flight, [flight EXCEPT ![node[c]] = c]}
          /\ joined' \in {joined, [joined EXCEPT ![c] = flight[node[c]]]}
      BY <2>2 DEF Do
    <3>2. flight' \in [Nodes -> Calls \cup {None}]
      BY <1>b, <3>1
    <3>3. joined' \in [Calls -> Calls \cup {None}]
      BY <1>b, <2>1, <3>1
    <3> QED
      BY <3>2, <3>3
  <2>3. CASE Finish(c) \/ Wake(c)
    BY <1>b, <2>1, <2>3 DEF Finish, Wake
  <2>4. CASE UNCHANGED <<flight, joined>>
    BY <1>b, <2>4
  <2> QED
    BY <2>2, <2>3, <2>4 DEF Step, Get, Recheck, Load, Store
<1>5. took' \in [Calls -> 0 .. MaxFill]
  <2>1. took \in [Calls -> 0 .. MaxFill] /\ 0 \in 0 .. MaxFill
    BY <1>1, Parameters DEF TypeOK
  <2>2. took' = took \/ took' = [took EXCEPT ![c] = 0]
    BY DEF Step, Get, Do, Recheck, Load, Store, Finish, Wake
  <2> QED
    BY <2>1, <2>2
<1>6. \A n \in Nodes :
        {d \in Calls : node[d] = n /\ pc'[d] \in {"recheck", "load", "store", "finish"}}
          = {flight'[n]} \ {None}
  <2> SUFFICES ASSUME NEW n \in Nodes
               PROVE  {d \in Calls : node[d] = n /\ pc'[d] \in {"recheck", "load", "store", "finish"}}
                        = {flight'[n]} \ {None}
    OBVIOUS
  <2>1. {d \in Calls : node[d] = n /\ pc[d] \in {"recheck", "load", "store", "finish"}}
          = {flight[n]} \ {None}
    BY <1>1 DEF TypeOK
  <2>2. CASE Get(c) \/ Recheck(c) \/ Load(c) \/ Store(c) \/ Wake(c)
    <3>1. \A d \in Calls : pc'[d] \in {"recheck", "load", "store", "finish"}
                             <=> pc[d] \in {"recheck", "load", "store", "finish"}
      BY <1>a, <2>2 DEF Get, Recheck, Load, Store, Wake, Ready, Goto
    <3>2. flight' = flight
      BY <2>2 DEF Get, Recheck, Load, Store, Wake
    <3> QED
      BY <2>1, <3>1, <3>2
  <2>3. CASE Do(c)
    <3>1. CASE flight[node[c]] = None /\ flight' = [flight EXCEPT ![node[c]] = c]
                 /\ pc' = [pc EXCEPT ![c] = "recheck"]
      <4>1. \A d \in Calls : pc'[d] = IF d = c THEN "recheck" ELSE pc[d]
        BY <1>a, <3>1
      <4>2. flight'[n] = IF n = node[c] THEN c ELSE flight[n]
        BY <1>a, <1>b, <3>1
      <4>3. CASE n = node[c]
        BY <1>b, <2>1, <3>1, <4>1, <4>2, <4>3
      <4>4. CASE n # node[c]
        BY <2>1, <4>1, <4>2, <4>4
      <4> QED
        BY <4>3, <4>4
    <3>2. CASE flight' = flight /\ pc' = [pc EXCEPT ![c] = "wait"]
      BY <1>a, <2>1, <2>3, <3>2 DEF Do
    <3> QED
      BY <2>3, <3>1, <3>2 DEF Do, Goto
  <2>4. CASE Finish(c)
    <3>1. /\ \A d \in Calls : pc'[d] = IF d = c THEN "done" ELSE pc[d]
          /\ flight'[n] = IF n = node[c] THEN None ELSE flight[n]
          /\ pc[c] = "finish"
      BY <1>a, <1>b, <2>4 DEF Finish, Goto
    <3>2. CASE n = node[c]
      BY <2>1, <3>1, <3>2
    <3>3. CASE n # node[c]
      BY <2>1, <3>1, <3>3
    <3> QED
      BY <3>2, <3>3
  <2> QED
    BY <2>2, <2>3, <2>4 DEF Step
<1>7. /\ val' \in [Calls -> (0 .. version) \cup {None, Failed}]
      /\ \A d \in Calls : pc'[d] \in {"store", "finish", "done"} => val'[d] # None
  <2>1. CASE Get(c) \/ Recheck(c)
    <3>1. PICK v \in Version \cup {None} :
            /\ Lookup(v) /\ val' = [val EXCEPT ![c] = v]
            /\ v = None => pc' = [pc EXCEPT ![c] = "do"] \/ pc' = [pc EXCEPT ![c] = "load"]
            /\ v # None => pc' = [pc EXCEPT ![c] = "done"] \/ pc' = [pc EXCEPT ![c] = "finish"]
      BY <2>1 DEF Get, Recheck, Goto
    <3>2. v \in (0 .. version) \cup {None}
      BY <1>1, <3>1, Found
    <3> QED
      BY <1>a, <1>v, <3>1, <3>2
  <2>2. CASE Load(c)
    <3>1. PICK v \in {version, Failed} : val' = [val EXCEPT ![c] = v]
      BY <2>2 DEF Load
    <3>2. version \in 0 .. version /\ version # None
      <4>1. version \in Version
        BY <1>1 DEF TypeOK
      <4> QED
        BY <4>1, Parameters
    <3>3. \A d \in Calls \ {c} : pc'[d] = pc[d]
      BY <1>a, <2>2 DEF Load, Goto
    <3> QED
      BY <1>v, <3>1, <3>2, <3>3
  <2>3. CASE Wake(c)
    <3>1. joined[c] \in Calls /\ pc[joined[c]] = "done"
      BY <2>3 DEF IInv, Waiting, Wake, Ready
    <3> QED
      BY <1>a, <1>v, <2>3, <3>1 DEF Wake, Goto
  <2>4. CASE Do(c) \/ Store(c) \/ Finish(c)
    BY <1>a, <1>v, <2>4 DEF Do, Store, Finish, Goto
  <2> QED
    BY <2>1, <2>2, <2>3, <2>4 DEF Step
<1>8. /\ entry' \in (0 .. version) \cup {None}
      /\ ttl' \in 0 .. BaseTTL + MaxJitter + EmptyTTL
      /\ entry' = None <=> ttl' = 0
  <2>1. CASE Set(val[c]) /\ pc[c] = "store"
    <3>1. val[c] \in 0 .. version
      BY <1>1, <2>1 DEF IInv, Carried, TypeOK
    <3>2. ttl' \in 1 .. BaseTTL + MaxJitter + EmptyTTL
      BY <2>1, Parameters DEF Set, Lifetime
    <3> QED
      <4>1. entry' = val[c] /\ val[c] # None
        BY <1>1, <2>1, <3>1 DEF Set, TypeOK
      <4> QED
        BY <3>1, <3>2, <4>1, Parameters
  <2>2. CASE UNCHANGED <<entry, ttl>>
    BY <1>1, <2>2 DEF TypeOK
  <2> QED
    BY <2>1, <2>2 DEF Step, Get, Do, Recheck, Load, Store, Finish, Wake, redis
<1>9. loads' \in [Nodes -> 0 .. Cardinality(Calls)]
  <2>1. CASE Load(c)
    <3>1. c \in MayLoad(node[c]) /\ node[c] \in Nodes
      BY <1>a, <2>1 DEF Load, MayLoad
    <3>2. Cardinality(MayLoad(node[c])) > 0
      BY <3>1, MayLoadFinite, FS_EmptySet
    <3>3. loads[node[c]] + Cardinality(MayLoad(node[c])) <= Cardinality(Calls)
      BY <3>1 DEF IInv, Counted
    <3>4. loads \in [Nodes -> 0 .. Cardinality(Calls)] /\ Cardinality(Calls) \in Nat
      BY <1>1, Parameters DEF TypeOK
    <3>5. Cardinality(MayLoad(node[c])) \in Nat
      BY MayLoadFinite
    <3>6. loads[node[c]] + 1 \in 0 .. Cardinality(Calls)
      BY <3>1, <3>2, <3>3, <3>4, <3>5
    <3> QED
      BY <2>1, <3>4, <3>6 DEF Load
  <2>2. CASE UNCHANGED loads
    BY <1>1, <2>2 DEF TypeOK
  <2> QED
    BY <2>1, <2>2 DEF Step, Get, Do, Recheck, Store, Finish, Wake
<1>10. expiries' = expiries /\ blamed' \subseteq Calls
  BY <1>1 DEF TypeOK, Step, Get, Do, Recheck, Load, Store, Finish, Wake, redis
<1>11. faults' \in 0 .. MaxFaults
  <2>1. CASE Fault \/ UNCHANGED faults
    BY <1>1, <2>1, Faulted DEF TypeOK
  <2> QED
    BY <2>1 DEF Step, Get, Do, Recheck, Load, Store, Finish, Wake, Lookup
<1> QED
  BY <1>1, <1>2, <1>3, <1>4, <1>5, <1>6, <1>7, <1>8, <1>9, <1>10, <1>11 DEF TypeOK
-----------------------------------------------------------------------------
(* The cache: the steps of a call: answers and errors *)

\* What a step may do to its own call; it leaves the others where they are.
LEMMA OwnStep ==
  ASSUME TypeOK, NEW c \in Calls, Step(c)
  PROVE  /\ \A d \in Calls \ {c} : pc'[d] = pc[d] /\ val'[d] = val[d] /\ joined'[d] = joined[d]
         /\ UNCHANGED <<version, retired, expiries>>
         /\ blamed \subseteq blamed'
BY DEF TypeOK, Step, Get, Do, Recheck, Load, Store, Finish, Wake, Goto, row, redis

LEMMA StepCarries ==
  ASSUME IInv, NEW c \in Calls, Step(c)
  PROVE  Carried'
<1>1. TypeOK /\ Carried
  BY DEF IInv
<1>2. \A d \in Calls \ {c} : pc'[d] = pc[d] /\ val'[d] = val[d] /\ took'[d] = took[d]
  BY <1>1, OwnStep DEF TypeOK, Step, Get, Do, Recheck, Load, Store, Finish, Wake
<1>3. retired' = retired
  BY <1>1, OwnStep
<1>4. pc'[c] = "store" => val'[c] \in Version /\ retired[val'[c]] <= took'[c]
  <2>1. CASE Load(c) /\ pc'[c] = "store"
    <3>1. val'[c] = version /\ took' = took
      BY <1>1, <2>1 DEF TypeOK, Load, Goto
    <3> QED
      BY <1>1, <3>1, Parameters DEF TypeOK
  <2>2. CASE ~Load(c)
    BY <1>1, <2>2 DEF TypeOK, Step, Get, Do, Recheck, Store, Finish, Wake, Goto
  <2> QED
    BY <2>1, <2>2
<1>5. val'[c] = Failed => pc'[c] \in {"finish", "done"}
  <2>1. CASE Get(c) \/ Recheck(c)
    <3>1. PICK v \in Version \cup {None} : Lookup(v) /\ val' = [val EXCEPT ![c] = v]
      BY <2>1 DEF Get, Recheck
    <3> QED
      BY <1>1, <3>1, Found DEF TypeOK
  <2>2. CASE Load(c)
    <3>1. version # Failed
      BY <1>1, Parameters DEF TypeOK
    <3> QED
      BY <1>1, <2>2, <3>1 DEF TypeOK, Load, Goto
  <2>3. CASE Do(c) \/ Store(c) \/ Finish(c) \/ Wake(c)
    BY <1>1, <2>3 DEF Carried, TypeOK, Do, Store, Finish, Wake, Goto
  <2> QED
    BY <2>1, <2>2, <2>3 DEF Step
<1> QED
  BY <1>1, <1>2, <1>3, <1>4, <1>5 DEF Carried

LEMMA StepWaits ==
  ASSUME IInv, NEW c \in Calls, Step(c)
  PROVE  Waiting'
<1>1. TypeOK /\ Waiting
  BY DEF IInv
<1> SUFFICES ASSUME NEW w \in Calls, pc'[w] = "wait"
             PROVE  /\ joined'[w] \in Calls /\ node[joined'[w]] = node[w]
                    /\ pc'[joined'[w]] \in {"recheck", "load", "store", "finish", "done"}
                    /\ val'[joined'[w]] = Failed => w \in blamed'
  BY DEF Waiting, Leads
<1>2. CASE w = c
  <2>1. Do(c) /\ flight[node[c]] # None /\ joined' = [joined EXCEPT ![c] = flight[node[c]]]
    BY <1>1, <1>2 DEF TypeOK, Step, Get, Do, Recheck, Load, Store, Finish, Wake, Goto
  <2> PICK l \in Calls : l = flight[node[c]] /\ node[l] = node[c] /\ Leads(l)
    BY <1>1, <2>1, LeaderOfFlight, Parameters
  <2>2. joined'[c] = l
    BY <1>1, <2>1 DEF TypeOK
  <2>3. l # c /\ pc'[l] = pc[l] /\ UNCHANGED <<val, blamed>>
    BY <1>1, <2>1, OwnStep DEF Do, Leads
  <2>4. val[l] = Failed => c \in blamed
    <3>1. val[l] = Failed => pc[l] = "finish"
      BY DEF IInv, Carried, Leads
    <3> QED
      BY <2>1, <3>1 DEF IInv, Blamed, Failing, Do
  <2> QED
    BY <1>2, <2>2, <2>3, <2>4 DEF Leads
<1>3. CASE w # c
  <2>1. pc[w] = "wait" /\ joined'[w] = joined[w] /\ blamed \subseteq blamed'
    BY <1>1, <1>3, OwnStep
  <2> PICK l \in Calls : l = joined[w] /\ node[l] = node[w]
    BY <1>1, <2>1 DEF Waiting
  <2>2. pc[l] \in {"recheck", "load", "store", "finish", "done"}
    BY <1>1, <2>1 DEF Waiting, Leads
  <2>3. val[l] = Failed => w \in blamed
    BY <1>1, <2>1 DEF Waiting
  <2>4. CASE l # c
    BY <1>1, <2>1, <2>2, <2>3, <2>4, OwnStep
  <2>5. CASE l = c /\ Load(c)
    <3>1. pc'[c] \in {"store", "finish"} /\ (val'[c] = Failed => w \in blamed')
      <4>1. CASE val' = [val EXCEPT ![c] = version] /\ pc' = [pc EXCEPT ![c] = "store"]
        BY <1>1, <4>1, Parameters DEF TypeOK
      <4>2. CASE /\ pc' = [pc EXCEPT ![c] = "finish"]
                 /\ blamed' = blamed \cup {d \in Calls : node[d] = node[c] /\ pc[d] \notin {"idle", "done"}}
        BY <1>1, <2>1, <2>5, <4>2 DEF TypeOK
      <4> QED
        BY <2>5, <4>1, <4>2 DEF Load, Goto
    <3> QED
      BY <2>1, <2>5, <3>1
  <2>6. CASE l = c /\ Recheck(c)
    <3>1. val'[c] # Failed /\ pc'[c] \in {"load", "finish"}
      <4>1. PICK v \in Version \cup {None} : Lookup(v) /\ val' = [val EXCEPT ![c] = v]
        BY <2>6 DEF Recheck
      <4>2. pc'[c] \in {"load", "finish"}
        BY <1>1, <2>6 DEF TypeOK, Recheck, Goto
      <4> QED
        BY <1>1, <4>1, <4>2, Found DEF TypeOK
    <3> QED
      BY <2>1, <2>6, <3>1
  <2>7. CASE l = c /\ (Store(c) \/ Finish(c))
    <3>1. val' = val /\ pc'[c] \in {"finish", "done"}
      BY <1>1, <2>7 DEF TypeOK, Store, Finish, Goto
    <3> QED
      BY <2>1, <2>3, <2>7, <3>1
  <2> QED
    BY <2>2, <2>4, <2>5, <2>6, <2>7 DEF Step, Get, Do, Wake, Ready
<1> QED
  BY <1>2, <1>3

LEMMA StepBlames ==
  ASSUME IInv, NEW c \in Calls, Step(c)
  PROVE  Blamed'
<1>1. TypeOK /\ Blamed
  BY DEF IInv
<1>2. \A d \in Calls \ {c} : pc'[d] = pc[d] /\ val'[d] = val[d]
  BY <1>1, OwnStep
<1>3. blamed \subseteq blamed'
  BY <1>1, OwnStep
<1>4. CASE Get(c)
  <2>1. PICK v \in Version \cup {None} : Lookup(v) /\ val' = [val EXCEPT ![c] = v]
    BY <1>4 DEF Get
  <2>2. val'[c] # Failed /\ pc'[c] \in {"do", "done"}
    BY <1>1, <1>4, <2>1, Found DEF TypeOK, Get, Goto
  <2>3. \A n : Failing(n)' => Failing(n)
    BY <1>2, <2>2 DEF Failing
  <2>4. Failing(node[c]) => c \in blamed'
    BY <1>4 DEF Get
  <2> QED
    BY <1>1, <1>2, <1>3, <2>2, <2>3, <2>4 DEF Blamed
<1>5. CASE Load(c)
  <2>1. CASE val' = [val EXCEPT ![c] = version] /\ pc' = [pc EXCEPT ![c] = "store"]
    <3>1. val'[c] # Failed /\ pc'[c] = "store"
      BY <1>1, <2>1, Parameters DEF TypeOK
    <3>2. \A n : Failing(n)' => Failing(n)
      BY <1>2, <3>1 DEF Failing
    <3> QED
      BY <1>1, <1>2, <1>3, <3>1, <3>2 DEF Blamed
  <2>2. CASE /\ pc' = [pc EXCEPT ![c] = "finish"]
             /\ blamed' = blamed \cup {d \in Calls : node[d] = node[c] /\ pc[d] \notin {"idle", "done"}}
    <3>1. c \in blamed' /\ pc'[c] = "finish"
      BY <1>1, <1>5, <2>2 DEF TypeOK, Load
    <3>2. \A d \in Calls : pc'[d] = "do" /\ node[d] = node[c] => d \in blamed'
      BY <1>2, <2>2, <3>1
    <3>3. \A n : n # node[c] /\ Failing(n)' => Failing(n)
      BY <1>2 DEF Failing
    <3> QED
      BY <1>1, <1>2, <1>3, <3>1, <3>2, <3>3 DEF Blamed
  <2> QED
    BY <1>5, <2>1, <2>2 DEF Load, Goto
<1>6. CASE Recheck(c)
  <2>1. PICK v \in Version \cup {None} : Lookup(v) /\ val' = [val EXCEPT ![c] = v]
    BY <1>6 DEF Recheck
  <2>2. val'[c] # Failed /\ pc'[c] \in {"load", "finish"}
    BY <1>1, <1>6, <2>1, Found DEF TypeOK, Recheck, Goto
  <2>3. \A n : Failing(n)' => Failing(n)
    BY <1>2, <2>2 DEF Failing
  <2> QED
    BY <1>1, <1>2, <1>3, <2>2, <2>3 DEF Blamed
<1>7. CASE Wake(c)
  <2>1. joined[c] \in Calls /\ val'[c] = val[joined[c]] /\ pc'[c] = "done"
    BY <1>1, <1>7 DEF IInv, Waiting, TypeOK, Wake, Ready, Goto
  <2>2. val'[c] = Failed => c \in blamed
    BY <1>7, <2>1 DEF IInv, Waiting, Wake, Ready
  <2>3. \A n : Failing(n)' => Failing(n)
    BY <1>2, <2>1 DEF Failing
  <2> QED
    BY <1>1, <1>2, <1>3, <2>1, <2>2, <2>3 DEF Blamed
<1>8. CASE Do(c) \/ Store(c) \/ Finish(c)
  <2>1. val' = val /\ (pc'[c] \in {"recheck", "wait", "finish", "done"}) /\ blamed' = blamed
    BY <1>1, <1>8 DEF TypeOK, Do, Store, Finish, Goto
  <2>2. pc'[c] = "finish" => val[c] # Failed
    BY <1>1, <1>8 DEF IInv, Carried, TypeOK, Do, Store, Finish, Goto
  <2>3. \A n : Failing(n)' => Failing(n)
    BY <1>2, <2>1, <2>2 DEF Failing
  <2> QED
    BY <1>1, <1>2, <1>3, <2>1, <2>3 DEF Blamed
<1> QED
  BY <1>4, <1>5, <1>6, <1>7, <1>8 DEF Step
-----------------------------------------------------------------------------
(* The cache: the steps of a call: loads and what the cache holds *)

LEMMA StepCounts ==
  ASSUME IInv, NEW c \in Calls, Step(c)
  PROVE  Counted'
<1>1. TypeOK /\ Counted
  BY DEF IInv
<1> SUFFICES ASSUME NEW n \in Nodes
             PROVE  loads'[n] + Cardinality(MayLoad(n)') <= Cardinality(Calls)
  BY DEF Counted
<1>2. \A d \in Calls \ {c} : pc'[d] = pc[d]
  BY <1>1, OwnStep
<1>3. /\ IsFiniteSet(MayLoad(n)) /\ Cardinality(MayLoad(n)) \in Nat
      /\ loads[n] + Cardinality(MayLoad(n)) <= Cardinality(Calls) /\ loads[n] \in Nat
  BY <1>1, MayLoadFinite, Parameters DEF Counted, TypeOK
<1>4. CASE Load(c) /\ node[c] = n
  <2>1. c \in MayLoad(n) /\ MayLoad(n)' \subseteq MayLoad(n) \ {c}
    BY <1>1, <1>2, <1>4 DEF TypeOK, Load, Goto, MayLoad
  <2>2. Cardinality(MayLoad(n) \ {c}) = Cardinality(MayLoad(n)) - 1 /\ IsFiniteSet(MayLoad(n) \ {c})
    BY <1>3, <2>1, FS_RemoveElement
  <2>3. Cardinality(MayLoad(n)') <= Cardinality(MayLoad(n) \ {c}) /\ Cardinality(MayLoad(n)') \in Nat
    BY <2>1, <2>2, FS_Subset, FS_CardinalityType
  <2>4. loads'[n] = loads[n] + 1
    BY <1>1, <1>4 DEF TypeOK, Load
  <2>5. /\ Cardinality(MayLoad(n)') <= Cardinality(MayLoad(n)) - 1
        /\ Cardinality(Calls) \in Nat /\ Cardinality(MayLoad(n)') \in Nat
    BY <2>2, <2>3, Parameters
  <2> QED
    BY <1>3, <2>4, <2>5
<1>5. CASE ~(Load(c) /\ node[c] = n)
  <2>1. loads'[n] = loads[n]
    BY <1>1, <1>5 DEF TypeOK, Step, Get, Do, Recheck, Load, Store, Finish, Wake
  <2>2. MayLoad(n)' \subseteq MayLoad(n)
    <3>1. pc'[c] \in {"idle", "do", "recheck", "load"} => pc[c] \in {"idle", "do", "recheck", "load"}
      BY <1>1 DEF TypeOK, Step, Get, Do, Recheck, Load, Store, Finish, Wake, Goto
    <3> QED
      BY <1>2, <3>1 DEF MayLoad
  <2>3. Cardinality(MayLoad(n)') <= Cardinality(MayLoad(n)) /\ Cardinality(MayLoad(n)') \in Nat
    BY <1>3, <2>2, FS_Subset, FS_CardinalityType
  <2> QED
    BY <1>3, <2>1, <2>3, Parameters
<1> QED
  BY <1>4, <1>5

LEMMA StepPeriods ==
  ASSUME IInv, NEW c \in Calls, Step(c)
  PROVE  Periods'
<1>1. TypeOK
  BY DEF IInv
<1>2. expiries' = expiries /\ \A d \in Calls \ {c} : pc'[d] = pc[d]
  BY <1>1, OwnStep
<1> SUFFICES ASSUME faults' = 0, NEW n \in Nodes
             PROVE  loads'[n] <= IF At(n, "load")' \/ (entry' = None /\ ~At(n, "store")')
                                 THEN expiries ELSE expiries + 1
  BY <1>2 DEF Periods
<1>3. faults = 0
  <2>1. faults' = faults \/ Fault
    BY DEF Step, Get, Do, Recheck, Load, Store, Finish, Wake, Lookup
  <2> QED
    BY <1>1, <2>1, Faulted
<1>4. /\ loads[n] <= IF At(n, "load") \/ (entry = None /\ ~At(n, "store")) THEN expiries ELSE expiries + 1
      /\ loads[n] \in Nat /\ expiries \in Nat
  BY <1>1, <1>3, Parameters DEF IInv, Periods, TypeOK
<1>5. CASE Recheck(c) /\ node[c] = n
  <2>1. ~At(n, "load") /\ ~At(n, "store")
    BY <1>1, <1>5, OneLeader DEF Recheck, Leads, At
  <2>2. PICK v \in Version \cup {None} : Lookup(v) /\ pc' = [pc EXCEPT ![c] = IF v = None THEN "load" ELSE "finish"]
    BY <1>5 DEF Recheck, Goto
  <2>3. v = entry /\ UNCHANGED <<entry, loads>>
    BY <1>1, <1>5, <2>2, Found DEF Recheck, redis
  <2>4. CASE entry = None
    BY <1>4, <2>1, <2>3, <2>4
  <2>5. CASE entry # None
    <3>1. pc'[c] = "finish"
      BY <1>1, <2>2, <2>3, <2>5 DEF TypeOK
    <3>2. ~At(n, "load")'
      BY <1>2, <2>1, <3>1 DEF At
    <3> QED
      BY <1>4, <2>1, <2>3, <2>5, <3>2
  <2> QED
    BY <2>4, <2>5
<1>6. CASE Load(c) /\ node[c] = n
  <2>1. At(n, "load") /\ \A d \in Calls \ {c} : node[d] = n => pc[d] # "load"
    BY <1>1, <1>6, OneLeader DEF Load, Leads, At
  <2>2. pc'[c] = "store" /\ loads'[n] = loads[n] + 1
    BY <1>1, <1>6, Faulted DEF TypeOK, Load, Goto
  <2>3. ~At(n, "load")' /\ At(n, "store")'
    BY <1>2, <1>6, <2>1, <2>2 DEF At
  <2> QED
    BY <1>4, <2>1, <2>2, <2>3
<1>7. CASE Store(c)
  <2>1. entry' = val[c] /\ UNCHANGED loads
    BY <1>1, <1>7, Faulted DEF Store, Set
  <2>2. entry' # None
    BY <1>7, <2>1, Parameters DEF IInv, Carried, Store
  <2>3. pc'[c] = "finish"
    BY <1>1, <1>7 DEF TypeOK, Store, Goto
  <2>4. At(n, "load")' => At(n, "load")
    BY <1>2, <2>3 DEF At
  <2>5. loads[n] <= expiries + 1
    BY <1>4
  <2> QED
    BY <1>4, <2>1, <2>2, <2>4, <2>5
<1>8. CASE ~Store(c) /\ ~((Recheck(c) \/ Load(c)) /\ node[c] = n)
  <2>1. entry' = entry /\ loads'[n] = loads[n]
    BY <1>1, <1>8 DEF TypeOK, Step, Get, Do, Recheck, Load, Finish, Wake, redis
  <2>2. node[c] = n => pc'[c] \notin {"load", "store"} /\ pc[c] \notin {"load", "store"}
    BY <1>1, <1>8 DEF TypeOK, Step, Get, Do, Finish, Wake, Ready, Goto
  <2>3. (At(n, "load")' <=> At(n, "load")) /\ (At(n, "store")' <=> At(n, "store"))
    BY <1>2, <2>2 DEF At
  <2> QED
    BY <1>4, <2>1, <2>3
<1> QED
  BY <1>5, <1>6, <1>7, <1>8

LEMMA StepStale ==
  ASSUME IInv, NEW c \in Calls, Step(c)
  PROVE  BoundedStaleness'
<1>1. TypeOK
  BY DEF IInv
<1>2. retired' = retired
  BY <1>1, OwnStep
<1>3. CASE Set(val[c]) /\ pc[c] = "store"
  <2>1. /\ val[c] \in Version /\ retired[val[c]] <= took[c]
        /\ retired[val[c]] \in Nat /\ took[c] <= MaxFill /\ took[c] \in Nat
    BY <1>1, <1>3, Parameters DEF IInv, Carried, TypeOK
  <2>2. ttl' <= Life(val[c]) /\ ttl' \in Nat /\ Life(val[c]) \in Nat /\ entry' = val[c]
    BY <1>3, Parameters DEF Set, Lifetime, Life
  <2>3. retired[val[c]] + ttl' <= Life(val[c]) + MaxFill
    <3>1. MaxFill \in Nat
      BY Parameters
    <3> QED
      BY <2>1, <2>2, <3>1
  <2> QED
    BY <1>2, <2>2, <2>3 DEF BoundedStaleness, Life
<1>4. CASE UNCHANGED <<entry, ttl>>
  BY <1>2, <1>4 DEF IInv, BoundedStaleness, Life
<1> QED
  BY <1>3, <1>4 DEF Step, Get, Do, Recheck, Load, Store, Finish, Wake, redis

-----------------------------------------------------------------------------
(* The cache: the row and the time *)

LEMMA WriteKeeps == IInv /\ Write => IInv'
<1> SUFFICES ASSUME IInv, Write
             PROVE  IInv'
  OBVIOUS
<1>1. /\ UNCHANGED <<retired, entry, ttl, expiries, flight, pc, joined, val, took, loads, blamed, faults>>
      /\ version < MaxWrites /\ version' = version + 1
  BY DEF Write, redis
<1>2. TypeOK'
  <2>1. version \in Nat /\ version' \in Version /\ 0 .. version \subseteq 0 .. version'
        /\ version' .. MaxWrites \subseteq version .. MaxWrites
    <3>1. version \in 0 .. MaxWrites /\ MaxWrites \in Nat
      BY Parameters DEF IInv, TypeOK
    <3>2. version' \in 0 .. MaxWrites /\ version \in Nat
      BY <1>1, <3>1
    <3> QED
      BY <1>1, <3>1, <3>2, Parameters
  <2>2. entry' \in (0 .. version') \cup {None} /\ val' \in [Calls -> (0 .. version') \cup {None, Failed}]
    BY <1>1, <2>1 DEF IInv, TypeOK
  <2>3. \A v \in version' .. MaxWrites : retired'[v] = 0
    BY <1>1, <2>1 DEF IInv, TypeOK
  <2> QED
    BY <1>1, <2>1, <2>2, <2>3 DEF IInv, TypeOK
<1>3. Carried' /\ Waiting' /\ Blamed' /\ Counted' /\ Periods' /\ BoundedStaleness'
  BY <1>1 DEF IInv, Carried, Waiting, Leads, Blamed, Failing, Counted, MayLoad, Periods, At,
              BoundedStaleness, Life
<1> QED
  BY <1>2, <1>3 DEF IInv

LEMMA TickKeeps == IInv /\ Tick => IInv'
<1> SUFFICES ASSUME IInv, Tick
             PROVE  IInv'
  OBVIOUS
<1>1. UNCHANGED <<version, flight, pc, joined, val, loads, blamed, faults>>
  BY DEF Tick
<1>2. \A v \in Version : /\ retired'[v] \in 0 .. Horizon /\ retired'[v] <= retired[v] + 1
                         /\ v \in version .. MaxWrites => retired'[v] = 0
  <2> SUFFICES ASSUME NEW v \in Version
               PROVE  /\ retired'[v] \in 0 .. Horizon /\ retired'[v] <= retired[v] + 1
                      /\ v \in version .. MaxWrites => retired'[v] = 0
    OBVIOUS
  <2>1. retired[v] \in 0 .. Horizon /\ Horizon \in Nat
    BY Parameters DEF IInv, TypeOK
  <2>2. retired'[v] = IF v < version THEN Saturated(retired[v], Horizon) ELSE 0
    BY DEF Tick
  <2>3. version \in Nat /\ v \in Nat
    BY Parameters DEF IInv, TypeOK
  <2> QED
    BY <2>1, <2>2, <2>3 DEF Saturated
<1>3. took' \in [Calls -> 0 .. MaxFill] /\ \A c \in Calls : Leads(c) => took'[c] = took[c] + 1
  <2>1. took \in [Calls -> 0 .. MaxFill] /\ MaxFill \in Nat
    BY Parameters DEF IInv, TypeOK
  <2> QED
    BY <2>1 DEF Tick
<1>4. /\ ttl' \in 0 .. BaseTTL + MaxJitter + EmptyTTL /\ entry' \in {entry, None}
      /\ entry' = None <=> ttl' = 0
      /\ entry' # None => ttl' = ttl - 1
  <2>1. /\ ttl \in 0 .. BaseTTL + MaxJitter + EmptyTTL /\ BaseTTL + MaxJitter + EmptyTTL \in Nat
        /\ entry = None <=> ttl = 0
    BY Parameters DEF IInv, TypeOK
  <2> QED
    BY <2>1 DEF Tick
<1>5. expiries' \in 0 .. Cardinality(Calls)
  BY Parameters DEF IInv, TypeOK, Tick, Saturated
<1>6. TypeOK'
  <2>1. retired' \in [Version -> 0 .. Horizon]
    BY <1>2 DEF Tick
  <2>2. entry' \in (0 .. version) \cup {None}
    BY <1>4 DEF IInv, TypeOK
  <2>3. \A v \in version .. MaxWrites : v \in Version
    BY Parameters DEF IInv, TypeOK
  <2>4. \A v \in version .. MaxWrites : retired'[v] = 0
    BY <1>2, <2>3
  <2> QED
    BY <1>1, <1>3, <1>4, <1>5, <2>1, <2>2, <2>4 DEF IInv, TypeOK
<1>7. Carried'
  <2>1. \A c \in Calls : pc[c] = "store" => Leads(c)
    BY DEF Leads
  <2>2. \A v \in Version : {retired[v], retired'[v]} \subseteq Nat
    <3>1. \A v \in Version : retired[v] \in 0 .. Horizon /\ retired'[v] \in 0 .. Horizon
      BY <1>2 DEF IInv, TypeOK
    <3> QED
      BY <3>1, Parameters
  <2>3. \A c \in Calls : took[c] \in Nat
    BY Parameters DEF IInv, TypeOK
  <2> QED
    BY <1>1, <1>2, <1>3, <2>1, <2>2, <2>3 DEF IInv, Carried
<1>8. Waiting' /\ Blamed' /\ Counted'
  BY <1>1 DEF IInv, Waiting, Leads, Blamed, Failing, Counted, MayLoad
<1>9. Periods'
  <2> SUFFICES ASSUME faults = 0, NEW n \in Nodes
               PROVE  loads[n] <= IF At(n, "load") \/ (entry' = None /\ ~At(n, "store"))
                                  THEN expiries' ELSE expiries' + 1
    BY <1>1 DEF Periods, At
  <2>1. /\ loads[n] <= IF At(n, "load") \/ (entry = None /\ ~At(n, "store")) THEN expiries ELSE expiries + 1
        /\ loads[n] \in 0 .. Cardinality(Calls) /\ expiries \in 0 .. Cardinality(Calls)
    BY DEF IInv, Periods, TypeOK
  <2>2. CASE ttl = 1
    <3>1. expiries' = IF expiries < Cardinality(Calls) THEN expiries + 1 ELSE Cardinality(Calls)
      BY <2>2 DEF Tick, Saturated
    <3>2. loads[n] <= expiries'
      BY <2>1, <3>1, Parameters
    <3> QED
      BY <1>5, <2>1, <3>2, Parameters
  <2>3. CASE ttl # 1
    BY <2>1, <2>3 DEF Tick
  <2> QED
    BY <2>2, <2>3
<1>10. BoundedStaleness'
  <2> SUFFICES ASSUME entry' # None
               PROVE  retired'[entry] + ttl' <= Life(entry) + MaxFill
    BY <1>4 DEF BoundedStaleness, Life
  <2>1. entry' = entry /\ ttl' = ttl - 1 /\ entry \in Version
    <3>1. entry' = entry /\ ttl' = ttl - 1
      BY <1>4
    <3>2. entry \in 0 .. version /\ version \in Version
      BY <3>1 DEF IInv, TypeOK
    <3> QED
      BY <3>1, <3>2, Parameters
  <2>2. retired[entry] + ttl <= Life(entry) + MaxFill
    BY <2>1 DEF IInv, BoundedStaleness
  <2>3. /\ retired[entry] \in Nat /\ retired'[entry] \in Nat /\ ttl \in Nat
        /\ retired'[entry] <= retired[entry] + 1
    <3>1. retired[entry] \in 0 .. Horizon /\ retired'[entry] \in 0 .. Horizon
      BY <1>2, <2>1 DEF IInv, TypeOK
    <3>2. ttl \in Nat
      BY DEF IInv, TypeOK
    <3> QED
      BY <1>2, <2>1, <3>1, <3>2, Parameters
  <2>4. Life(entry) \in Nat
    BY Parameters DEF Life
  <2> QED
    <3>1. MaxFill \in Nat
      BY Parameters
    <3> QED
      BY <2>1, <2>2, <2>3, <2>4, <3>1
<1> QED
  BY <1>6, <1>7, <1>8, <1>9, <1>10 DEF IInv

LEMMA NextIInv == IInv /\ [Next]_vars => IInv'
<1>1. ASSUME IInv, NEW c \in Calls, Step(c)
      PROVE  IInv'
  BY <1>1, StepTypes, StepCarries, StepWaits, StepBlames, StepCounts, StepPeriods, StepStale DEF IInv
<1>2. IInv /\ UNCHANGED vars => IInv'
  BY DEF IInv, TypeOK, Carried, Waiting, Leads, Blamed, Failing, Counted, MayLoad, Periods, At,
         BoundedStaleness, Life, vars, row, redis
<1> QED
  BY <1>1, <1>2, Steps, WriteKeeps, TickKeeps

-----------------------------------------------------------------------------
(* The cache: the theorems *)

\* The inductive invariant holds in every state the cache can reach.
THEOREM Invariance == Spec => []IInv
BY InitIInv, NextIInv, PTL DEF Spec

\* Calls, flights and the entry keep their types: sfGroup.Do has at most one flight
\* for the key on each node, and no call loads twice.
THEOREM TypeCorrect == Spec => []TypeOK
BY Invariance, PTL DEF IInv

\* Whatever is written, and however late a SET comes after its load, the cache is
\* not stale for longer than a lifetime and a flight.
THEOREM StalenessIsBounded == Spec => []BoundedStaleness
BY Invariance, PTL DEF IInv

\* Nothing failing, the second lookup keeps a node from loading twice for one miss.
THEOREM LoadsAreShared == Spec => []OneLoadPerMiss
<1>1. IInv => OneLoadPerMiss
  BY Parameters DEF IInv, TypeOK, Periods, OneLoadPerMiss
<1> QED
  BY <1>1, Invariance, PTL

\* An error of the loader is returned only to calls that were under way with it.
THEOREM ErrorsAreExplained == Spec => []ErrorsExplained
<1>1. IInv => ErrorsExplained
  BY DEF IInv, Blamed, ErrorsExplained
<1> QED
  BY <1>1, Invariance, PTL

-----------------------------------------------------------------------------
(* The online status: the inductive invariant *)

\* Without faults and overlaps, a connection that is up refreshed the key, or set
\* it, when it last had a Ping or later, and one that refreshes it sent its Ping
\* one Beat before.
KeptAlive ==
  failures = 0 /\ ~disturbed =>
    \A s \in Connections : /\ phase[s] = "up" => left + since[s] >= OnlineTTL
                           /\ phase[s] = "refreshing" => left + since[s] + Beat >= OnlineTTL

\* quiet runs from the moment at which the last connection goes.
Quiet == Up \cup Pending # {} => quiet = 0

PresenceIInv == PresenceTypeOK /\ KeptAlive /\ Quiet /\ GhostGone

-----------------------------------------------------------------------------
(* The online status: each action preserves the types *)

ConnectionStep(s) ==
  \/ Open(s) \/ Pong(s) \/ Close(s) \/ Fails(s) \/ Crash(s) \/ PongLost(s)
  \/ SetOnline(s) \/ RefreshOnline(s) \/ SetOffline(s)

LEMMA PresenceSteps ==
  ASSUME [PresenceNext]_presenceVars
  PROVE  (\E s \in Connections : ConnectionStep(s)) \/ KeyLost \/ Elapse \/ UNCHANGED presenceVars
BY DEF PresenceNext, ConnectionStep

LEMMA PresenceInitIInv == PresenceInit => PresenceIInv
<1> USE PresenceAssumption DEF PresenceAssumption
<1> SUFFICES ASSUME PresenceInit
             PROVE  PresenceIInv
  OBVIOUS
<1>1. Up = {} /\ Pending = {}
  BY DEF PresenceInit, Up, Pending
<1>2. PresenceTypeOK
  <2>1. /\ phase \in [Connections -> {"new", "setting", "up", "refreshing", "closing", "gone"}]
        /\ since \in [Connections -> 0 .. Beat]
        /\ {left, quiet} \subseteq 0 .. OnlineTTL /\ failures \in 0 .. MaxFailures
    BY DEF PresenceInit
  <2>2. disturbed \in BOOLEAN
    BY Zenon DEF PresenceInit
  <2> QED
    BY <1>1, <2>1, <2>2 DEF PresenceTypeOK
<1>3. KeptAlive
  BY DEF PresenceInit, KeptAlive
<1>4. Quiet /\ GhostGone
  BY <1>1 DEF PresenceInit, Quiet, GhostGone, IsOnline
<1> QED
  BY <1>2, <1>3, <1>4 DEF PresenceIInv

\* The values of phase and since are the only ones that a step of s changes.
LEMMA ConnectionTypes ==
  ASSUME PresenceTypeOK, NEW s \in Connections, ConnectionStep(s)
  PROVE  PresenceTypeOK'
<1> USE PresenceAssumption DEF PresenceAssumption
<1>1. /\ phase' \in [Connections -> {"new", "setting", "up", "refreshing", "closing", "gone"}]
      /\ since' \in [Connections -> 0 .. Beat]
  BY DEF PresenceTypeOK, ConnectionStep, Open, Pong, Close, Fails, Crash, PongLost, SetOnline,
         RefreshOnline, SetOffline, Move
<1>2. \A t \in Pending' : since'[t] <= MaxDelay
  BY DEF PresenceTypeOK, ConnectionStep, Open, Pong, Close, Fails, Crash, PongLost, SetOnline,
         RefreshOnline, SetOffline, Move, Pending
<1>3. left' \in 0 .. OnlineTTL /\ quiet' \in 0 .. OnlineTTL
  BY DEF PresenceTypeOK, ConnectionStep, Open, Pong, Close, Fails, Crash, PongLost, SetOnline,
         RefreshOnline, SetOffline
<1>4. disturbed' \in BOOLEAN
  <2>1. CASE SetOnline(s) \/ SetOffline(s)
    BY <2>1, Zenon DEF SetOnline, SetOffline
  <2>2. CASE UNCHANGED disturbed
    BY <2>2 DEF PresenceTypeOK
  <2> QED
    BY <2>1, <2>2 DEF ConnectionStep, Open, Pong, Close, Fails, Crash, PongLost, RefreshOnline
<1>5. failures' \in 0 .. MaxFailures
  BY DEF PresenceTypeOK, ConnectionStep, Open, Pong, Close, Fails, Crash, PongLost, SetOnline,
         RefreshOnline, SetOffline, Failure
<1> QED
  BY <1>1, <1>2, <1>3, <1>4, <1>5 DEF PresenceTypeOK

LEMMA ElapseTypes == PresenceTypeOK /\ Elapse => PresenceTypeOK'
BY PresenceAssumption DEF PresenceAssumption, PresenceTypeOK, Elapse, Up, Pending

LEMMA KeyLostTypes == PresenceTypeOK /\ KeyLost => PresenceTypeOK'
BY PresenceAssumption DEF PresenceAssumption, PresenceTypeOK, KeyLost, Failure, Pending

-----------------------------------------------------------------------------
(* The online status: each action preserves the rest *)

\* A fault ends the histories that KeptAlive is about.
LEMMA FailureCounted == PresenceTypeOK /\ Failure => failures' # 0
BY PresenceAssumption DEF PresenceAssumption, PresenceTypeOK, Failure

LEMMA ConnectionKeepsAlive ==
  ASSUME PresenceTypeOK, KeptAlive, NEW s \in Connections, ConnectionStep(s)
  PROVE  KeptAlive'
<1> USE PresenceAssumption DEF PresenceAssumption, PresenceTypeOK
<1> SUFFICES ASSUME failures' = 0, ~disturbed', NEW t \in Connections
             PROVE  /\ phase'[t] = "up" => left' + since'[t] >= OnlineTTL
                    /\ phase'[t] = "refreshing" => left' + since'[t] + Beat >= OnlineTTL
  BY DEF KeptAlive
<1>1. CASE Open(s) \/ Pong(s) \/ Close(s)
  BY <1>1 DEF KeptAlive, Open, Pong, Close, Move
<1>2. CASE Fails(s) \/ Crash(s) \/ PongLost(s)
  BY <1>2, FailureCounted DEF Fails, Crash, PongLost
<1>3. CASE SetOnline(s)
  BY <1>3 DEF SetOnline, Move
<1>4. CASE RefreshOnline(s)
  <2>1. left # 0
    <3>1. left + since[s] + Beat >= OnlineTTL /\ since[s] <= MaxDelay
      BY <1>4 DEF KeptAlive, RefreshOnline, Pending
    <3> QED
      BY <3>1
  <2> QED
    BY <1>4, <2>1 DEF RefreshOnline
<1>5. CASE SetOffline(s)
  BY <1>5 DEF SetOffline, Move, Up
<1> QED
  BY <1>1, <1>2, <1>3, <1>4, <1>5 DEF ConnectionStep

\* After any step of a connection but its last, there is a connection.
LEMMA ConnectionGhosts ==
  ASSUME PresenceTypeOK, Quiet, GhostGone, NEW s \in Connections, ConnectionStep(s)
  PROVE  Quiet' /\ GhostGone'
<1> USE PresenceAssumption DEF PresenceAssumption, PresenceTypeOK
<1>1. CASE Open(s)
  <2>1. s \in (Up \cup Pending)' /\ quiet' = 0
    BY <1>1 DEF Open, Move, Pending
  <2> QED
    BY <2>1 DEF Quiet, GhostGone
<1>2. CASE ~Open(s)
  <2>1. s \in Up \cup Pending /\ quiet = 0 /\ quiet' = 0
    BY <1>2 DEF ConnectionStep, Pong, Close, Fails, Crash, PongLost, SetOnline,
                RefreshOnline, SetOffline, Up, Pending, Quiet
  <2>2. Quiet'
    BY <2>1 DEF Quiet
  <2>3. ASSUME (Up \cup Pending)' = {}
        PROVE  failures' = 0 => left' = 0
    <3>1. phase'[s] \notin {"up", "refreshing", "setting", "closing"}
      BY <2>3 DEF Up, Pending
    <3>2. CASE Fails(s) \/ Crash(s) \/ PongLost(s)
      BY <3>2, FailureCounted DEF Fails, Crash, PongLost
    <3>3. CASE SetOffline(s)
      BY <3>3 DEF SetOffline
    <3>4. CASE Pong(s) \/ Close(s) \/ SetOnline(s) \/ RefreshOnline(s)
      BY <3>1, <3>4 DEF Pong, Close, SetOnline, RefreshOnline, Move
    <3> QED
      BY <1>2, <3>2, <3>3, <3>4 DEF ConnectionStep
  <2>4. left' \in 0 .. OnlineTTL
    BY ConnectionTypes
  <2> QED
    BY <2>1, <2>2, <2>3, <2>4 DEF GhostGone, IsOnline
<1> QED
  BY <1>1, <1>2

LEMMA ElapseKeepsAlive == PresenceTypeOK /\ KeptAlive /\ Elapse => KeptAlive'
<1> USE PresenceAssumption DEF PresenceAssumption, PresenceTypeOK
<1> SUFFICES ASSUME PresenceTypeOK, KeptAlive, Elapse, failures' = 0, ~disturbed', NEW t \in Connections
             PROVE  /\ phase'[t] = "up" => left' + since'[t] >= OnlineTTL
                    /\ phase'[t] = "refreshing" => left' + since'[t] + Beat >= OnlineTTL
  BY DEF KeptAlive
<1>1. phase' = phase /\ (t \in Up \cup Pending => since'[t] = since[t] + 1)
  BY DEF Elapse
<1> QED
  BY <1>1 DEF KeptAlive, Elapse, Up, Pending

LEMMA ElapseGhosts == PresenceTypeOK /\ Quiet /\ GhostGone /\ Elapse => Quiet' /\ GhostGone'
<1> USE PresenceAssumption DEF PresenceAssumption, PresenceTypeOK
<1> SUFFICES ASSUME PresenceTypeOK, Quiet, GhostGone, Elapse
             PROVE  Quiet' /\ GhostGone'
  OBVIOUS
<1>1. (Up \cup Pending)' = Up \cup Pending
  BY DEF Elapse, Up, Pending
<1> QED
  BY <1>1 DEF Elapse, Quiet, GhostGone, IsOnline

LEMMA PresenceNextIInv == PresenceIInv /\ [PresenceNext]_presenceVars => PresenceIInv'
<1> SUFFICES ASSUME PresenceIInv, [PresenceNext]_presenceVars
             PROVE  PresenceIInv'
  OBVIOUS
<1>1. ASSUME NEW s \in Connections, ConnectionStep(s)
      PROVE  PresenceIInv'
  BY <1>1, ConnectionTypes, ConnectionKeepsAlive, ConnectionGhosts DEF PresenceIInv
<1>2. CASE KeyLost
  <2>1. PresenceTypeOK'
    BY <1>2, KeyLostTypes DEF PresenceIInv
  <2>2. KeptAlive'
    BY <1>2, FailureCounted DEF PresenceIInv, KeptAlive, KeyLost
  <2>3. Quiet' /\ GhostGone'
    BY <1>2 DEF PresenceIInv, KeyLost, Quiet, GhostGone, IsOnline, Up, Pending
  <2> QED
    BY <2>1, <2>2, <2>3 DEF PresenceIInv
<1>3. CASE Elapse
  BY <1>3, ElapseTypes, ElapseKeepsAlive, ElapseGhosts DEF PresenceIInv
<1>4. CASE UNCHANGED presenceVars
  BY <1>4 DEF PresenceIInv, PresenceTypeOK, KeptAlive, Quiet, GhostGone, IsOnline, Up, Pending,
              presenceVars
<1> QED
  BY <1>1, <1>2, <1>3, <1>4, PresenceSteps

-----------------------------------------------------------------------------
(* The online status: the theorems *)

THEOREM PresenceInvariance == PresenceSpec => []PresenceIInv
BY PresenceInitIInv, PresenceNextIInv, PTL DEF PresenceSpec

\* Every variable keeps its type; in particular a command is executed in time.
THEOREM PresenceTypeCorrect == PresenceSpec => []PresenceTypeOK
BY PresenceInvariance, PTL DEF PresenceIInv

\* A connected user is online as long as nothing fails and no older connection
\* has deleted the key: SetOnline and RefreshOnline come soon enough.
THEOREM ConnectedIsOnline == PresenceSpec => []StaysOnline
<1>1. PresenceIInv => StaysOnline
  BY PresenceAssumption
     DEF PresenceAssumption, PresenceIInv, PresenceTypeOK, KeptAlive, StaysOnline, IsOnline, Up, Pending
<1> QED
  BY <1>1, PresenceInvariance, PTL

\* A user without a connection goes offline within the TTL, whatever has failed.
THEOREM GoneGoesOffline == PresenceSpec => []GhostGone
BY PresenceInvariance, PTL DEF PresenceIInv

================================================================================
