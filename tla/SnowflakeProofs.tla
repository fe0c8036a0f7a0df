--------------------------- MODULE SnowflakeProofs ---------------------------
(***************************************************************************)
(* The safety of Snowflake for any number of processes, goroutines, IDs,   *)
(* rollbacks and restarts, any machine IDs and any size of the sequence.   *)
(***************************************************************************)

EXTENDS Snowflake, TLAPS

-----------------------------------------------------------------------------
(* The inductive invariant *)

\* Whoever waits holds the mutex of its generator.
Mutex == \A p \in Callers : pc[p] # "idle" => mu[home[p]] = p

\* The clock is never before the epoch, and not behind lastTime unless set back.
Clocks == \A g \in Generators : clock[g] >= Epoch /\ (jumps = 0 => lastTime[g] <= clock[g])

\* A sleeper wakes when the clock has caught up, unless it is set back meanwhile.
Sleepers ==
  \A p \in Callers :
    /\ since[p] <= jumps
    /\ pc[p] = "sleep" /\ since[p] = jumps => clock[home[p]] + left[p] >= lastTime[home[p]]

Spinning(g) == \E p \in Callers : home[p] = g /\ pc[p] = "spin"

\* Whatever g issues from now on is later than e: e is not after lastTime and the
\* sequence, or, when a restart has made g forget them, before the clock.
Past(e, g) ==
  \/ e.time < lastTime[g]
  \/ e.time = lastTime[g] /\ (e.seq <= sequence[g] \/ Spinning(g))
  \/ restarts > 0 /\ lastTime[g] = 0 /\ e.time < clock[g]

Before(d, e) == d.time < e.time \/ (d.time = e.time /\ d.seq < e.seq)

Ordered ==
  Sane => /\ \A i \in DOMAIN issued : Past(issued[i], issued[i].gen)
          /\ \A i, j \in DOMAIN issued :
               i < j /\ issued[i].gen = issued[j].gen => Before(issued[i], issued[j])

SinceEpoch == \A i \in DOMAIN issued : issued[i].time >= Epoch

IInv == TypeOK /\ Mutex /\ Clocks /\ Sleepers /\ SinceEpoch /\ Ordered
-----------------------------------------------------------------------------
(* The layout of an ID *)

\* The order of two numbers is that of their leading digits, for any base.
LEMMA LeadingDigit ==
  ASSUME NEW M \in Nat, NEW a \in Nat, NEW b \in Nat, NEW m \in 0 .. M - 1, NEW n \in 0 .. M - 1,
         a < b
  PROVE  a * M + m < b * M + n
<1>1. PICK c \in Nat : b = a + 1 + c
  <2>1. b - a - 1 \in Nat /\ b = a + 1 + (b - a - 1)
    OBVIOUS
  <2> QED
    BY <2>1
<1>2. b * M = a * M + M + c * M
  BY <1>1
<1>3. c * M \in Nat /\ a * M \in Nat /\ b * M \in Nat
  BY <1>1
<1> QED
  BY <1>2, <1>3

\* A number determines its digits.
LEMMA Digits ==
  ASSUME NEW M \in Nat, NEW a \in Nat, NEW b \in Nat, NEW m \in 0 .. M - 1, NEW n \in 0 .. M - 1,
         a * M + m = b * M + n
  PROVE  a = b /\ m = n
<1>0. a * M \in Nat /\ b * M \in Nat
  OBVIOUS
<1>1. ~(a < b) /\ ~(b < a)
  <2>1. a < b => a * M + m < b * M + n
    BY LeadingDigit
  <2>2. b < a => b * M + n < a * M + m
    BY LeadingDigit
  <2> QED
    BY <1>0, <2>1, <2>2
<1>2. a = b
  BY <1>1
<1>3. a * M = b * M
  BY <1>2
<1> QED
  BY <1>0, <1>2, <1>3

\* The time and the machine of an ID, which come before the sequence.
Prefix(e) == (e.time - Epoch) * Machines + machineID[e.gen]

LEMMA Layout ==
  ASSUME NEW e \in IssuedID, e.time >= Epoch
  PROVE  /\ e.time - Epoch \in Nat /\ machineID[e.gen] \in 0 .. Machines - 1 /\ Prefix(e) \in Nat
         /\ e.seq \in 0 .. (MaxSequence + 1) - 1 /\ ID(e) = Prefix(e) * (MaxSequence + 1) + e.seq
<1>1. e.time - Epoch \in Nat /\ machineID[e.gen] \in 0 .. Machines - 1 /\ machineID[e.gen] \in Nat /\ Machines \in Nat
  BY GeneratorAssumption DEF GeneratorAssumption, IssuedID
<1>2. (e.time - Epoch) * Machines \in Nat
  BY <1>1
<1>3. Prefix(e) \in Nat
  BY <1>1, <1>2 DEF Prefix
<1>4. e.seq \in 0 .. MaxSequence /\ (MaxSequence + 1) - 1 = MaxSequence
  BY GeneratorAssumption DEF GeneratorAssumption, IssuedID
<1> QED
  BY <1>1, <1>3, <1>4 DEF ID, Prefix

\* The IDs of one generator are ordered as their times and sequence numbers are.
LEMMA LaterIsGreater ==
  ASSUME NEW d \in IssuedID, NEW e \in IssuedID, d.time >= Epoch, e.time >= Epoch,
         d.gen = e.gen, Before(d, e)
  PROVE  ID(d) < ID(e)
<1> DEFINE S == MaxSequence + 1
<1>0. S \in Nat /\ Machines \in Nat
  BY GeneratorAssumption DEF GeneratorAssumption
<1>1. /\ d.time - Epoch \in Nat /\ e.time - Epoch \in Nat
      /\ machineID[d.gen] \in 0 .. Machines - 1 /\ machineID[e.gen] \in 0 .. Machines - 1
      /\ Prefix(d) \in Nat /\ Prefix(e) \in Nat /\ d.seq \in 0 .. S - 1 /\ e.seq \in 0 .. S - 1
      /\ ID(d) = Prefix(d) * S + d.seq /\ ID(e) = Prefix(e) * S + e.seq
  BY Layout
<1>2. CASE d.time < e.time
  <2>1. d.time - Epoch < e.time - Epoch
    BY <1>2, GeneratorAssumption DEF GeneratorAssumption, IssuedID
  <2>2. Prefix(d) < Prefix(e)
    BY <1>0, <1>1, <2>1, LeadingDigit DEF Prefix
  <2> HIDE DEF S
  <2> QED
    BY <1>0, <1>1, <2>2, LeadingDigit
<1>3. CASE d.time = e.time /\ d.seq < e.seq
  <2>1. Prefix(d) = Prefix(e)
    BY <1>3 DEF Prefix
  <2>2. Prefix(d) * S \in Nat
    BY <1>0, <1>1
  <2> HIDE DEF S
  <2> QED
    BY <1>1, <1>3, <2>1, <2>2
<1> QED
  BY <1>2, <1>3 DEF Before

\* No two generators share an ID.
LEMMA SameID ==
  ASSUME NEW d \in IssuedID, NEW e \in IssuedID, d.time >= Epoch, e.time >= Epoch, ID(d) = ID(e)
  PROVE  d.gen = e.gen /\ d.time = e.time /\ d.seq = e.seq
<1> DEFINE S == MaxSequence + 1
<1>0. S \in Nat /\ Machines \in Nat
  BY GeneratorAssumption DEF GeneratorAssumption
<1>1. /\ d.time - Epoch \in Nat /\ e.time - Epoch \in Nat
      /\ machineID[d.gen] \in 0 .. Machines - 1 /\ machineID[e.gen] \in 0 .. Machines - 1
      /\ Prefix(d) \in Nat /\ Prefix(e) \in Nat /\ d.seq \in 0 .. S - 1 /\ e.seq \in 0 .. S - 1
      /\ ID(d) = Prefix(d) * S + d.seq /\ ID(e) = Prefix(e) * S + e.seq
  BY Layout
<1>2. Prefix(d) = Prefix(e) /\ d.seq = e.seq
  <2> HIDE DEF S
  <2> QED
    BY <1>0, <1>1, Digits
<1>3. d.time - Epoch = e.time - Epoch /\ machineID[d.gen] = machineID[e.gen]
  <2> DEFINE a == d.time - Epoch
             b == e.time - Epoch
             m == machineID[d.gen]
             n == machineID[e.gen]
  <2>1. a * Machines + m = b * Machines + n
    BY <1>2 DEF Prefix
  <2>2. a \in Nat /\ b \in Nat /\ m \in 0 .. Machines - 1 /\ n \in 0 .. Machines - 1
    BY <1>1
  <2> HIDE DEF a, b, m, n
  <2>3. a = b /\ m = n
    BY <1>0, <2>1, <2>2, Digits
  <2> QED
    BY <2>3 DEF a, b, m, n
<1> QED
  BY <1>2, <1>3, GeneratorAssumption DEF GeneratorAssumption, IssuedID

-----------------------------------------------------------------------------
(* The steps of a caller *)

CallerStep(p) == Begin(p) \/ Wake(p) \/ Spin(p)

LEMMA Homes == \A p \in Callers : home[p] \in Generators
BY GeneratorAssumption DEF GeneratorAssumption

\* A caller does one of five things, and does it with the mutex.
LEMMA CallerSteps ==
  ASSUME TypeOK, Mutex, NEW p \in Callers, CallerStep(p)
  PROVE  LET g == home[p] IN
         /\ UNCHANGED <<clock, jumps, restarts>>
         /\ mu[g] \in {p, Free}
         /\ \/ clock[g] > lastTime[g] /\ Issue(p, g, clock[g], 0)
            \/ /\ clock[g] = lastTime[g] /\ sequence[g] < MaxSequence /\ pc[p] # "spin"
               /\ Issue(p, g, clock[g], sequence[g] + 1)
            \/ /\ clock[g] = lastTime[g] /\ pc[p] # "spin"
               /\ sequence' = [sequence EXCEPT ![g] = 0] /\ Await(p, g, "spin", 0)
            \/ /\ clock[g] < lastTime[g] /\ lastTime[g] - clock[g] <= MaxWait /\ pc[p] # "spin"
               /\ Await(p, g, "sleep", lastTime[g] - clock[g]) /\ UNCHANGED sequence
            \/ /\ clock[g] < lastTime[g] /\ pc[p] # "spin" /\ (pc[p] = "sleep" => left[p] = 0)
               /\ Refuse(p, g)
<1> DEFINE g == home[p]
<1>0. g \in Generators /\ clock[g] \in Nat /\ lastTime[g] \in Nat
  BY Homes DEF TypeOK
<1>1. (pc[p] = "idle" /\ mu[g] = Free) \/ (pc[p] \in {"sleep", "spin"} /\ mu[g] = p)
  BY DEF CallerStep, Begin, Wake, Spin, Mutex
<1>2. CASE Begin(p)
  <2>1. lastTime[g] - clock[g] > MaxWait => clock[g] < lastTime[g]
    BY <1>0, GeneratorAssumption DEF GeneratorAssumption
  <2> QED
    BY <1>1, <1>2, <2>1 DEF Begin, NextID, Take
<1>3. CASE Wake(p)
  BY <1>1, <1>3 DEF Wake, Take
<1>4. CASE Spin(p)
  BY <1>1, <1>4 DEF Spin
<1> QED
  BY <1>2, <1>3, <1>4 DEF CallerStep

\* Its step is about itself, its own generator, and one new ID at most.
LEMMA CallerFrame ==
  ASSUME TypeOK, Mutex, NEW p \in Callers, CallerStep(p)
  PROVE  /\ \A q \in Callers \ {p} : pc'[q] = pc[q] /\ left'[q] = left[q] /\ since'[q] = since[q]
         /\ \A h \in Generators \ {home[p]} :
              lastTime'[h] = lastTime[h] /\ sequence'[h] = sequence[h] /\ mu'[h] = mu[h]
<1> DEFINE g == home[p]
<1>1. ASSUME NEW t, NEW s, Issue(p, g, t, s)
      PROVE  /\ \A q \in Callers \ {p} : pc'[q] = pc[q] /\ left'[q] = left[q] /\ since'[q] = since[q]
             /\ \A h \in Generators \ {g} :
                  lastTime'[h] = lastTime[h] /\ sequence'[h] = sequence[h] /\ mu'[h] = mu[h]
  BY <1>1 DEF Issue, TypeOK
<1>2. ASSUME NEW how, NEW ms, Await(p, g, how, ms),
             sequence' = sequence \/ sequence' = [sequence EXCEPT ![g] = 0]
      PROVE  /\ \A q \in Callers \ {p} : pc'[q] = pc[q] /\ left'[q] = left[q] /\ since'[q] = since[q]
             /\ \A h \in Generators \ {g} :
                  lastTime'[h] = lastTime[h] /\ sequence'[h] = sequence[h] /\ mu'[h] = mu[h]
  <2>1. \A h \in Generators \ {g} : sequence'[h] = sequence[h]
    BY <1>2 DEF TypeOK
  <2> QED
    BY <1>2, <2>1 DEF Await, TypeOK
<1>3. ASSUME Refuse(p, g)
      PROVE  /\ \A q \in Callers \ {p} : pc'[q] = pc[q] /\ left'[q] = left[q] /\ since'[q] = since[q]
             /\ \A h \in Generators \ {g} :
                  lastTime'[h] = lastTime[h] /\ sequence'[h] = sequence[h] /\ mu'[h] = mu[h]
  BY <1>3 DEF Refuse, TypeOK
<1> QED
  BY <1>1, <1>2, <1>3, CallerSteps

LEMMA Steps ==
  [Next]_vars => \/ \E p \in Callers : CallerStep(p)
                 \/ \E g \in Generators : Tick(g) \/ SetBack(g) \/ Restart(g)
                 \/ UNCHANGED vars
BY DEF Next, CallerStep, Exhausted

-----------------------------------------------------------------------------
(* Each step preserves the types, the mutex, the clocks and the sleepers *)

LEMMA CallerTypes ==
  ASSUME TypeOK, Mutex, NEW p \in Callers, CallerStep(p)
  PROVE  TypeOK'
<1> USE GeneratorAssumption DEF GeneratorAssumption
<1> DEFINE g == home[p]
<1>0. g \in Generators /\ clock[g] \in Nat /\ lastTime[g] \in Nat /\ sequence[g] \in 0 .. MaxSequence
  BY Homes DEF TypeOK
<1>1. UNCHANGED <<clock, jumps, restarts>>
  BY CallerSteps
<1>2. ASSUME NEW s \in 0 .. MaxSequence, Issue(p, g, clock[g], s)
      PROVE  TypeOK'
  <2>1. issued' \in Seq(IssuedID)
    BY <1>0, <1>2 DEF Issue, TypeOK, IssuedID
  <2>2. /\ sequence' \in [Generators -> 0 .. MaxSequence] /\ lastTime' \in [Generators -> Nat]
        /\ mu' \in [Generators -> Callers \cup {Free}] /\ pc' \in [Callers -> {"idle", "sleep", "spin"}]
        /\ since' \in [Callers -> Nat] /\ left' = left
    BY <1>0, <1>2 DEF Issue, TypeOK
  <2> QED
    BY <1>1, <2>1, <2>2 DEF TypeOK
<1>3. ASSUME NEW how \in {"sleep", "spin"}, NEW ms \in 0 .. MaxWait, Await(p, g, how, ms),
             sequence' = sequence \/ sequence' = [sequence EXCEPT ![g] = 0]
      PROVE  TypeOK'
  <2>1. sequence' \in [Generators -> 0 .. MaxSequence]
    <3>1. CASE sequence' = sequence
      BY <3>1 DEF TypeOK
    <3>2. CASE sequence' = [sequence EXCEPT ![g] = 0]
      BY <3>2 DEF TypeOK
    <3> QED
      BY <1>3, <3>1, <3>2
  <2>2. left' \in [Callers -> 0 .. MaxWait] /\ lastTime' = lastTime /\ issued' = issued
    BY <1>3 DEF Await, TypeOK
  <2>3. /\ mu' \in [Generators -> Callers \cup {Free}] /\ pc' \in [Callers -> {"idle", "sleep", "spin"}]
        /\ since' \in [Callers -> Nat]
    BY <1>3 DEF Await, TypeOK
  <2> QED
    BY <1>1, <2>1, <2>2, <2>3 DEF TypeOK
<1>4. ASSUME Refuse(p, g)
      PROVE  TypeOK'
  BY <1>1, <1>4 DEF Refuse, TypeOK
<1>5. 0 \in 0 .. MaxSequence /\ (sequence[g] < MaxSequence => sequence[g] + 1 \in 0 .. MaxSequence)
  BY <1>0
<1>6. 0 \in 0 .. MaxWait
      /\ (clock[g] < lastTime[g] /\ lastTime[g] - clock[g] <= MaxWait => lastTime[g] - clock[g] \in 0 .. MaxWait)
  BY <1>0
<1> QED
  BY <1>2, <1>3, <1>4, <1>5, <1>6, CallerSteps

LEMMA ProcessTypes ==
  ASSUME TypeOK, NEW g \in Generators, Tick(g) \/ SetBack(g) \/ Restart(g)
  PROVE  TypeOK'
<1>0. issued' = issued /\ issued \in Seq(IssuedID)
  BY DEF Tick, SetBack, Restart, TypeOK
<1>t. /\ clock \in [Generators -> Nat] /\ lastTime \in [Generators -> Nat]
      /\ mu \in [Generators -> Callers \cup {Free}] /\ jumps \in Nat /\ restarts \in Nat
  BY DEF TypeOK
<1>p. pc \in [Callers -> {"idle", "sleep", "spin"}] /\ since \in [Callers -> Nat]
  BY DEF TypeOK
<1>1. clock' \in [Generators -> Nat] /\ jumps' \in Nat /\ restarts' \in Nat
  <2>1. Epoch \in Nat /\ \A t \in Epoch .. clock[g] - 1 : t \in Nat
    BY <1>t, GeneratorAssumption DEF GeneratorAssumption
  <2>2. CASE Tick(g)
    BY <1>t, <2>2 DEF Tick
  <2>3. CASE Restart(g)
    BY <1>t, <2>3 DEF Restart
  <2>4. CASE SetBack(g)
    BY <1>t, <2>1, <2>4 DEF SetBack
  <2> QED
    BY <2>2, <2>3, <2>4
<1>2. lastTime' \in [Generators -> Nat] /\ mu' \in [Generators -> Callers \cup {Free}]
  BY <1>t DEF Tick, SetBack, Restart
<1>3. sequence' \in [Generators -> 0 .. MaxSequence]
  <2>1. 0 \in 0 .. MaxSequence
    BY GeneratorAssumption DEF GeneratorAssumption
  <2> QED
    BY <2>1 DEF Tick, SetBack, Restart, TypeOK
<1>4. pc' \in [Callers -> {"idle", "sleep", "spin"}] /\ since' \in [Callers -> Nat]
  BY <1>p DEF Tick, SetBack, Restart
<1>5. left' \in [Callers -> 0 .. MaxWait]
  <2>1. \A p \in Callers : left[p] \in 0 .. MaxWait
    BY DEF TypeOK
  <2>2. 0 \in 0 .. MaxWait /\ \A k \in 0 .. MaxWait : k > 0 => k - 1 \in 0 .. MaxWait
    BY GeneratorAssumption DEF GeneratorAssumption
  <2>3. CASE Tick(g)
    BY <2>1, <2>2, <2>3 DEF Tick
  <2>4. CASE SetBack(g)
    BY <2>4 DEF SetBack, TypeOK
  <2>5. CASE Restart(g)
    BY <2>1, <2>2, <2>5 DEF Restart
  <2> QED
    BY <2>3, <2>4, <2>5
<1> QED
  BY <1>0, <1>1, <1>2, <1>3, <1>4, <1>5 DEF TypeOK

LEMMA TypeKeeps == TypeOK /\ Mutex /\ [Next]_vars => TypeOK'
<1> SUFFICES ASSUME TypeOK, Mutex, [Next]_vars
             PROVE  TypeOK'
  OBVIOUS
<1>1. CASE UNCHANGED vars
  BY <1>1 DEF TypeOK, vars
<1> QED
  BY <1>1, Steps, CallerTypes, ProcessTypes

\* What a step of p does to its waiting, and to whom the mutex is.
LEMMA MutexKeeps == TypeOK /\ Mutex /\ [Next]_vars => Mutex'
<1> USE GeneratorAssumption DEF GeneratorAssumption
<1> SUFFICES ASSUME TypeOK, Mutex, [Next]_vars
             PROVE  Mutex'
  OBVIOUS
<1>1. ASSUME NEW p \in Callers, CallerStep(p)
      PROVE  Mutex'
  <2> DEFINE g == home[p]
  <2>0. g \in Generators
    BY Homes
  <2>1. pc'[p] # "idle" => mu'[g] = p
    <3>1. (\E t, s : Issue(p, g, t, s)) \/ (\E how, ms : Await(p, g, how, ms)) \/ Refuse(p, g)
      BY <1>1, CallerSteps
    <3> QED
      BY <2>0, <3>1 DEF Issue, Await, Refuse, TypeOK
  <2>2. ASSUME NEW q \in Callers \ {p}, pc'[q] # "idle"
        PROVE  mu'[home[q]] = q
    <3>1. /\ pc'[q] = pc[q]
          /\ \A h \in Generators \ {g} : mu'[h] = mu[h]
      BY <1>1, CallerFrame
    <3>2. mu[home[q]] = q
      BY <2>2, <3>1 DEF Mutex
    <3>3. mu[g] \in {p, Free}
      BY <1>1, CallerSteps
    <3>4. home[q] # g
      BY <3>2, <3>3
    <3> QED
      BY <3>1, <3>2, <3>4, Homes
  <2> QED
    BY <2>1, <2>2 DEF Mutex
<1>2. ASSUME NEW g \in Generators, Restart(g)
      PROVE  Mutex'
  <2>1. ASSUME NEW q \in Callers, pc'[q] # "idle"
        PROVE  mu'[home[q]] = q
    <3>1. home[q] # g /\ pc'[q] = pc[q]
      BY <1>2, <2>1 DEF Restart
    <3> QED
      BY <1>2, <2>1, <3>1, Homes DEF Restart, Mutex, TypeOK
  <2> QED
    BY <2>1 DEF Mutex
<1>3. ASSUME NEW g \in Generators, Tick(g) \/ SetBack(g)
      PROVE  Mutex'
  BY <1>3 DEF Tick, SetBack, Mutex
<1>4. CASE UNCHANGED vars
  BY <1>4 DEF Mutex, vars
<1> QED
  BY <1>1, <1>2, <1>3, <1>4, Steps

LEMMA ClocksKeep == TypeOK /\ Mutex /\ Clocks /\ [Next]_vars => Clocks'
<1> USE GeneratorAssumption DEF GeneratorAssumption
<1> SUFFICES ASSUME TypeOK, Mutex, Clocks, [Next]_vars, NEW h \in Generators
             PROVE  clock'[h] >= Epoch /\ (jumps' = 0 => lastTime'[h] <= clock'[h])
  BY DEF Clocks
<1>0. clock[h] \in Nat /\ lastTime[h] \in Nat /\ clock[h] >= Epoch /\ (jumps = 0 => lastTime[h] <= clock[h])
  BY DEF TypeOK, Clocks
<1>1. ASSUME NEW p \in Callers, CallerStep(p)
      PROVE  clock'[h] >= Epoch /\ (jumps' = 0 => lastTime'[h] <= clock'[h])
  <2>1. UNCHANGED <<clock, jumps>>
    BY <1>1, CallerSteps
  <2>2. lastTime'[h] \in {lastTime[h], clock[h]}
    <3> DEFINE g == home[p]
    <3>1. lastTime' = [lastTime EXCEPT ![g] = clock[g]] \/ lastTime' = lastTime
      BY <1>1, CallerSteps DEF Issue, Await, Refuse
    <3> QED
      BY <3>1 DEF TypeOK
  <2> QED
    BY <1>0, <2>1, <2>2
<1>2. ASSUME NEW g \in Generators, Tick(g)
      PROVE  clock'[h] >= Epoch /\ (jumps' = 0 => lastTime'[h] <= clock'[h])
  <2>1. UNCHANGED <<jumps, lastTime>> /\ clock'[h] \in {clock[h], clock[h] + 1}
    BY <1>2 DEF Tick, TypeOK
  <2> QED
    BY <1>0, <2>1
<1>3. ASSUME NEW g \in Generators, SetBack(g)
      PROVE  clock'[h] >= Epoch /\ (jumps' = 0 => lastTime'[h] <= clock'[h])
  <2>1. jumps' = jumps + 1 /\ jumps \in Nat
    BY <1>3 DEF SetBack, TypeOK
  <2>2. clock'[h] = clock[h] \/ clock'[h] \in Epoch .. clock[g] - 1
    BY <1>3 DEF SetBack, TypeOK
  <2> QED
    BY <1>0, <2>1, <2>2
<1>4. ASSUME NEW g \in Generators, Restart(g)
      PROVE  clock'[h] >= Epoch /\ (jumps' = 0 => lastTime'[h] <= clock'[h])
  <2>1. jumps' = jumps /\ clock'[h] \in {clock[h], clock[h] + 1} /\ lastTime'[h] \in {lastTime[h], 0}
    BY <1>4 DEF Restart, TypeOK
  <2> QED
    BY <1>0, <2>1
<1>5. CASE UNCHANGED vars
  BY <1>0, <1>5 DEF vars
<1> QED
  BY <1>1, <1>2, <1>3, <1>4, <1>5, Steps

LEMMA SleepersKeep == TypeOK /\ Mutex /\ Sleepers /\ [Next]_vars => Sleepers'
<1> USE GeneratorAssumption DEF GeneratorAssumption
<1> DEFINE Sleeper(q) ==
      /\ since[q] <= jumps
      /\ pc[q] = "sleep" /\ since[q] = jumps => clock[home[q]] + left[q] >= lastTime[home[q]]
<1> SUFFICES ASSUME TypeOK, Mutex, Sleepers, [Next]_vars, NEW q \in Callers
             PROVE  Sleeper(q)'
  BY DEF Sleepers
<1>0. /\ Sleeper(q) /\ home[q] \in Generators /\ since[q] \in Nat /\ jumps \in Nat
      /\ clock[home[q]] \in Nat /\ lastTime[home[q]] \in Nat /\ left[q] \in Nat
  BY Homes DEF Sleepers, TypeOK
<1>1. ASSUME NEW p \in Callers, CallerStep(p)
      PROVE  Sleeper(q)'
  <2> DEFINE g == home[p]
  <2>0. UNCHANGED <<clock, jumps>> /\ g \in Generators
    BY <1>1, Homes, CallerSteps
  <2>1. CASE q = p
    <3>1. CASE \E t, s : Issue(p, g, t, s)
      BY <1>0, <2>0, <2>1, <3>1 DEF Issue, TypeOK
    <3>2. CASE Refuse(p, g)
      BY <1>0, <2>0, <2>1, <3>2 DEF Refuse, TypeOK
    <3>3. CASE Await(p, g, "spin", 0)
      BY <1>0, <2>0, <2>1, <3>3 DEF Await, TypeOK
    <3>4. CASE clock[g] < lastTime[g] /\ Await(p, g, "sleep", lastTime[g] - clock[g])
      <4>1. since'[p] = jumps /\ left'[p] = lastTime[g] - clock[g] /\ lastTime' = lastTime
        BY <3>4 DEF Await, TypeOK
      <4> QED
        BY <1>0, <2>0, <2>1, <3>4, <4>1
    <3> QED
      BY <1>1, <3>1, <3>2, <3>3, <3>4, CallerSteps
  <2>2. CASE q # p
    <3>1. /\ pc'[q] = pc[q] /\ left'[q] = left[q] /\ since'[q] = since[q]
          /\ \A h \in Generators \ {g} : lastTime'[h] = lastTime[h]
      BY <1>1, <2>2, CallerFrame
    <3>2. pc[q] = "sleep" => home[q] # g
      <4>1. mu[g] \in {p, Free}
        BY <1>1, CallerSteps
      <4> QED
        BY <2>2, <4>1 DEF Mutex
    <3> QED
      BY <1>0, <2>0, <3>1, <3>2
  <2> QED
    BY <2>1, <2>2
<1>2. ASSUME NEW g \in Generators, Tick(g)
      PROVE  Sleeper(q)'
  <2>1. UNCHANGED <<jumps, pc, since, lastTime>>
    BY <1>2 DEF Tick
  <2>2. CASE home[q] = g
    <3>1. clock'[g] = clock[g] + 1 /\ left'[q] = (IF left[q] > 0 THEN left[q] - 1 ELSE left[q])
      BY <1>2, <2>2 DEF Tick, TypeOK
    <3> QED
      BY <1>0, <2>1, <2>2, <3>1
  <2>3. CASE home[q] # g
    <3>1. clock'[home[q]] = clock[home[q]] /\ left'[q] = left[q]
      BY <1>0, <1>2, <2>3 DEF Tick, TypeOK
    <3> QED
      BY <1>0, <2>1, <3>1
  <2> QED
    BY <2>2, <2>3
<1>3. ASSUME NEW g \in Generators, SetBack(g)
      PROVE  Sleeper(q)'
  <2>1. jumps' = jumps + 1 /\ since' = since
    BY <1>3 DEF SetBack
  <2> QED
    BY <1>0, <2>1
<1>4. ASSUME NEW g \in Generators, Restart(g)
      PROVE  Sleeper(q)'
  <2>1. CASE home[q] = g
    BY <1>0, <1>4, <2>1 DEF Restart
  <2>2. CASE home[q] # g
    <3>1. /\ clock'[home[q]] = clock[home[q]] /\ lastTime'[home[q]] = lastTime[home[q]] /\ left'[q] = left[q]
          /\ pc'[q] = pc[q] /\ since'[q] = since[q] /\ jumps' = jumps
      BY <1>0, <1>4, <2>2 DEF Restart, TypeOK
    <3> QED
      BY <1>0, <3>1
  <2> QED
    BY <2>1, <2>2
<1>5. CASE UNCHANGED vars
  BY <1>0, <1>5 DEF vars
<1> QED
  BY <1>1, <1>2, <1>3, <1>4, <1>5, Steps

-----------------------------------------------------------------------------
(* The order of the IDs *)

LEMMA Issued ==
  ASSUME TypeOK
  PROVE  /\ Len(issued) \in Nat /\ DOMAIN issued = 1 .. Len(issued)
         /\ \A i \in DOMAIN issued : /\ issued[i] \in IssuedID /\ issued[i].gen \in Generators
                                     /\ issued[i].time \in Nat /\ issued[i].seq \in Nat
<1>1. issued \in Seq(IssuedID)
  BY DEF TypeOK
<1>2. Len(issued) \in Nat /\ DOMAIN issued = 1 .. Len(issued) /\ \A i \in DOMAIN issued : issued[i] \in IssuedID
  BY <1>1
<1>3. \A d \in IssuedID : d.gen \in Generators /\ d.time \in Nat /\ d.seq \in Nat
  BY GeneratorAssumption DEF GeneratorAssumption, IssuedID
<1> QED
  BY <1>2, <1>3

LEMMA Appended ==
  ASSUME NEW S, NEW q \in Seq(S), NEW e \in S
  PROVE  /\ DOMAIN Append(q, e) = DOMAIN q \cup {Len(q) + 1}
         /\ \A i \in DOMAIN q : Append(q, e)[i] = q[i]
         /\ Append(q, e)[Len(q) + 1] = e
<1>1. Len(q) \in Nat /\ DOMAIN q = 1 .. Len(q) /\ DOMAIN Append(q, e) = 1 .. Len(q) + 1
  OBVIOUS
<1> QED
  BY <1>1

LEMMA IssueOrdered ==
  ASSUME TypeOK, Mutex, Clocks, Ordered, NEW p \in Callers, CallerStep(p),
         NEW s \in 0 .. MaxSequence, Issue(p, home[p], clock[home[p]], s),
         LET g == home[p] IN
           \/ clock[g] > lastTime[g]
           \/ clock[g] = lastTime[g] /\ s = sequence[g] + 1 /\ pc[p] # "spin"
  PROVE  Ordered'
<1> USE GeneratorAssumption DEF GeneratorAssumption
<1> DEFINE g == home[p]
           e == [gen |-> g, time |-> clock[g], seq |-> s]
           n == Len(issued) + 1
<1>0. /\ g \in Generators /\ clock[g] \in Nat /\ lastTime[g] \in Nat /\ sequence[g] \in Nat
      /\ s \in Nat /\ n \in Nat /\ n \notin DOMAIN issued /\ DOMAIN issued \subseteq Nat
      /\ \A i \in DOMAIN issued : i < n
  <2>1. g \in Generators /\ clock[g] \in Nat /\ lastTime[g] \in Nat /\ sequence[g] \in Nat
    BY Homes DEF TypeOK
  <2>2. n \in Nat /\ n \notin DOMAIN issued /\ DOMAIN issued \subseteq Nat /\ \A i \in DOMAIN issued : i < n
    BY Issued
  <2> QED
    BY <2>1, <2>2
<1>1. SUFFICES ASSUME Sane'
               PROVE  /\ \A i \in DOMAIN issued' : Past(issued[i], issued[i].gen)'
                      /\ \A i, j \in DOMAIN issued' :
                           i < j /\ issued'[i].gen = issued'[j].gen => Before(issued'[i], issued'[j])
  BY DEF Ordered, Before
<1>2. UNCHANGED <<clock, jumps, restarts>>
  BY CallerSteps
<1>3. /\ \A i \in DOMAIN issued : Past(issued[i], issued[i].gen)
      /\ \A i, j \in DOMAIN issued : i < j /\ issued[i].gen = issued[j].gen => Before(issued[i], issued[j])
  BY <1>1, <1>2 DEF Ordered, Sane
<1>4. /\ DOMAIN issued' = DOMAIN issued \cup {n} /\ issued'[n] = e
      /\ \A i \in DOMAIN issued : issued'[i] = issued[i]
  <2>1. issued' = Append(issued, e) /\ issued \in Seq(IssuedID) /\ e \in IssuedID
    BY <1>0 DEF Issue, TypeOK, IssuedID
  <2> HIDE DEF e
  <2> QED
    BY <2>1, Appended
<1>5. lastTime'[g] = clock[g] /\ sequence'[g] = s
  BY <1>0 DEF Issue, TypeOK
<1>6. Spinning(g) => pc[p] = "spin"
  <2>1. mu[g] \in {p, Free} /\ Free \notin Callers
    BY CallerSteps
  <2> QED
    BY <2>1 DEF Spinning, Mutex
<1>7. ASSUME NEW i \in DOMAIN issued, issued[i].gen = g
      PROVE  Before(issued[i], e)
  <2>1. issued[i].time \in Nat /\ issued[i].seq \in Nat
    BY Issued
  <2>2. Past(issued[i], g)
    BY <1>3, <1>7
  <2>3. CASE issued[i].time < clock[g]
    BY <2>3 DEF Before
  <2>4. CASE ~(issued[i].time < clock[g])
    <3>0. clock[g] \in Nat /\ lastTime[g] \in Nat /\ sequence[g] \in Nat
      BY <1>0
    <3>1. lastTime[g] <= clock[g]
      BY <1>0
    <3>2. issued[i].time = lastTime[g] /\ (issued[i].seq <= sequence[g] \/ Spinning(g))
      BY <2>1, <2>2, <2>4, <3>0, <3>1 DEF Past
    <3>3. clock[g] = lastTime[g]
      BY <2>1, <2>4, <3>0, <3>1, <3>2
    <3>4. s = sequence[g] + 1 /\ pc[p] # "spin"
      BY <1>0, <3>3
    <3>5. issued[i].seq < s
      BY <1>6, <2>1, <3>0, <3>2, <3>4
    <3> QED
      BY <3>2, <3>3, <3>5 DEF Before
  <2> QED
    BY <2>3, <2>4
<1>8. ASSUME NEW i \in DOMAIN issued
      PROVE  Past(issued[i], issued[i].gen)'
  <2>0. issued'[i] = issued[i] /\ issued[i].gen \in Generators
    BY <1>4, Issued
  <2>1. CASE issued[i].gen = g
    <3>1. issued[i].time < clock[g] \/ (issued[i].time = clock[g] /\ issued[i].seq <= s)
      <4>1. Before(issued[i], e) /\ issued[i].seq \in Nat
        BY <1>7, <2>1, Issued
      <4> QED
        BY <1>0, <4>1 DEF Before
    <3> QED
      BY <1>5, <2>0, <2>1, <3>1 DEF Past
  <2>2. CASE issued[i].gen # g
    <3> DEFINE h == issued[i].gen
    <3>1. lastTime'[h] = lastTime[h] /\ sequence'[h] = sequence[h] /\ clock'[h] = clock[h] /\ restarts' = restarts
      BY <1>2, <2>0, <2>2, CallerFrame
    <3>2. Spinning(h) => Spinning(h)'
      BY <2>0, <2>2, CallerFrame DEF Spinning
    <3> QED
      BY <1>3, <2>0, <3>1, <3>2 DEF Past
  <2> QED
    BY <2>1, <2>2
<1>9. ASSUME NEW i \in DOMAIN issued', i \notin DOMAIN issued
      PROVE  Past(issued[i], issued[i].gen)'
  <2>1. issued'[i] = e
    BY <1>4, <1>9
  <2>2. issued'[i].gen = g /\ issued'[i].time = lastTime'[g] /\ issued'[i].seq = sequence'[g]
    BY <1>5, <2>1
  <2> QED
    BY <1>0, <1>5, <2>2 DEF Past
<1>10. ASSUME NEW i \in DOMAIN issued', NEW j \in DOMAIN issued', i < j, issued'[i].gen = issued'[j].gen
       PROVE  Before(issued'[i], issued'[j])
  <2>1. i \in DOMAIN issued
    BY <1>0, <1>4, <1>10
  <2>2. CASE j = n
    BY <1>4, <1>7, <1>10, <2>1, <2>2
  <2>3. CASE j \in DOMAIN issued
    BY <1>3, <1>4, <1>10, <2>1, <2>3
  <2> QED
    BY <1>4, <2>2, <2>3
<1> QED
  BY <1>8, <1>9, <1>10

\* A step that issues nothing keeps the order when it keeps what the IDs are past.
LEMMA StillOrdered ==
  ASSUME Ordered, issued' = issued, Sane' => Sane,
         \A i \in DOMAIN issued : Sane' /\ Past(issued[i], issued[i].gen) => Past(issued[i], issued[i].gen)'
  PROVE  Ordered'
BY DEF Ordered, Before

LEMMA WaitOrdered ==
  ASSUME TypeOK, Mutex, Ordered, NEW p \in Callers, CallerStep(p), issued' = issued
  PROVE  Ordered'
<1> DEFINE g == home[p]
<1>0. g \in Generators /\ UNCHANGED <<clock, jumps, restarts>>
  BY Homes, CallerSteps
<1>1. \A t, s : ~Issue(p, g, t, s)
  <2> SUFFICES ASSUME NEW t, NEW s, Issue(p, g, t, s)
               PROVE  FALSE
    OBVIOUS
  <2>1. issued' = Append(issued, [gen |-> g, time |-> t, seq |-> s]) /\ issued \in Seq(IssuedID)
    BY DEF Issue, TypeOK
  <2>2. Len(issued') = Len(issued) + 1 /\ Len(issued) \in Nat
    BY <2>1
  <2> QED
    BY <2>2
<1>2. /\ lastTime' = lastTime /\ pc[p] # "spin"
      /\ \/ sequence' = sequence
         \/ sequence' = [sequence EXCEPT ![g] = 0] /\ pc'[p] = "spin"
  BY <1>1, CallerSteps DEF Await, Refuse, TypeOK
<1>3. \A q \in Callers : pc[q] = "spin" => pc'[q] = "spin"
  BY <1>2, CallerFrame
<1>4. ASSUME NEW i \in DOMAIN issued, Past(issued[i], issued[i].gen)
      PROVE  Past(issued[i], issued[i].gen)'
  <2> DEFINE h == issued[i].gen
  <2>1. h \in Generators
    BY Issued
  <2>2. Spinning(h) => Spinning(h)'
    BY <1>3 DEF Spinning
  <2>3. sequence'[h] = sequence[h] \/ Spinning(h)'
    <3>1. CASE h = g
      BY <1>2, <3>1 DEF Spinning
    <3>2. CASE h # g
      BY <2>1, <3>2, CallerFrame
    <3> QED
      BY <3>1, <3>2
  <2> QED
    BY <1>0, <1>2, <1>4, <2>2, <2>3 DEF Past
<1> QED
  BY <1>0, <1>4, StillOrdered DEF Sane

LEMMA ProcessOrdered ==
  ASSUME TypeOK, Clocks, Ordered, NEW g \in Generators, Tick(g) \/ SetBack(g) \/ Restart(g)
  PROVE  Ordered'
<1> USE GeneratorAssumption DEF GeneratorAssumption
<1>0. issued' = issued /\ jumps \in Nat /\ restarts \in Nat
  BY DEF Tick, SetBack, Restart, TypeOK
<1>1. CASE Tick(g)
  <2>1. UNCHANGED <<jumps, restarts, lastTime, sequence, pc>>
    BY <1>1 DEF Tick
  <2>2. \A h \in Generators : clock[h] \in Nat /\ clock'[h] >= clock[h]
    <3>1. clock \in [Generators -> Nat]
      BY DEF TypeOK
    <3> QED
      BY <1>1, <3>1 DEF Tick
  <2>3. ASSUME NEW i \in DOMAIN issued, Past(issued[i], issued[i].gen)
        PROVE  Past(issued[i], issued[i].gen)'
    <3>1. issued[i].gen \in Generators /\ issued[i].time \in Nat
      BY Issued
    <3>2. TypeOK'
      BY <1>1, ProcessTypes
    <3>3. clock[issued[i].gen] \in Nat /\ clock'[issued[i].gen] \in Nat
      BY <3>1, <3>2 DEF TypeOK
    <3> QED
      BY <1>0, <2>1, <2>2, <2>3, <3>1, <3>3 DEF Past, Spinning
  <2> QED
    BY <1>0, <2>1, <2>3, StillOrdered DEF Sane
<1>2. CASE SetBack(g)
  <2>1. UNCHANGED <<restarts, lastTime, sequence, pc>> /\ jumps' = jumps + 1
    BY <1>2 DEF SetBack
  <2>2. ASSUME NEW i \in DOMAIN issued, Sane', Past(issued[i], issued[i].gen)
        PROVE  Past(issued[i], issued[i].gen)'
    <3>1. restarts = 0
      BY <1>0, <2>1, <2>2 DEF Sane
    <3> QED
      BY <1>0, <2>1, <2>2, <3>1 DEF Past, Spinning
  <2> QED
    BY <1>0, <2>1, <2>2, StillOrdered DEF Sane
<1>3. CASE Restart(g)
  <2>1. jumps' = jumps /\ restarts' = restarts + 1
    BY <1>3 DEF Restart
  <2>2. ASSUME NEW i \in DOMAIN issued, Sane', Past(issued[i], issued[i].gen)
        PROVE  Past(issued[i], issued[i].gen)'
    <3> DEFINE h == issued[i].gen
    <3>0. h \in Generators /\ issued[i].time \in Nat
      BY Issued
    <3>1. jumps = 0
      BY <1>0, <2>1, <2>2 DEF Sane
    <3>2. CASE h = g
      <4>1. clock[g] \in Nat /\ lastTime[g] \in Nat /\ lastTime[g] <= clock[g]
        BY <3>1 DEF TypeOK, Clocks
      <4>2. issued[i].time <= clock[g]
        BY <2>2, <3>0, <3>2, <4>1 DEF Past
      <4>3. clock'[g] = clock[g] + 1 /\ lastTime'[g] = 0
        BY <1>3 DEF Restart, TypeOK
      <4> QED
        BY <1>0, <2>1, <3>0, <3>2, <4>1, <4>2, <4>3 DEF Past
    <3>3. CASE h # g
      <4>1. clock'[h] = clock[h] /\ lastTime'[h] = lastTime[h] /\ sequence'[h] = sequence[h]
        BY <1>3, <3>0, <3>3 DEF Restart, TypeOK
      <4>2. Spinning(h) => Spinning(h)'
        BY <1>3, <3>3 DEF Restart, Spinning
      <4> QED
        BY <1>0, <2>1, <2>2, <4>1, <4>2 DEF Past
    <3> QED
      BY <3>2, <3>3
  <2> QED
    BY <1>0, <2>1, <2>2, StillOrdered DEF Sane
<1> QED
  BY <1>1, <1>2, <1>3

LEMMA OrderKeeps == TypeOK /\ Mutex /\ Clocks /\ Ordered /\ [Next]_vars => Ordered'
<1> SUFFICES ASSUME TypeOK, Mutex, Clocks, Ordered, [Next]_vars
             PROVE  Ordered'
  OBVIOUS
<1>1. ASSUME NEW p \in Callers, CallerStep(p)
      PROVE  Ordered'
  <2> DEFINE g == home[p]
  <2>0. 0 \in 0 .. MaxSequence /\ (sequence[g] < MaxSequence => sequence[g] + 1 \in 0 .. MaxSequence)
    <3>1. MaxSequence \in Nat /\ sequence[g] \in 0 .. MaxSequence
      BY Homes, GeneratorAssumption DEF GeneratorAssumption, TypeOK
    <3> QED
      BY <3>1
  <2>1. CASE clock[g] > lastTime[g] /\ Issue(p, g, clock[g], 0)
    BY <1>1, <2>0, <2>1, IssueOrdered
  <2>2. CASE /\ clock[g] = lastTime[g] /\ sequence[g] < MaxSequence /\ pc[p] # "spin"
             /\ Issue(p, g, clock[g], sequence[g] + 1)
    BY <1>1, <2>0, <2>2, IssueOrdered
  <2>3. CASE issued' = issued
    BY <1>1, <2>3, WaitOrdered
  <2> QED
    BY <1>1, <2>1, <2>2, <2>3, CallerSteps DEF Await, Refuse
<1>2. CASE UNCHANGED vars
  BY <1>2 DEF vars, Ordered, Before, Past, Spinning, Sane
<1> QED
  BY <1>1, <1>2, Steps, ProcessOrdered

LEMMA SinceEpochKeeps == TypeOK /\ Mutex /\ Clocks /\ SinceEpoch /\ [Next]_vars => SinceEpoch'
<1> SUFFICES ASSUME TypeOK, Mutex, Clocks, SinceEpoch, [Next]_vars
             PROVE  SinceEpoch'
  OBVIOUS
<1>1. CASE issued' = issued
  BY <1>1 DEF SinceEpoch
<1>2. ASSUME NEW p \in Callers, CallerStep(p), issued' # issued
      PROVE  SinceEpoch'
  <2> DEFINE g == home[p]
  <2>0. g \in Generators /\ clock[g] >= Epoch
    BY Homes DEF Clocks
  <2>1. PICK s \in {0, sequence[g] + 1} : issued' = Append(issued, [gen |-> g, time |-> clock[g], seq |-> s])
    BY <1>2, CallerSteps DEF Issue, Await, Refuse
  <2> DEFINE e == [gen |-> g, time |-> clock[g], seq |-> s]
  <2>2. /\ DOMAIN issued' = DOMAIN issued \cup {Len(issued) + 1} /\ issued'[Len(issued) + 1] = e
        /\ \A i \in DOMAIN issued : issued'[i] = issued[i]
    <3>1. issued \in Seq(IssuedID \cup {e}) /\ e \in IssuedID \cup {e}
      BY DEF TypeOK
    <3> HIDE DEF e
    <3>2. issued' = Append(issued, e)
      BY <2>1 DEF e
    <3> QED
      BY <3>1, <3>2, Appended
  <2> QED
    BY <2>0, <2>2 DEF SinceEpoch
<1> QED
  BY <1>1, <1>2, Steps DEF Tick, SetBack, Restart, vars

-----------------------------------------------------------------------------
(* The theorems *)

\* The inductive invariant holds in every state the generators can reach.
THEOREM Invariance == Spec => []IInv
<1> USE GeneratorAssumption DEF GeneratorAssumption
<1>1. Init => IInv
  <2> SUFFICES ASSUME Init
               PROVE  IInv
    OBVIOUS
  <2>1. issued = <<>> /\ issued \in Seq(IssuedID) /\ DOMAIN issued = {}
    BY DEF Init
  <2>2. TypeOK
    BY <2>1 DEF Init, TypeOK
  <2>3. Mutex /\ Clocks /\ Sleepers
    BY DEF Init, Mutex, Clocks, Sleepers
  <2> QED
    BY <2>1, <2>2, <2>3 DEF IInv, SinceEpoch, Ordered
<1>2. IInv /\ [Next]_vars => IInv'
  BY TypeKeeps, MutexKeeps, ClocksKeep, SleepersKeep, OrderKeeps, SinceEpochKeeps DEF IInv
<1> QED
  BY <1>1, <1>2, PTL DEF Spec

\* The fields of the generators keep their types: the sequence never outgrows the
\* bits it has in an ID, and a sleep is never longer than the 5 ms of the code.
THEOREM TypeCorrect == Spec => []TypeOK
BY Invariance, PTL DEF IInv

\* The IDs of a generator increase: through rollbacks, exhausted milliseconds, and
\* restarts on a clock that only rises, NextID never goes back behind an ID.
THEOREM IDsIncrease == Spec => []Increasing
<1>1. IInv => Increasing
  <2> SUFFICES ASSUME IInv, Sane, NEW i \in DOMAIN issued, NEW j \in DOMAIN issued,
                      i < j, issued[i].gen = issued[j].gen
               PROVE  ID(issued[i]) < ID(issued[j])
    BY DEF Increasing
  <2>1. issued[i] \in IssuedID /\ issued[j] \in IssuedID /\ issued[i].time >= Epoch /\ issued[j].time >= Epoch
    BY Issued DEF IInv, SinceEpoch
  <2>2. Before(issued[i], issued[j])
    BY DEF IInv, Ordered
  <2> QED
    BY <2>1, <2>2, LaterIsGreater
<1> QED
  BY <1>1, Invariance, PTL

\* No ID is handed out twice by all the processes together, as long as each has a
\* machine ID of its own: two equal IDs would agree in time, machine and sequence.
THEOREM IDsAreUnique == Spec => []Unique
<1>1. IInv => Unique
  <2> SUFFICES ASSUME IInv, Sane, NEW i \in DOMAIN issued, NEW j \in DOMAIN issued,
                      ID(issued[i]) = ID(issued[j])
               PROVE  i = j
    BY DEF Unique
  <2>1. /\ issued[i] \in IssuedID /\ issued[j] \in IssuedID /\ issued[i].time >= Epoch /\ issued[j].time >= Epoch
        /\ issued[i].time \in Nat /\ issued[i].seq \in Nat /\ i \in Nat /\ j \in Nat
    BY Issued DEF IInv, SinceEpoch
  <2>2. issued[i].gen = issued[j].gen /\ issued[i].time = issued[j].time /\ issued[i].seq = issued[j].seq
    BY <2>1, SameID
  <2>3. ~Before(issued[i], issued[j]) /\ ~Before(issued[j], issued[i])
    BY <2>1, <2>2 DEF Before
  <2>4. ~(i < j) /\ ~(j < i)
    BY <2>2, <2>3 DEF IInv, Ordered
  <2> QED
    BY <2>1, <2>4
<1> QED
  BY <1>1, Invariance, PTL

\* NextID refuses a caller that has slept only when the clock was set back again
\* while it slept: the sleep is exactly as long as the clock was behind.
THEOREM RollbackAbsorbed == Spec => SmallRollbackAbsorbed
<1>1. IInv /\ [Next]_vars => [\A p \in Callers :
        pc[p] = "sleep" /\ pc'[p] = "idle" /\ restarts' = restarts /\ since[p] = jumps
          => issued' # issued]_vars
  <2> SUFFICES ASSUME IInv, [Next]_vars, NEW p \in Callers,
                      pc[p] = "sleep", pc'[p] = "idle", restarts' = restarts, since[p] = jumps
               PROVE  issued' # issued
    OBVIOUS
  <2> DEFINE g == home[p]
  <2>0. TypeOK /\ Mutex /\ Sleepers /\ restarts \in Nat
    BY DEF IInv, TypeOK
  <2>1. CallerStep(p)
    <3>1. \A q \in Callers : CallerStep(q) => q = p
      BY <2>0, CallerFrame
    <3> QED
      BY <2>0, <3>1, Steps DEF Tick, SetBack, Restart, vars
  <2>2. SUFFICES ASSUME issued' = issued
                 PROVE  FALSE
    OBVIOUS
  <2>3. \A t, s : ~Issue(p, g, t, s)
    <3> SUFFICES ASSUME NEW t, NEW s, Issue(p, g, t, s)
                 PROVE  FALSE
      OBVIOUS
    <3>1. issued' = Append(issued, [gen |-> g, time |-> t, seq |-> s]) /\ issued \in Seq(IssuedID)
      BY <2>0 DEF Issue, TypeOK
    <3>2. Len(issued') = Len(issued) + 1 /\ Len(issued) \in Nat
      BY <3>1
    <3> QED
      BY <2>2, <3>2
  <2>4. \A how, ms : how \in {"sleep", "spin"} => ~Await(p, g, how, ms)
    BY <2>0 DEF Await, TypeOK
  <2>5. clock[g] < lastTime[g] /\ left[p] = 0
    BY <2>0, <2>1, <2>3, <2>4, CallerSteps
  <2>6. clock[g] + left[p] >= lastTime[g]
    BY <2>0 DEF Sleepers
  <2>7. clock[g] \in Nat /\ lastTime[g] \in Nat
    BY <2>0, Homes DEF TypeOK
  <2> QED
    BY <2>5, <2>6, <2>7
<1> QED
  BY <1>1, Invariance, PTL DEF Spec, SmallRollbackAbsorbed

=============================================================================
