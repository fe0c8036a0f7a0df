------------------------------ MODULE Snowflake ------------------------------
(***************************************************************************)
(* The ID generators of utils/snowflake/snowflake.go: one Generator in     *)
(* each process of the deployment, its NextID called by several goroutines *)
(* under the generator's mutex, its wall clock moving both ways, and       *)
(* process restarts, which forget lastTime.                                *)
(*                                                                         *)
(* NextID holds the mutex from its first to its last line, so what it does *)
(* between two points where it waits is one step.                          *)
(***************************************************************************)

EXTENDS Naturals, Sequences

CONSTANTS
  Generators,   \* one generator per process
  Callers,      \* goroutines that call NextID, over and over
  home,         \* home[p]: the generator caller p uses
  machineID,    \* machineID[g]: snowflake.machine_id in the process of g
  Machines,     \* maxMachineID + 1
  MaxSequence,  \* maxSequence
  Epoch,        \* epoch, in milliseconds of the clock
  MaxWait,      \* the 5 ms of offset <= 5
  Free,         \* nobody holds the mutex
  MaxClock, MaxIDs, MaxJumps, MaxRestarts   \* bounds of the model

\* Init rejects a machine ID out of range; that no two processes share one is
\* left to the configuration.
ASSUME GeneratorAssumption ==
  /\ home \in [Callers -> Generators]
  /\ Machines \in Nat \ {0} /\ machineID \in [Generators -> 0 .. Machines - 1]
  /\ \A g, h \in Generators : machineID[g] = machineID[h] => g = h
  /\ MaxSequence \in Nat /\ Epoch \in Nat \ {0} /\ MaxWait \in Nat
  /\ Free \notin Callers
  /\ {MaxClock, MaxIDs, MaxJumps, MaxRestarts} \subseteq Nat

VARIABLES
  clock,      \* clock[g]: the wall clock of the process of g
  lastTime,   \* lastTime[g]
  sequence,   \* sequence[g]
  mu,         \* mu[g]: who holds the mutex across a wait
  pc,         \* pc[p]: "idle", "sleep" (time.Sleep), "spin" (waitNextMilli)
  left,       \* left[p]: milliseconds a sleeper has still to sleep
  issued,     \* the IDs returned so far, in the order they were assembled
  jumps,      \* times a clock was set back
  restarts,   \* times a process was restarted
  since       \* since[p]: jumps when caller p began to wait, 0 when it does not

vars == <<clock, lastTime, sequence, mu, pc, left, issued, jumps, restarts, since>>

\* ((now - epoch) << timestampShift) | (machineID << machineShift) | sequence
ID(e) ==
  ((e.time - Epoch) * Machines + machineID[e.gen]) * (MaxSequence + 1) + e.seq

IssuedID == [gen : Generators, time : Nat, seq : 0 .. MaxSequence]

TypeOK ==
  /\ clock \in [Generators -> Nat]
  /\ lastTime \in [Generators -> Nat]
  /\ sequence \in [Generators -> 0 .. MaxSequence]
  /\ mu \in [Generators -> Callers \cup {Free}]
  /\ pc \in [Callers -> {"idle", "sleep", "spin"}]
  /\ left \in [Callers -> 0 .. MaxWait]
  /\ issued \in Seq(IssuedID)
  /\ jumps \in Nat /\ restarts \in Nat
  /\ since \in [Callers -> Nat]

\* NewGenerator leaves sequence and lastTime at zero.
Init ==
  /\ clock = [g \in Generators |-> Epoch]
  /\ lastTime = [g \in Generators |-> 0]
  /\ sequence = [g \in Generators |-> 0]
  /\ mu = [g \in Generators |-> Free]
  /\ pc = [p \in Callers |-> "idle"]
  /\ left = [p \in Callers |-> 0]
  /\ issued = <<>>
  /\ jumps = 0 /\ restarts = 0
  /\ since = [p \in Callers |-> 0]

-----------------------------------------------------------------------------
(* NextID *)

\* The end of NextID with an ID: lastTime is kept and the mutex released.
Issue(p, g, t, s) ==
  /\ sequence' = [sequence EXCEPT ![g] = s]
  /\ lastTime' = [lastTime EXCEPT ![g] = t]
  /\ issued' = Append(issued, [gen |-> g, time |-> t, seq |-> s])
  /\ mu' = [mu EXCEPT ![g] = Free]
  /\ pc' = [pc EXCEPT ![p] = "idle"]
  /\ since' = [since EXCEPT ![p] = 0]
  /\ UNCHANGED left

\* The caller waits with the mutex in its hands.
Await(p, g, how, ms) ==
  /\ mu' = [mu EXCEPT ![g] = p]
  /\ pc' = [pc EXCEPT ![p] = how]
  /\ left' = [left EXCEPT ![p] = ms]
  /\ since' = [since EXCEPT ![p] = jumps]
  /\ UNCHANGED <<lastTime, issued>>

\* ErrClockBackward
Refuse(p, g) ==
  /\ mu' = [mu EXCEPT ![g] = Free]
  /\ pc' = [pc EXCEPT ![p] = "idle"]
  /\ since' = [since EXCEPT ![p] = 0]
  /\ UNCHANGED <<lastTime, sequence, left, issued>>

\* Mutant of Take: the sequence is not masked, its overflow never noticed.
TakeUnmasked(p, g) ==
  Issue(p, g, clock[g], IF clock[g] = lastTime[g] THEN sequence[g] + 1 ELSE 0)

\* now, just read from the clock, is not behind lastTime.
Take(p, g) ==
  \/ clock[g] > lastTime[g] /\ Issue(p, g, clock[g], 0)
  \/ /\ clock[g] = lastTime[g] /\ sequence[g] < MaxSequence
     /\ Issue(p, g, clock[g], sequence[g] + 1)
  \/ /\ clock[g] = lastTime[g] /\ sequence[g] = MaxSequence
     /\ sequence' = [sequence EXCEPT ![g] = 0]
     /\ Await(p, g, "spin", 0)

\* The call up to its return or its first wait.
NextID(p, g) ==
  \/ clock[g] >= lastTime[g] /\ Take(p, g)
  \/ /\ clock[g] < lastTime[g] /\ lastTime[g] - clock[g] <= MaxWait
     /\ Await(p, g, "sleep", lastTime[g] - clock[g])
     /\ UNCHANGED sequence
  \/ lastTime[g] - clock[g] > MaxWait /\ Refuse(p, g)

\* Mutant of Begin: the mutex is not held across the waits.
BeginUnlocked(p) ==
  /\ pc[p] = "idle" /\ Len(issued) < MaxIDs
  /\ NextID(p, home[p])
  /\ UNCHANGED <<clock, jumps, restarts>>

Begin(p) ==
  /\ pc[p] = "idle" /\ mu[home[p]] = Free /\ Len(issued) < MaxIDs
  /\ NextID(p, home[p])
  /\ UNCHANGED <<clock, jumps, restarts>>

\* Mutant of Wake: the sleep is one millisecond short.
WakeEarly(p) ==
  /\ pc[p] = "sleep" /\ left[p] <= 1
  /\ \/ clock[home[p]] >= lastTime[home[p]] /\ Take(p, home[p])
     \/ clock[home[p]] < lastTime[home[p]] /\ Refuse(p, home[p])
  /\ UNCHANGED <<clock, jumps, restarts>>

\* Mutant of Wake: the second test of the clock against lastTime is missing.
WakeBlind(p) ==
  /\ pc[p] = "sleep" /\ left[p] = 0
  /\ Issue(p, home[p], clock[home[p]],
           IF clock[home[p]] = lastTime[home[p]] /\ sequence[home[p]] < MaxSequence
           THEN sequence[home[p]] + 1 ELSE 0)
  /\ UNCHANGED <<clock, jumps, restarts>>

\* After the sleep the clock is read again and tested again.
Wake(p) ==
  /\ pc[p] = "sleep" /\ left[p] = 0
  /\ \/ clock[home[p]] >= lastTime[home[p]] /\ Take(p, home[p])
     \/ clock[home[p]] < lastTime[home[p]] /\ Refuse(p, home[p])
  /\ UNCHANGED <<clock, jumps, restarts>>

\* Mutant of Spin: the loop of waitNextMilli does not read the clock again.
SpinStale(p) == pc[p] = "spin" /\ FALSE

\* waitNextMilli: the read of the clock that ends the loop.
Spin(p) ==
  /\ pc[p] = "spin" /\ clock[home[p]] > lastTime[home[p]]
  /\ Issue(p, home[p], clock[home[p]], 0)
  /\ UNCHANGED <<clock, jumps, restarts>>

-----------------------------------------------------------------------------
(* Time, and the process *)

\* A caller in the process of g waits for time to pass.
Waiting(g) ==
  \E p \in Callers :
    home[p] = g /\ (left[p] > 0 \/ (pc[p] = "spin" /\ clock[g] <= lastTime[g]))

\* A millisecond passes.  The bound gives way to a caller that waits for it.
Tick(g) ==
  /\ clock[g] < MaxClock \/ Waiting(g)
  /\ clock' = [clock EXCEPT ![g] = @ + 1]
  /\ left' = [p \in Callers |-> IF home[p] = g /\ left[p] > 0 THEN left[p] - 1 ELSE left[p]]
  /\ UNCHANGED <<lastTime, sequence, mu, pc, issued, jumps, restarts, since>>

\* NTP or an operator sets the clock back; sleeps run on the monotonic clock.
SetBack(g) ==
  /\ jumps < MaxJumps
  /\ \E t \in Epoch .. clock[g] - 1 : clock' = [clock EXCEPT ![g] = t]
  /\ jumps' = jumps + 1
  /\ UNCHANGED <<lastTime, sequence, mu, pc, left, issued, restarts, since>>

\* The process dies and is started again, which takes a millisecond at least.
Restart(g) ==
  /\ restarts < MaxRestarts
  /\ clock' = [clock EXCEPT ![g] = @ + 1]
  /\ lastTime' = [lastTime EXCEPT ![g] = 0]
  /\ sequence' = [sequence EXCEPT ![g] = 0]
  /\ mu' = [mu EXCEPT ![g] = Free]
  /\ pc' = [p \in Callers |-> IF home[p] = g THEN "idle" ELSE pc[p]]
  /\ left' = [p \in Callers |-> IF home[p] = g THEN 0 ELSE left[p]]
  /\ since' = [p \in Callers |-> IF home[p] = g THEN 0 ELSE since[p]]
  /\ restarts' = restarts + 1
  /\ UNCHANGED <<issued, jumps>>

\* The model has issued all the IDs it may.
Exhausted == Len(issued) >= MaxIDs /\ (\A p \in Callers : pc[p] = "idle") /\ UNCHANGED vars

Next ==
  \/ \E p \in Callers : Begin(p) \/ Wake(p) \/ Spin(p)
  \/ \E g \in Generators : Tick(g) \/ SetBack(g) \/ Restart(g)
  \/ Exhausted

Spec == Init /\ [][Next]_vars

\* Time passes, and a caller whose wait is over goes on.
Fairness ==
  /\ \A g \in Generators : WF_vars(Tick(g))
  /\ \A p \in Callers : WF_vars(Wake(p)) /\ WF_vars(Spin(p))

FairSpec == Spec /\ Fairness

-----------------------------------------------------------------------------
(* Properties *)

\* The clock has never been set back, or no process has forgotten lastTime.
Sane == jumps = 0 \/ restarts = 0

\* No ID is handed out twice, by one generator or by two: through rollbacks of
\* the clock, overflow of the sequence, and restarts on a clock that only rises.
Unique ==
  Sane => \A i, j \in DOMAIN issued : ID(issued[i]) = ID(issued[j]) => i = j

\* A generator's IDs increase in the order in which NextID assembles them.
Increasing ==
  Sane => \A i, j \in DOMAIN issued :
            i < j /\ issued[i].gen = issued[j].gen => ID(issued[i]) < ID(issued[j])

\* A rollback of at most 5 ms is waited out: a sleeper is refused only when the
\* clock was set back again while it slept.
SmallRollbackAbsorbed ==
  [][\A p \in Callers :
       pc[p] = "sleep" /\ pc'[p] = "idle" /\ restarts' = restarts /\ since[p] = jumps
         => issued' # issued]_vars

\* NextID returns: neither the sleep nor the spin under the mutex lasts for ever.
CallsReturn == \A p \in Callers : pc[p] # "idle" ~> pc[p] = "idle"

=============================================================================
