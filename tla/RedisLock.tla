------------------------------ MODULE RedisLock ------------------------------
(***************************************************************************)
(* The distributed lock of utils/redis/lock.go: TryLock, the watchdog that *)
(* renewLock runs, and Unlock, with the one key in Redis they work on.     *)
(*                                                                         *)
(* A command is sent, served by Redis, and answered, in three steps, and   *)
(* any of them may be late or fail.  Time is counted in ticks; a key keeps *)
(* the ticks it has left to live, so no clock has to be bounded.           *)
(*                                                                         *)
(* Every TryLock makes a nonce and a context.  Both are named by the       *)
(* RedisLock value and the number of the call, <<l, k>>, and so is the     *)
(* watchdog that the call starts.                                          *)
(***************************************************************************)

EXTENDS Naturals, FiniteSets

CONSTANTS
  Locks,       \* RedisLock values on one key, each in a process of its own
  rounds,      \* bound of the model: rounds[l] calls of TryLock on value l
  Expire,      \* lock_expire, in ticks
  Renew,       \* lock_renew, in ticks
  MaxDelay,    \* ticks a command may take before it counts as late
  Free,        \* the key does not exist
  MaxFaults,   \* bound of the model: late, failed, lost and resent commands,
               \* contexts that end early, crashes
  Budgets      \* bound of the model: the calls and faults a history has together

Nonce == UNION {{l} \X (1 .. rounds[l]) : l \in Locks}

\* With the configured 3 s and 1 s a command may take just under one second.
ASSUME LockAssumption ==
  /\ rounds \in [Locks -> Nat \ {0}]
  /\ {Expire, Renew} \subseteq Nat \ {0}
  /\ {MaxDelay, MaxFaults} \subseteq Nat
  /\ 2 * MaxDelay + Renew < Expire
  /\ Free \notin Locks \X Nat
  /\ Budgets \subseteq [calls : [Locks -> Nat], faults : Nat]

\* A history may have r[l] calls on each value l, and f faults.
Affordable(r, f) ==
  \E b \in Budgets : f <= b.faults /\ \A l \in Locks : r[l] <= b.calls[l]

VARIABLES
  owner,     \* the value of the key
  ttl,       \* ticks until it expires, 0 when there is no key
  round,     \* round[l]: calls of TryLock so far; l.nonce and l.ctx are the last
  pc,        \* pc[l]: "idle", "setnx", "held", "unlock" or "dead"
  reply,     \* reply[l]: what Redis answered the command of the caller
  age,       \* age[l]: ticks since that command was sent
  result,    \* result[l]: what the last call on l returned
  ended,     \* contexts that have ended
  watch,     \* watch[n]: "none", "start", "select", "eval" or "gone"
  uses,      \* uses[n]: the call whose context and nonce watchdog n has read
  answer,    \* answer[n]: what Redis answered its script
  wage,      \* wage[n]: ticks since the script was sent
  timer,     \* timer[n]: ticks until its ticker fires
  fired,     \* watchdogs whose ticker has fired
  stray,     \* copies of commands that their sender waits for no longer and Redis
             \* may still get, with their sender and the fault that left them
  intruded,  \* locks somebody else's SETNX succeeded against while they were held
  resent,    \* locks whose last SETNX was sent again with a copy on its way
  faults

keyVars    == <<owner, ttl, intruded>>
callerVars == <<round, pc, reply, age, result, resent>>
watchVars  == <<watch, uses, answer, wage, timer, fired>>
vars == <<keyVars, callerVars, ended, watchVars, stray, faults>>

-----------------------------------------------------------------------------
Op == {"set", "del", "expire"}

\* "no" is the answer 0 of SETNX and of both scripts, "yes" any other.
Reply == {"none", "yes", "no"}
Answer == Reply \ {"none"}

\* A command, the nonce it is for, the call or watchdog that has sent it, and the
\* number of faults before it was left behind.
Copy == Op \X Nonce \X Nonce \X (0 .. MaxFaults)

\* Apart from "none": nil from TryLock, ErrLockAcquire, another error; nil from
\* Unlock, ErrLockExpire, ErrLockRelease.
Result == {"none", "locked", "taken", "error", "released", "expired", "unreleased"}

TypeOK ==
  /\ owner \in Nonce \cup {Free}
  /\ ttl \in 0 .. Expire
  /\ owner = Free <=> ttl = 0
  /\ round \in {f \in [Locks -> Nat] : \A l \in Locks : f[l] <= rounds[l]}
  /\ pc \in [Locks -> {"idle", "setnx", "held", "unlock", "dead"}]
  /\ reply \in [Locks -> Reply]
  /\ age \in [Locks -> 0 .. MaxDelay]
  /\ result \in [Locks -> Result]
  /\ ended \subseteq Nonce
  /\ watch \in [Nonce -> {"none", "start", "select", "eval", "gone"}]
  /\ uses \in {f \in [Nonce -> Nat] : \A n \in Nonce : f[n] <= rounds[n[1]]}
  /\ answer \in [Nonce -> Reply]
  /\ wage \in [Nonce -> 0 .. MaxDelay]
  /\ timer \in [Nonce -> 0 .. Renew]
  /\ fired \subseteq Nonce
  /\ stray \subseteq Copy
  /\ intruded \subseteq Locks
  /\ resent \subseteq Locks
  /\ faults \in 0 .. MaxFaults

Init ==
  /\ owner = Free /\ ttl = 0
  /\ round = [l \in Locks |-> 0]
  /\ pc = [l \in Locks |-> "idle"]
  /\ reply = [l \in Locks |-> "none"]
  /\ age = [l \in Locks |-> 0]
  /\ result = [l \in Locks |-> "none"]
  /\ ended = {}
  /\ watch = [n \in Nonce |-> "none"]
  /\ uses = [n \in Nonce |-> 0]
  /\ answer = [n \in Nonce |-> "none"]
  /\ wage = [n \in Nonce |-> 0]
  /\ timer = [n \in Nonce |-> 0]
  /\ fired = {}
  /\ stray = {}
  /\ intruded = {}
  /\ resent = {}
  /\ faults = 0

Fault == faults < MaxFaults /\ Affordable(round, faults + 1) /\ faults' = faults + 1

\* The fields nonce and ctx of l.
Current(l) == <<l, round[l]>>

-----------------------------------------------------------------------------
(* Redis.  Each of the three commands is atomic. *)

\* l has been granted the key and has not been told that it is deleted.
Believes(l) ==
  \/ pc[l] = "held"
  \/ pc[l] = "setnx" /\ reply[l] = "yes"
  \/ pc[l] = "unlock" /\ reply[l] = "none"

\* Mutant of SetNX: the key is set without an expiry.
SetNXForever(n, ans) ==
  /\ ans = IF owner = Free THEN "yes" ELSE "no"
  /\ owner' = IF owner = Free THEN n ELSE owner
  /\ intruded' = IF owner = Free THEN intruded \cup {l \in Locks \ {n[1]} : Believes(l)} ELSE intruded
  /\ UNCHANGED ttl

\* SET key nonce NX EX expire
SetNX(n, ans) ==
  \/ /\ owner = Free /\ ans = "yes"
     /\ owner' = n /\ ttl' = Expire
     /\ intruded' = intruded \cup {l \in Locks \ {n[1]} : Believes(l)}
  \/ owner # Free /\ ans = "no" /\ UNCHANGED keyVars

\* Mutant of Del: the script does not compare the nonce.
DelAny(n, ans) ==
  /\ ans = IF owner = Free THEN "no" ELSE "yes"
  /\ owner' = Free /\ ttl' = 0 /\ UNCHANGED intruded

\* The script of Unlock.
Del(n, ans) ==
  \/ owner = n /\ ans = "yes" /\ owner' = Free /\ ttl' = 0 /\ UNCHANGED intruded
  \/ owner # n /\ ans = "no" /\ UNCHANGED keyVars

\* Mutant of Extend: the key is given the renewal interval to live.
ExtendShort(n, ans) ==
  \/ owner = n /\ ans = "yes" /\ ttl' = Renew /\ UNCHANGED <<owner, intruded>>
  \/ owner # n /\ ans = "no" /\ UNCHANGED keyVars

\* The script of renewLock.
Extend(n, ans) ==
  \/ owner = n /\ ans = "yes" /\ ttl' = Expire /\ UNCHANGED <<owner, intruded>>
  \/ owner # n /\ ans = "no" /\ UNCHANGED keyVars

\* Command op is executed for nonce n and answered with ans.
Run(op, n, ans) ==
  \/ op = "set" /\ SetNX(n, ans)
  \/ op = "del" /\ Del(n, ans)
  \/ op = "expire" /\ Extend(n, ans)

\* A command left behind arrives after all, or is lost.
Stray(s) ==
  /\ s \in stray
  /\ stray' = stray \ {s}
  /\ (\E ans \in Answer : Run(s[1], s[2], ans)) \/ UNCHANGED keyVars
  /\ UNCHANGED <<callerVars, ended, watchVars, faults>>

-----------------------------------------------------------------------------
(* TryLock and Unlock *)

Send(l, p) ==
  /\ pc' = [pc EXCEPT ![l] = p]
  /\ reply' = [reply EXCEPT ![l] = "none"]
  /\ age' = [age EXCEPT ![l] = 0]

Returns(l, p, res) ==
  /\ Send(l, p)
  /\ result' = [result EXCEPT ![l] = res]
  /\ UNCHANGED <<round, resent>>

MayCall(l) ==
  /\ pc[l] = "idle" /\ round[l] < rounds[l]
  /\ Affordable([round EXCEPT ![l] = @ + 1], faults)

\* A new nonce, a new context, and SETNX is sent.
TryLock(l) ==
  /\ MayCall(l)
  /\ round' = [round EXCEPT ![l] = @ + 1]
  /\ Send(l, "setnx")
  /\ result' = [result EXCEPT ![l] = "none"]
  /\ intruded' = intruded \ {l} /\ resent' = resent \ {l}
  /\ UNCHANGED <<owner, ttl, ended, watchVars, stray, faults>>

\* Redis serves the command of the caller.
Serve(l) ==
  /\ reply[l] = "none"
  /\ \E ans \in Answer :
       /\ \/ pc[l] = "setnx" /\ SetNX(Current(l), ans)
          \/ pc[l] = "unlock" /\ Del(Current(l), ans)
       /\ reply' = [reply EXCEPT ![l] = ans]
  /\ UNCHANGED <<round, pc, age, result, resent, ended, watchVars, stray, faults>>

\* The end of TryLock; with the lock, a watchdog is started.
TryReturns(l) ==
  /\ pc[l] = "setnx"
  /\ \/ /\ reply[l] = "yes" /\ Returns(l, "held", "locked")
        /\ watch' = [watch EXCEPT ![Current(l)] = "start"]
     \/ reply[l] = "no" /\ Returns(l, "idle", "taken") /\ UNCHANGED watch
  /\ UNCHANGED <<keyVars, ended, uses, answer, wage, timer, fired, stray, faults>>

\* The script is not sent on a context that has ended; the deferred cancel ends
\* it when it has not.  The caller unlocks what it has locked.
Unlock(l) ==
  /\ pc[l] = "held"
  /\ \/ /\ Current(l) \notin ended
        /\ Send(l, "unlock")
        /\ UNCHANGED <<round, result, resent>>
     \/ Current(l) \in ended /\ Returns(l, "idle", "unreleased")
  /\ UNCHANGED <<keyVars, ended, watchVars, stray, faults>>

UnlockReturns(l) ==
  /\ pc[l] = "unlock" /\ reply[l] # "none"
  /\ Returns(l, "idle", IF reply[l] = "yes" THEN "released" ELSE "expired")
  /\ ended' = ended \cup {Current(l)}
  /\ UNCHANGED <<keyVars, watchVars, stray, faults>>

\* The command of the caller, and that of watchdog n, if Redis has not served it.
Unserved(l) ==
  {s \in {"set", "del"} \X {Current(l)} \X {Current(l)} \X {faults} :
     reply[l] = "none" /\ pc[l] = IF s[1] = "set" THEN "setnx" ELSE "unlock"}

UnservedScript(n) ==
  {s \in {"expire"} \X Nonce \X {n} \X {faults} :
     s[2] = <<n[1], uses[n]>> /\ watch[n] = "eval" /\ answer[n] = "none"}

\* The sender waits no longer for these commands: each is lost or still on its way.
Abandon(commands) == \E left \in SUBSET commands : stray' = stray \cup left

TryFails(l) ==
  /\ pc[l] = "setnx" /\ Fault
  /\ Abandon(Unserved(l))
  /\ Returns(l, "idle", "error")
  /\ UNCHANGED <<keyVars, ended, watchVars>>

\* Mutant of UnlockFails: cancel is not deferred, the error returns without it.
UnlockFailsUncancelled(l) ==
  /\ pc[l] = "unlock" /\ Fault
  /\ Abandon(Unserved(l))
  /\ Returns(l, "idle", "unreleased")
  /\ UNCHANGED <<keyVars, ended, watchVars>>

UnlockFails(l) ==
  /\ pc[l] = "unlock" /\ Fault
  /\ Abandon(Unserved(l))
  /\ Returns(l, "idle", "unreleased")
  /\ ended' = ended \cup {Current(l)}
  /\ UNCHANGED <<keyVars, watchVars>>

\* go-redis sends a command again when the connection fails or the answer does not
\* come in time, whether or not Redis has served the command, unless its context
\* has ended.
Resend(l) ==
  /\ pc[l] \in {"setnx", "unlock"} /\ Current(l) \notin ended /\ Fault
  /\ Abandon(Unserved(l))
  /\ reply' = [reply EXCEPT ![l] = "none"]
  /\ intruded' = IF pc[l] = "setnx" THEN intruded \ {l} ELSE intruded
  /\ resent' = IF pc[l] = "setnx" /\ stray' # stray THEN resent \cup {l} ELSE resent
  /\ UNCHANGED <<owner, ttl, round, pc, age, result, ended, watchVars>>

\* The context given to TryLock ends: its request is over, or times out.
ContextEnds(l) ==
  /\ round[l] > 0 /\ Current(l) \notin ended /\ Fault
  /\ ended' = ended \cup {Current(l)}
  /\ UNCHANGED <<keyVars, callerVars, watchVars, stray>>

\* The process dies, its watchdogs with it.
Crash(l) ==
  /\ pc[l] # "dead" /\ Fault
  /\ Returns(l, "dead", "none")
  /\ watch' = [n \in Nonce |-> IF n[1] = l THEN "gone" ELSE watch[n]]
  /\ fired' = {n \in fired : n[1] # l}
  /\ Abandon(Unserved(l) \cup UNION {UnservedScript(n) : n \in {m \in Nonce : m[1] = l}})
  /\ UNCHANGED <<keyVars, ended, uses, answer, wage, timer>>

-----------------------------------------------------------------------------
(* renewLock *)

Watch(n, state) == watch' = [watch EXCEPT ![n] = state]

\* The goroutine returns and its ticker is stopped.
Ends(n) ==
  /\ Watch(n, "gone")
  /\ uses' = [uses EXCEPT ![n] = 0]
  /\ answer' = [answer EXCEPT ![n] = "none"]
  /\ wage' = [wage EXCEPT ![n] = 0]
  /\ timer' = [timer EXCEPT ![n] = 0]
  /\ fired' = fired \ {n}

\* The select is entered, on the context l has at that time.
Selects(n) ==
  /\ Watch(n, "select")
  /\ uses' = [uses EXCEPT ![n] = round[n[1]]]
  /\ answer' = [answer EXCEPT ![n] = "none"]
  /\ wage' = [wage EXCEPT ![n] = 0]

\* What no step of a watchdog but its command touches.
WatchFrame == UNCHANGED <<callerVars, ended>>

\* The ticker is made.
WatchStarts(n) ==
  /\ watch[n] = "start" /\ Selects(n)
  /\ timer' = [timer EXCEPT ![n] = Renew]
  /\ WatchFrame /\ UNCHANGED <<keyVars, fired, stray, faults>>

\* The ticker has fired.  The context and the nonce are read from l anew; on a
\* context that has ended the script is not sent, and the watchdog returns.
Renews(n) ==
  /\ watch[n] = "select" /\ n \in fired
  /\ \/ Current(n[1]) \in ended /\ Ends(n)
     \/ /\ Current(n[1]) \notin ended
        /\ Watch(n, "eval")
        /\ uses' = [uses EXCEPT ![n] = round[n[1]]]
        /\ fired' = fired \ {n}
        /\ UNCHANGED <<answer, wage, timer>>
  /\ WatchFrame /\ UNCHANGED <<keyVars, stray, faults>>

\* Redis serves the script of watchdog n.
ServeRenewal(n) ==
  /\ watch[n] = "eval" /\ answer[n] = "none"
  /\ \E ans \in Answer :
       /\ Extend(<<n[1], uses[n]>>, ans)
       /\ answer' = [answer EXCEPT ![n] = ans]
  /\ WatchFrame /\ UNCHANGED <<watch, uses, wage, timer, fired, stray, faults>>

\* 0 ends the watchdog; otherwise it enters its select again.
RenewalReturns(n) ==
  /\ watch[n] = "eval"
  /\ \/ answer[n] = "no" /\ Ends(n)
     \/ answer[n] = "yes" /\ Selects(n) /\ UNCHANGED <<timer, fired>>
  /\ WatchFrame /\ UNCHANGED <<keyVars, stray, faults>>

\* Any error ends the watchdog.
RenewalFails(n) ==
  /\ watch[n] = "eval" /\ Fault /\ Ends(n)
  /\ Abandon(UnservedScript(n))
  /\ WatchFrame /\ UNCHANGED keyVars

\* go-redis sends the script again, as it does the commands of the caller.
ResendScript(n) ==
  /\ watch[n] = "eval" /\ <<n[1], uses[n]>> \notin ended /\ Fault
  /\ Abandon(UnservedScript(n))
  /\ answer' = [answer EXCEPT ![n] = "none"]
  /\ WatchFrame /\ UNCHANGED <<keyVars, watch, uses, wage, timer, fired>>

\* The context it selects on has ended.
WatchStops(n) ==
  /\ watch[n] = "select" /\ <<n[1], uses[n]>> \in ended /\ Ends(n)
  /\ WatchFrame /\ UNCHANGED <<keyVars, stray, faults>>

-----------------------------------------------------------------------------
(* Time *)

Ticking == {n \in Nonce : watch[n] \in {"select", "eval"}}

\* Something that should have happened within this tick has not.
Overdue ==
  \/ \E l \in Locks : pc[l] = "setnx" /\ age[l] = MaxDelay
  \/ \E n \in Nonce : \/ watch[n] = "start"
                      \/ watch[n] = "select" /\ n \in fired
                      \/ watch[n] = "eval" /\ wage[n] = MaxDelay

Older(a) == IF a < MaxDelay THEN a + 1 ELSE a

\* A ticker keeps one tick for a watchdog that is not there to take it.
Tick ==
  /\ owner # Free \/ Ticking # {} \/ \E l \in Locks : pc[l] = "setnx"
  /\ IF Overdue THEN Fault ELSE UNCHANGED faults
  /\ ttl' = IF owner = Free THEN 0 ELSE ttl - 1
  /\ owner' = IF ttl' = 0 THEN Free ELSE owner
  /\ age' = [l \in Locks |-> IF pc[l] = "setnx" THEN Older(age[l]) ELSE age[l]]
  /\ wage' = [n \in Nonce |-> IF watch[n] = "eval" THEN Older(wage[n]) ELSE wage[n]]
  /\ timer' = [n \in Nonce |-> IF n \notin Ticking THEN timer[n]
                              ELSE IF timer[n] = 1 THEN Renew ELSE timer[n] - 1]
  /\ fired' = fired \cup {n \in Ticking : timer[n] = 1}
  /\ UNCHANGED <<intruded, round, pc, reply, result, resent, ended, watch, uses, answer, stray>>

-----------------------------------------------------------------------------
Caller(l) == Serve(l) \/ TryReturns(l) \/ UnlockReturns(l)

Watchdog(n) ==
  WatchStarts(n) \/ Renews(n) \/ ServeRenewal(n) \/ RenewalReturns(n) \/ WatchStops(n)

Fails(l) == TryFails(l) \/ UnlockFails(l) \/ Resend(l) \/ ContextEnds(l) \/ Crash(l)

\* All the calls the model may make are over.
AllDone ==
  /\ \A l \in Locks : pc[l] \in {"idle", "dead"} /\ ~MayCall(l)
  /\ owner = Free /\ Ticking = {}
  /\ UNCHANGED vars

Next ==
  \/ \E l \in Locks : TryLock(l) \/ Unlock(l) \/ Caller(l) \/ Fails(l)
  \/ \E n \in Nonce : Watchdog(n) \/ RenewalFails(n) \/ ResendScript(n)
  \/ \E s \in stray : Stray(s)
  \/ Tick
  \/ AllDone

Spec == Init /\ [][Next]_vars

\* Redis serves and answers, goroutines run, time passes; nobody has to unlock.  It
\* is enough that one of these steps is taken while one can be: between two ticks
\* there are finitely many of the others, so none of them can hold up time.
Fairness ==
  WF_vars(\/ \E l \in Locks : Caller(l)
          \/ \E n \in Nonce : Watchdog(n)
          \/ \E s \in stray : Stray(s)
          \/ Tick)

FairSpec == Spec /\ Fairness

-----------------------------------------------------------------------------
(* Properties *)

Holds(l) == pc[l] = "held"

\* As long as no command is late or fails and no context ends early, the
\* watchdog keeps the key alive under its holder, for however long it holds it:
\* the key is the holder's, so two callers never hold the lock at once.
MutualExclusion ==
  faults = 0 => \A l \in Locks : Holds(l) => owner = Current(l)

\* Whatever was late or failed and whoever crashed, an Unlock that returns nil
\* certifies that nobody else got the lock from the moment its caller did to the
\* moment it was released, with one exception: when go-redis has sent the SETNX of
\* that TryLock again with a copy on its way, the copy can put the nonce back after
\* others have had the lock.
ReleaseCertifies ==
  \A l \in Locks : result[l] = "released" => l \notin intruded \/ l \in resent

\* The key of call n is of no use to anybody.
Abandoned(n) == owner = n /\ (round[n[1]] # n[2] \/ pc[n[1]] \in {"idle", "dead"})

\* A key whose holder has gone, crashed, or never learnt that it has the lock
\* expires, when the RedisLock value serves a single acquisition.
FirstUseExpires == \A l \in Locks : Abandoned(<<l, 1>>) ~> owner # <<l, 1>>

=============================================================================
