----------------------------- MODULE RedisLockProofs -----------------------------
(***************************************************************************)
(* The safety of RedisLock for any number of processes, calls and faults   *)
(* and any expiry, renewal interval and delay that LockAssumption allows.  *)
(***************************************************************************)

EXTENDS RedisLock, TLAPS

-----------------------------------------------------------------------------
(* The inductive invariant *)

Busy == {l \in Locks : pc[l] \in {"setnx", "held", "unlock"}}

\* Calls are counted from one, and a ticker that runs has ticks to go.
Numbers ==
  /\ \A l \in Busy : round[l] > 0
  /\ \A n \in ended : n[2] <= round[n[1]]
  /\ \A n \in Ticking : timer[n] > 0

\* The nonces of the SETNX commands that were left behind.
Left == {s[2] : s \in {t \in stray : t[1] = "set"}}

\* A SETNX that was left behind is that of a call that has failed or sent it again.
Strays ==
  \A n \in Left :
    n[2] <= round[n[1]] /\ (n[1] \in Busy /\ n = Current(n[1]) => n[1] \in resent)

\* The part of the invariant that is about l: somebody who has got the key from
\* under l has taken the nonce of l away, and no command that could put it back is
\* under way, unless it was sent again.
CertifiedAt(l) ==
  /\ result[l] = "released" => pc[l] = "idle" /\ (l \notin intruded \/ l \in resent)
  /\ pc[l] = "setnx" /\ reply[l] = "none" => l \notin intruded
  /\ pc[l] = "unlock" /\ reply[l] = "yes" => l \notin intruded \/ l \in resent
  /\ l \in Busy /\ l \in intruded => owner # Current(l) \/ l \in resent

Certified == \A l \in Locks : CertifiedAt(l)

\* What the key has left to live, by where the watchdog is: a command of the
\* holder, a turn of the ticker and a command of the watchdog have to fit in.
Renewed(n) ==
  \/ watch[n] = "start" /\ ttl + MaxDelay >= Expire
  \/ /\ watch[n] = "select" /\ uses[n] = n[2] /\ answer[n] = "none"
     /\ IF n \in fired THEN ttl + MaxDelay + Renew >= Expire ELSE ttl + MaxDelay + Renew >= Expire + timer[n]
  \/ watch[n] = "eval" /\ uses[n] = n[2] /\ answer[n] = "none" /\ ttl + wage[n] + MaxDelay + Renew >= Expire
  \/ watch[n] = "eval" /\ uses[n] = n[2] /\ answer[n] = "yes" /\ ttl + wage[n] >= Expire

\* l has been granted the key, and it is not going to expire before it is renewed.
Kept(l) ==
  /\ pc[l] = "setnx" /\ reply[l] = "yes" => owner = Current(l) /\ ttl + age[l] >= Expire
  /\ pc[l] = "held" => owner = Current(l) /\ Renewed(Current(l))

\* Without faults nothing is left behind, and the context of a call is alive.
Undisturbed ==
  faults = 0 => /\ stray = {}
                /\ \A l \in Busy : Current(l) \notin ended
                /\ \A l \in Locks : Kept(l)

IInv == TypeOK /\ Numbers /\ Strays /\ Certified /\ Undisturbed

-----------------------------------------------------------------------------
(* Nonces, and the kinds of steps *)

LEMMA Nonces ==
  /\ \A n \in Nonce : n[1] \in Locks /\ n[2] \in 1 .. rounds[n[1]] /\ n = <<n[1], n[2]>>
  /\ \A l \in Locks : \A k \in 1 .. rounds[l] : <<l, k>> \in Nonce
  /\ Free \notin Nonce
<1>1. \A n : n \in Nonce <=> \E l \in Locks : n \in {l} \X (1 .. rounds[l])
  BY DEF Nonce
<1>2. \A l \in Locks : 1 .. rounds[l] \subseteq Nat
  BY LockAssumption DEF LockAssumption
<1> QED
  BY <1>1, <1>2, LockAssumption DEF LockAssumption

LEMMA CurrentNonce ==
  ASSUME TypeOK, Numbers, NEW l \in Busy
  PROVE  Current(l) \in Nonce /\ Current(l)[1] = l /\ Current(l)[2] = round[l]
<1>1. l \in Locks /\ round[l] \in 1 .. rounds[l]
  BY LockAssumption DEF LockAssumption, TypeOK, Numbers, Busy
<1> QED
  BY <1>1, Nonces DEF Current

LockStep(l) == TryLock(l) \/ Unlock(l) \/ Caller(l) \/ Fails(l)
WatchStep(n) == Watchdog(n) \/ RenewalFails(n) \/ ResendScript(n)

LEMMA Steps ==
  [Next]_vars => \/ \E l \in Locks : LockStep(l)
                 \/ \E n \in Nonce : WatchStep(n)
                 \/ \E s \in stray : Stray(s)
                 \/ Tick
                 \/ UNCHANGED vars
BY DEF Next, LockStep, WatchStep, AllDone

LEMMA Commands ==
  ASSUME TypeOK, NEW op, NEW n \in Nonce, NEW ans, Run(op, n, ans)
  PROVE  /\ owner' \in Nonce \cup {Free} /\ ttl' \in 0 .. Expire /\ (owner' = Free <=> ttl' = 0)
         /\ intruded' \subseteq Locks
BY Nonces, LockAssumption DEF LockAssumption, TypeOK, Run, SetNX, Del, Extend, keyVars

\* What a sender that waits no longer may leave behind.
LEMMA LeftBehind ==
  ASSUME TypeOK, Numbers
  PROVE  /\ \A l \in Locks : /\ Unserved(l) \subseteq Copy
                              /\ \A s \in Unserved(l) : s[2] = Current(l) /\ (s[1] = "set" => pc[l] = "setnx")
         /\ \A n \in Nonce : /\ UnservedScript(n) \subseteq Copy
                              /\ \A s \in UnservedScript(n) : s[1] = "expire"
         /\ \A C : Abandon(C) => stray' \subseteq stray \cup C
<1> USE LockAssumption DEF LockAssumption
<1>f. faults \in 0 .. MaxFaults
  BY DEF TypeOK
<1>1. ASSUME NEW l \in Locks, NEW s \in Unserved(l)
      PROVE  s \in Copy /\ s[2] = Current(l) /\ (s[1] = "set" => pc[l] = "setnx")
  <2>1. /\ s \in {"set", "del"} \X {Current(l)} \X {Current(l)} \X {faults}
        /\ pc[l] = IF s[1] = "set" THEN "setnx" ELSE "unlock"
    BY <1>1 DEF Unserved
  <2>2. l \in Busy
    BY <2>1 DEF Busy
  <2>3. Current(l) \in Nonce
    BY <2>2, CurrentNonce
  <2> QED
    BY <1>f, <2>1, <2>3 DEF Copy, Op
<1>2. ASSUME NEW n \in Nonce
      PROVE  UnservedScript(n) \subseteq Copy /\ \A s \in UnservedScript(n) : s[1] = "expire"
  BY <1>f DEF UnservedScript, Copy, Op
<1>3. ASSUME NEW C, Abandon(C)
      PROVE  stray' \subseteq stray \cup C
  BY <1>3 DEF Abandon
<1> QED
  BY <1>1, <1>2, <1>3

-----------------------------------------------------------------------------
(* Each action preserves the types *)

LEMMA LockTypes ==
  ASSUME TypeOK, Numbers, NEW l \in Locks, LockStep(l)
  PROVE  TypeOK'
<1> USE LockAssumption DEF LockAssumption
<1>c. l \in Busy => Current(l) \in Nonce
  BY CurrentNonce
<1>s. \A C : Abandon(C) /\ C \subseteq Copy => stray' \subseteq Copy
  BY LeftBehind DEF TypeOK
<1>u. Unserved(l) \subseteq Copy /\ \A n \in Nonce : UnservedScript(n) \subseteq Copy
  BY LeftBehind
<1>1. CASE TryLock(l)
  <2>1. round' \in {f \in [Locks -> Nat] : \A m \in Locks : f[m] <= rounds[m]}
    BY <1>1 DEF TypeOK, TryLock, MayCall
  <2>2. /\ pc' \in [Locks -> {"idle", "setnx", "held", "unlock", "dead"}]
        /\ reply' \in [Locks -> Reply] /\ age' \in [Locks -> 0 .. MaxDelay]
        /\ result' \in [Locks -> Result] /\ intruded' \subseteq Locks /\ resent' \subseteq Locks
    BY <1>1 DEF TypeOK, TryLock, Send, Reply, Result
  <2> QED
    BY <1>1, <2>1, <2>2 DEF TypeOK, TryLock, watchVars
<1>2. CASE Unlock(l)
  <2>1. CASE Send(l, "unlock") /\ UNCHANGED <<round, result, resent>>
    BY <1>2, <2>1 DEF TypeOK, Unlock, Send, Reply, keyVars, watchVars
  <2>2. CASE Returns(l, "idle", "unreleased")
    BY <1>2, <2>2 DEF TypeOK, Unlock, Send, Returns, Reply, Result, keyVars, watchVars
  <2> QED
    BY <1>2, <2>1, <2>2 DEF Unlock
<1>3. CASE Serve(l)
  <2>1. PICK ans \in Answer, op \in Op : Run(op, Current(l), ans) /\ reply' = [reply EXCEPT ![l] = ans]
    BY <1>3 DEF Serve, Run, Op
  <2>2. l \in Busy
    BY <1>3 DEF Serve, Busy
  <2>3. /\ owner' \in Nonce \cup {Free} /\ ttl' \in 0 .. Expire /\ (owner' = Free <=> ttl' = 0)
        /\ intruded' \subseteq Locks
    BY <1>c, <2>1, <2>2, Commands
  <2>4. reply' \in [Locks -> Reply]
    BY <2>1 DEF TypeOK, Answer
  <2> QED
    BY <1>3, <2>3, <2>4 DEF TypeOK, Serve, watchVars
<1>4. CASE TryReturns(l)
  <2>1. Current(l) \in Nonce
    BY <1>4, <1>c DEF TryReturns, Busy
  <2>2. watch' \in [Nonce -> {"none", "start", "select", "eval", "gone"}]
    BY <1>4, <2>1 DEF TypeOK, TryReturns
  <2>3. /\ pc' \in [Locks -> {"idle", "setnx", "held", "unlock", "dead"}]
        /\ reply' \in [Locks -> Reply] /\ age' \in [Locks -> 0 .. MaxDelay]
        /\ result' \in [Locks -> Result] /\ round' = round /\ resent' = resent
    BY <1>4 DEF TypeOK, TryReturns, Send, Returns, Reply, Result
  <2> QED
    BY <1>4, <2>2, <2>3 DEF TypeOK, TryReturns, keyVars
<1>5. CASE UnlockReturns(l)
  <2>1. Current(l) \in Nonce
    BY <1>5, <1>c DEF UnlockReturns, Busy
  <2> QED
    BY <1>5, <2>1 DEF TypeOK, UnlockReturns, Send, Returns, Reply, Result, keyVars, watchVars
<1>6. CASE TryFails(l)
  <2>1. stray' \subseteq Copy
    BY <1>6, <1>s, <1>u DEF TryFails
  <2> QED
    BY <1>6, <2>1 DEF TypeOK, TryFails, Fault, Send, Returns, Reply, Result, keyVars, watchVars
<1>7. CASE UnlockFails(l)
  <2>1. Current(l) \in Nonce
    BY <1>7, <1>c DEF UnlockFails, Busy
  <2>2. stray' \subseteq Copy
    BY <1>7, <1>s, <1>u DEF UnlockFails
  <2> QED
    BY <1>7, <2>1, <2>2 DEF TypeOK, UnlockFails, Fault, Send, Returns, Reply, Result, keyVars, watchVars
<1>8. CASE Resend(l)
  <2>1. stray' \subseteq Copy
    BY <1>8, <1>s, <1>u DEF Resend
  <2> QED
    BY <1>8, <2>1 DEF TypeOK, Resend, Fault, Reply, watchVars
<1>9. CASE ContextEnds(l)
  <2>1. Current(l) \in Nonce
    BY <1>9, Nonces DEF ContextEnds, TypeOK, Current
  <2> QED
    BY <1>9, <2>1 DEF TypeOK, ContextEnds, Fault, keyVars, callerVars, watchVars
<1>10. CASE Crash(l)
  <2>1. stray' \subseteq Copy
    <3>1. Unserved(l) \cup UNION {UnservedScript(n) : n \in {m \in Nonce : m[1] = l}} \subseteq Copy
      BY <1>u
    <3> QED
      BY <1>10, <1>s, <3>1 DEF Crash
  <2> QED
    BY <1>10, <2>1 DEF TypeOK, Crash, Fault, Send, Returns, Reply, Result, keyVars
<1> QED
  BY <1>1, <1>2, <1>3, <1>4, <1>5, <1>6, <1>7, <1>8, <1>9, <1>10 DEF LockStep, Caller, Fails

LEMMA WatchTypes ==
  ASSUME TypeOK, Numbers, NEW n \in Nonce, WatchStep(n)
  PROVE  TypeOK'
<1> USE LockAssumption DEF LockAssumption
<1>n. n[1] \in Locks /\ round[n[1]] \in Nat /\ round[n[1]] <= rounds[n[1]]
  BY Nonces DEF TypeOK
<1>u. ASSUME NEW k \in Nat, k <= rounds[n[1]], uses' = [uses EXCEPT ![n] = k]
      PROVE  uses' \in {f \in [Nonce -> Nat] : \A m \in Nonce : f[m] <= rounds[m[1]]}
  BY <1>u DEF TypeOK
<1>0. 0 \in Nat /\ 0 <= rounds[n[1]]
  BY <1>n
<1>e. Ends(n) => /\ watch' \in [Nonce -> {"none", "start", "select", "eval", "gone"}]
                 /\ uses' \in {f \in [Nonce -> Nat] : \A m \in Nonce : f[m] <= rounds[m[1]]}
                 /\ answer' \in [Nonce -> Reply] /\ wage' \in [Nonce -> 0 .. MaxDelay]
                 /\ timer' \in [Nonce -> 0 .. Renew] /\ fired' \subseteq Nonce
  BY <1>u, <1>0 DEF TypeOK, Ends, Watch, Reply
<1>f. Selects(n) => /\ watch' \in [Nonce -> {"none", "start", "select", "eval", "gone"}]
                    /\ uses' \in {f \in [Nonce -> Nat] : \A m \in Nonce : f[m] <= rounds[m[1]]}
                    /\ answer' \in [Nonce -> Reply] /\ wage' \in [Nonce -> 0 .. MaxDelay]
  BY <1>u, <1>n DEF TypeOK, Selects, Watch, Reply
<1>1. CASE WatchStarts(n)
  <2>1. timer' \in [Nonce -> 0 .. Renew]
    BY <1>1 DEF TypeOK, WatchStarts
  <2> QED
    BY <1>1, <1>f, <2>1 DEF TypeOK, WatchStarts, WatchFrame, callerVars, keyVars
<1>2. CASE Renews(n)
  <2>1. CASE Ends(n)
    BY <1>2, <2>1, <1>e DEF TypeOK, Renews, WatchFrame, callerVars, keyVars
  <2>2. CASE Watch(n, "eval") /\ uses' = [uses EXCEPT ![n] = round[n[1]]]
             /\ fired' = fired \ {n} /\ UNCHANGED <<answer, wage, timer>>
    BY <1>2, <2>2, <1>u, <1>n DEF TypeOK, Renews, Watch, WatchFrame, callerVars, keyVars
  <2> QED
    BY <1>2, <2>1, <2>2 DEF Renews
<1>3. CASE ServeRenewal(n)
  <2>1. PICK ans \in Answer : Extend(<<n[1], uses[n]>>, ans) /\ answer' = [answer EXCEPT ![n] = ans]
    BY <1>3 DEF ServeRenewal
  <2>2. /\ owner' \in Nonce \cup {Free} /\ ttl' \in 0 .. Expire /\ (owner' = Free <=> ttl' = 0)
        /\ intruded' \subseteq Locks
    <3>1. <<n[1], uses[n]>> # Free
      BY <1>n DEF TypeOK
    <3> QED
      BY <2>1, <3>1 DEF Extend, TypeOK, keyVars
  <2>3. answer' \in [Nonce -> Reply]
    BY <2>1 DEF TypeOK, Answer
  <2> QED
    BY <1>3, <2>2, <2>3 DEF TypeOK, ServeRenewal, WatchFrame, callerVars
<1>4. CASE RenewalReturns(n)
  BY <1>4, <1>e, <1>f DEF TypeOK, RenewalReturns, WatchFrame, callerVars, keyVars
<1>5. CASE RenewalFails(n)
  <2>1. stray' \subseteq Copy
    BY <1>5, LeftBehind DEF TypeOK, RenewalFails
  <2> QED
    BY <1>5, <2>1, <1>e DEF TypeOK, RenewalFails, Fault, WatchFrame, callerVars, keyVars
<1>6. CASE WatchStops(n)
  BY <1>6, <1>e DEF TypeOK, WatchStops, WatchFrame, callerVars, keyVars
<1>7. CASE ResendScript(n)
  <2>1. stray' \subseteq Copy
    BY <1>7, LeftBehind DEF TypeOK, ResendScript
  <2> QED
    BY <1>7, <2>1 DEF TypeOK, ResendScript, Fault, Reply, WatchFrame, callerVars, keyVars
<1> QED
  BY <1>1, <1>2, <1>3, <1>4, <1>5, <1>6, <1>7 DEF WatchStep, Watchdog

LEMMA TickTypes ==
  ASSUME TypeOK, Numbers, Tick
  PROVE  TypeOK'
<1> USE LockAssumption DEF LockAssumption
<1>1. ttl' \in 0 .. Expire /\ owner' \in Nonce \cup {Free} /\ (owner' = Free <=> ttl' = 0)
  BY DEF TypeOK, Tick
<1>2. age' \in [Locks -> 0 .. MaxDelay] /\ wage' \in [Nonce -> 0 .. MaxDelay]
  BY DEF TypeOK, Tick, Older
<1>3. timer' \in [Nonce -> 0 .. Renew]
  <2>1. ASSUME NEW n \in Nonce
        PROVE  timer'[n] \in 0 .. Renew
    BY DEF TypeOK, Tick, Numbers, Ticking
  <2> QED
    BY <2>1 DEF Tick
<1>4. fired' \subseteq Nonce /\ faults' \in 0 .. MaxFaults
  BY DEF TypeOK, Tick, Ticking, Fault
<1> QED
  BY <1>1, <1>2, <1>3, <1>4 DEF TypeOK, Tick

LEMMA StrayTypes ==
  ASSUME TypeOK, NEW s \in stray, Stray(s)
  PROVE  TypeOK'
<1>1. s[2] \in Nonce
  BY DEF TypeOK, Copy
<1>2. /\ owner' \in Nonce \cup {Free} /\ ttl' \in 0 .. Expire /\ (owner' = Free <=> ttl' = 0)
      /\ intruded' \subseteq Locks
  BY <1>1, Commands DEF Stray, TypeOK, keyVars
<1> QED
  BY <1>2 DEF TypeOK, Stray, callerVars, watchVars

LEMMA TypeKeeps == TypeOK /\ Numbers /\ [Next]_vars => TypeOK'
<1> SUFFICES ASSUME TypeOK, Numbers, [Next]_vars
             PROVE  TypeOK'
  OBVIOUS
<1>1. CASE UNCHANGED vars
  BY <1>1 DEF TypeOK, vars, keyVars, callerVars, watchVars
<1> QED
  BY <1>1, Steps, LockTypes, WatchTypes, TickTypes, StrayTypes

-----------------------------------------------------------------------------
(* Each action preserves the rest of the invariant *)

\* A call touches the variables of its own RedisLock value only.
LEMMA LockFrame ==
  ASSUME TypeOK, NEW l \in Locks, LockStep(l)
  PROVE  /\ \A m \in Locks \ {l} : /\ round'[m] = round[m] /\ pc'[m] = pc[m] /\ reply'[m] = reply[m]
                                   /\ age'[m] = age[m] /\ result'[m] = result[m]
                                   /\ (m \in resent' <=> m \in resent)
         /\ round' = round \/ TryLock(l)
         /\ resent \subseteq resent' \/ TryLock(l)
         /\ l \in Busy' => l \in Busy \/ TryLock(l)
<1>1. \A p, res : Returns(l, p, res) => /\ round' = round /\ resent' = resent
                                        /\ \A m \in Locks \ {l} : /\ pc'[m] = pc[m] /\ reply'[m] = reply[m]
                                                                  /\ age'[m] = age[m] /\ result'[m] = result[m]
  BY DEF Returns, Send, TypeOK
<1>2. \A p, res : Returns(l, p, res) => pc'[l] = p
  BY DEF Returns, Send, TypeOK
<1>3. CASE TryLock(l)
  BY <1>3 DEF TryLock, Send, TypeOK
<1>4. CASE Unlock(l)
  BY <1>4, <1>1, <1>2 DEF Unlock, Send, TypeOK, Busy
<1>5. CASE Serve(l)
  BY <1>5 DEF Serve, TypeOK, Busy
<1>6. CASE TryReturns(l) \/ UnlockReturns(l) \/ TryFails(l) \/ UnlockFails(l)
  <2>1. PICK p, res : Returns(l, p, res)
    BY <1>6 DEF TryReturns, UnlockReturns, TryFails, UnlockFails
  <2>2. l \in Busy
    BY <1>6 DEF TryReturns, UnlockReturns, TryFails, UnlockFails, Busy
  <2> QED
    BY <1>1, <2>1, <2>2
<1>7. CASE Resend(l) \/ ContextEnds(l)
  BY <1>7 DEF Resend, ContextEnds, callerVars, TypeOK, Busy
<1>8. CASE Crash(l)
  <2>1. Returns(l, "dead", "none")
    BY <1>8 DEF Crash
  <2> QED
    BY <1>1, <1>2, <2>1 DEF Busy
<1> QED
  BY <1>3, <1>4, <1>5, <1>6, <1>7, <1>8 DEF LockStep, Caller, Fails

LEMMA NumbersKeep == TypeOK /\ Numbers /\ [Next]_vars => Numbers'
<1> USE LockAssumption DEF LockAssumption
<1> SUFFICES ASSUME TypeOK, Numbers, [Next]_vars
             PROVE  Numbers'
  OBVIOUS
<1>1. ASSUME NEW l \in Locks, LockStep(l)
      PROVE  Numbers'
  <2>1. \A m \in Locks : round'[m] \in Nat /\ round'[m] >= round[m]
    BY <1>1, LockFrame DEF TypeOK, TryLock
  <2>2. \A m \in Busy' : round'[m] > 0
    <3>1. CASE TryLock(l)
      <4>1. round'[l] > 0
        BY <3>1 DEF TypeOK, TryLock
      <4>2. \A m \in Busy' \ {l} : m \in Busy /\ round'[m] = round[m]
        BY <1>1, LockFrame DEF Busy
      <4> QED
        BY <4>1, <4>2 DEF Numbers
    <3>2. CASE ~TryLock(l)
      BY <1>1, <3>2, LockFrame DEF Numbers, Busy
    <3> QED
      BY <3>1, <3>2
  <2>3. \A n \in ended' : n[2] <= round'[n[1]]
    <3>1. ASSUME ended' = ended
          PROVE  \A n \in ended' : n[2] <= round'[n[1]]
      BY <2>1, <3>1, Nonces DEF Numbers, TypeOK
    <3>2. ASSUME ended' = ended \cup {Current(l)}, round' = round
          PROVE  \A n \in ended' : n[2] <= round'[n[1]]
      BY <3>2, <2>1 DEF Numbers, Current
    <3>3. ended' = ended \/ (ended' = ended \cup {Current(l)} /\ round' = round)
      BY <1>1, LockFrame DEF LockStep, Caller, Fails, TryLock, Unlock, Serve, TryReturns, UnlockReturns, TryFails,
                  UnlockFails, Resend, ContextEnds, Crash
    <3> QED
      BY <3>1, <3>2, <3>3
  <2>4. Ticking' \subseteq Ticking /\ timer' = timer
    BY <1>1 DEF LockStep, Caller, Fails, TryLock, Unlock, Serve, TryReturns, UnlockReturns, TryFails,
                UnlockFails, Resend, ContextEnds, Crash, Ticking, watchVars, TypeOK
  <2>5. \A n \in Ticking' : timer'[n] > 0
    BY <2>4 DEF Numbers
  <2> QED
    BY <2>2, <2>3, <2>5 DEF Numbers
<1>2. ASSUME NEW n \in Nonce, WatchStep(n)
      PROVE  Numbers'
  <2>1. UNCHANGED <<round, pc, ended>>
    BY <1>2 DEF WatchStep, Watchdog, WatchStarts, Renews, ServeRenewal, RenewalReturns, RenewalFails, ResendScript,
                WatchStops, WatchFrame, callerVars
  <2>2. CASE WatchStarts(n)
    <3>1. \A m \in Nonce \ {n} : watch'[m] = watch[m] /\ timer'[m] = timer[m]
      BY <2>2 DEF WatchStarts, Selects, Watch, TypeOK
    <3>2. timer'[n] = Renew
      BY <2>2 DEF WatchStarts, TypeOK
    <3> QED
      BY <2>1, <3>1, <3>2 DEF Numbers, Ticking, Busy
  <2>3. CASE ~WatchStarts(n)
    <3>1. CASE Ends(n)
      <4>1. \A m \in Nonce \ {n} : watch'[m] = watch[m] /\ timer'[m] = timer[m]
        BY <3>1 DEF Ends, Watch, TypeOK
      <4>2. watch'[n] = "gone"
        BY <3>1 DEF Ends, Watch, TypeOK
      <4> QED
        BY <2>1, <4>1, <4>2 DEF Numbers, Ticking, Busy
    <3>2. CASE ~Ends(n)
      <4>1. Ticking' \subseteq Ticking /\ timer' = timer
        BY <1>2, <2>3, <3>2 DEF WatchStep, Watchdog, Renews, ServeRenewal, RenewalReturns, RenewalFails, ResendScript,
                  WatchStops, Selects, Watch, Ticking, TypeOK
      <4> QED
        BY <2>1, <4>1 DEF Numbers, Busy
    <3> QED
      BY <3>1, <3>2
  <2> QED
    BY <2>2, <2>3
<1>3. CASE Tick
  <2>1. UNCHANGED <<round, pc, ended, watch>>
    BY <1>3 DEF Tick
  <2>2. \A n \in Ticking : timer'[n] > 0
    BY <1>3 DEF Tick, Numbers, Ticking, TypeOK
  <2> QED
    BY <2>1, <2>2 DEF Numbers, Busy, Ticking
<1>4. ASSUME NEW s \in stray, Stray(s)
      PROVE  Numbers'
  BY <1>4 DEF Stray, Numbers, Busy, Ticking, callerVars, watchVars
<1>5. CASE UNCHANGED vars
  BY <1>5 DEF Numbers, Busy, Ticking, vars, callerVars, watchVars
<1> QED
  BY <1>1, <1>2, <1>3, <1>4, <1>5, Steps

LEMMA StraysKeep == TypeOK /\ Numbers /\ Strays /\ [Next]_vars => Strays'
<1> USE LockAssumption DEF LockAssumption
<1> DEFINE StraySafe(n) == n[2] <= round'[n[1]] /\ (n[1] \in Busy' /\ n = Current(n[1])' => n[1] \in resent')
<1> SUFFICES ASSUME TypeOK, Numbers, Strays, [Next]_vars, NEW s \in stray', s[1] = "set"
             PROVE  StraySafe(s[2])
  BY DEF Strays, Left
<1> DEFINE n == s[2]
<1>n. n \in Nonce /\ n[1] \in Locks /\ n[2] \in Nat /\ n = <<n[1], n[2]>> /\ round[n[1]] \in Nat
  <2>1. n \in Nonce
    BY TypeKeeps DEF TypeOK, Copy
  <2> QED
    BY <2>1, Nonces DEF TypeOK
<1>s. s \in stray => n[2] <= round[n[1]] /\ (n[1] \in Busy /\ n[2] = round[n[1]] => n[1] \in resent)
  <2>1. s \in stray => n \in Left
    BY DEF Left
  <2> QED
    BY <1>n, <2>1 DEF Strays, Current
<1>1. ASSUME NEW l \in Locks, LockStep(l)
      PROVE  StraySafe(n)
  <2>1. CASE s \in stray
    <3>1. CASE TryLock(l) /\ n[1] = l
      <4>1. round'[l] = round[l] + 1
        BY <3>1 DEF TryLock, TypeOK
      <4> QED
        BY <1>n, <1>s, <2>1, <3>1, <4>1 DEF Current
    <3>2. CASE ~(TryLock(l) /\ n[1] = l)
      <4>1. /\ round'[n[1]] = round[n[1]] /\ (n[1] \in Busy' => n[1] \in Busy)
            /\ n[1] \in resent => n[1] \in resent'
        BY <1>1, <1>n, <3>2, LockFrame DEF Busy
      <4> QED
        BY <1>n, <1>s, <2>1, <4>1 DEF Current
    <3> QED
      BY <3>1, <3>2
  <2>2. CASE s \notin stray
    <3>1. TryFails(l) \/ UnlockFails(l) \/ Resend(l) \/ Crash(l)
      BY <1>1, <2>2 DEF LockStep, Caller, Fails, TryLock, Unlock, Serve, TryReturns, UnlockReturns, ContextEnds
    <3>2. s \in Unserved(l)
      <4>1. \A m \in Nonce : s \notin UnservedScript(m)
        BY LeftBehind
      <4>2. \E C : Abandon(C) /\ C \subseteq Unserved(l) \cup UNION {UnservedScript(m) : m \in Nonce}
        BY <3>1 DEF TryFails, UnlockFails, Resend, Crash
      <4> QED
        BY <2>2, <4>1, <4>2, LeftBehind
    <3>3. n = Current(l) /\ pc[l] = "setnx"
      BY <3>2, LeftBehind
    <3>4. n[1] = l /\ n[2] = round[l] /\ round' = round
      BY <1>1, <3>1, <3>3, LockFrame DEF Current, TryLock, TryFails, UnlockFails, Resend, Crash, Returns
    <3>5. CASE Resend(l)
      BY <1>n, <2>2, <3>3, <3>4, <3>5 DEF Resend
    <3>6. CASE TryFails(l) \/ UnlockFails(l) \/ Crash(l)
      <4>1. l \notin Busy'
        BY <3>6 DEF TryFails, UnlockFails, Crash, Returns, Send, Busy, TypeOK
      <4> QED
        BY <1>n, <3>4, <4>1
    <3> QED
      BY <3>1, <3>5, <3>6
  <2> QED
    BY <2>1, <2>2
<1>2. ASSUME NEW m \in Nonce, WatchStep(m)
      PROVE  StraySafe(n)
  <2>1. UNCHANGED <<round, pc, resent>>
    BY <1>2 DEF WatchStep, Watchdog, WatchStarts, Renews, ServeRenewal, RenewalReturns, RenewalFails, ResendScript,
                WatchStops, WatchFrame, callerVars
  <2>2. stray' = stray \/ Abandon(UnservedScript(m))
    BY <1>2 DEF WatchStep, Watchdog, WatchStarts, Renews, ServeRenewal, RenewalReturns, RenewalFails, ResendScript,
                WatchStops
  <2>3. s \in stray
    BY <2>2, LeftBehind
  <2> QED
    BY <1>n, <1>s, <2>1, <2>3 DEF Busy, Current
<1>3. CASE Tick \/ UNCHANGED vars
  BY <1>3, <1>n, <1>s DEF Tick, vars, callerVars, Busy, Current
<1>4. ASSUME NEW t \in stray, Stray(t)
      PROVE  StraySafe(n)
  BY <1>4, <1>n, <1>s DEF Stray, callerVars, Busy, Current
<1> QED
  BY <1>1, <1>2, <1>3, <1>4, Steps

-----------------------------------------------------------------------------
(* The nonces of those who were intruded upon *)

\* What a command does to the key, as far as l can tell.
LEMMA Intrusion ==
  ASSUME NEW op, NEW n \in Nonce, NEW ans, Run(op, n, ans), NEW l \in Locks
  PROVE  /\ owner' \in {owner, Free, n}
         /\ op # "set" => intruded' = intruded /\ owner' \in {owner, Free}
         /\ l \in intruded' => l \in intruded \/ (Believes(l) /\ n[1] # l /\ owner' = n)
BY DEF Run, SetNX, Del, Extend, keyVars

\* A command that is not the SETNX of l's present call, or was sent again, leaves
\* CertifiedAt(l) alone.
LEMMA CommandCertified ==
  ASSUME TypeOK, Numbers, NEW l \in Locks, CertifiedAt(l),
         NEW op, NEW n \in Nonce, NEW ans, Run(op, n, ans),
         op = "set" /\ l \in Busy /\ n = Current(l) => l \in resent,
         round'[l] = round[l] /\ pc'[l] = pc[l] /\ reply'[l] = reply[l] /\ result'[l] = result[l],
         l \in resent => l \in resent'
  PROVE  CertifiedAt(l)'
<1>1. l \in intruded' => l \in intruded \/ (Believes(l) /\ n[1] # l /\ owner' = n)
  BY Intrusion
<1>2. l \in Busy => Current(l) # Free /\ Current(l)[1] = l
  BY CurrentNonce, Nonces
<1>3. l \in Busy /\ owner' = Current(l) => owner = Current(l) \/ n = Current(l)
  BY <1>2, Intrusion
<1>4. (result[l] = "released" \/ (pc[l] = "setnx" /\ reply[l] = "none")
        \/ (pc[l] = "unlock" /\ reply[l] = "yes")) /\ CertifiedAt(l) => ~Believes(l)
  BY DEF Believes, CertifiedAt
<1>5. l \in Busy /\ l \in intruded' => owner' # Current(l) \/ l \in resent
  <2>1. CASE l \in intruded
    <3>1. op # "set" => owner' \in {owner, Free}
      BY Intrusion
    <3> QED
      BY <1>2, <1>3, <2>1, <3>1 DEF CertifiedAt
  <2>2. CASE l \notin intruded
    BY <1>1, <1>2, <2>2
  <2> QED
    BY <2>1, <2>2
<1> QED
  BY <1>1, <1>4, <1>5 DEF CertifiedAt, Busy, Current

\* So do steps that leave the key alone, or let it expire.
LEMMA ExpiryCertified ==
  ASSUME TypeOK, Numbers, NEW l \in Locks, CertifiedAt(l),
         owner' \in {owner, Free}, intruded' = intruded,
         round'[l] = round[l] /\ pc'[l] = pc[l] /\ reply'[l] = reply[l] /\ result'[l] = result[l],
         l \in resent => l \in resent'
  PROVE  CertifiedAt(l)'
<1>1. l \in Busy => Current(l) # Free
  BY CurrentNonce, Nonces
<1> QED
  BY <1>1 DEF CertifiedAt, Busy, Current

\* The steps of l's own calls.
LEMMA OwnCertified ==
  ASSUME TypeOK, Numbers, NEW l \in Locks, CertifiedAt(l), LockStep(l)
  PROVE  CertifiedAt(l)'
<1>c. l \in Busy => Current(l) \in Nonce /\ Current(l) # Free /\ Current(l)[1] = l
  BY CurrentNonce, Nonces
<1>r. \A p, res : Returns(l, p, res) => pc'[l] = p /\ reply'[l] = "none" /\ result'[l] = res
  BY DEF Returns, Send, TypeOK
<1>1. CASE TryLock(l)
  <2>1. result'[l] = "none" /\ pc'[l] = "setnx" /\ l \notin intruded'
    BY <1>1 DEF TryLock, Send, TypeOK
  <2> QED
    BY <2>1 DEF CertifiedAt
<1>2. CASE Unlock(l)
  <2>1. UNCHANGED <<owner, intruded, resent>> /\ pc[l] = "held" /\ round' = round /\ l \in Busy
    BY <1>2 DEF Unlock, Returns, keyVars, Busy
  <2>2. CASE Send(l, "unlock") /\ UNCHANGED <<round, result, resent>>
    <3>1. pc'[l] = "unlock" /\ reply'[l] = "none" /\ result'[l] = result[l]
      BY <2>2 DEF Send, TypeOK
    <3> QED
      BY <2>1, <3>1 DEF CertifiedAt, Current
  <2>3. CASE Returns(l, "idle", "unreleased")
    BY <1>r, <2>1, <2>3 DEF CertifiedAt, Busy
  <2> QED
    BY <1>2, <2>2, <2>3 DEF Unlock
<1>3. CASE Serve(l)
  <2>1. PICK ans \in Answer : /\ \/ pc[l] = "setnx" /\ SetNX(Current(l), ans)
                                 \/ pc[l] = "unlock" /\ Del(Current(l), ans)
                              /\ reply' = [reply EXCEPT ![l] = ans]
    BY <1>3 DEF Serve
  <2>2. UNCHANGED <<round, pc, result, resent>> /\ reply[l] = "none" /\ reply'[l] = ans /\ l \in Busy
    BY <1>3, <2>1 DEF Serve, Busy, TypeOK
  <2>3. CASE pc[l] = "setnx"
    <3>1. l \notin intruded'
      BY <1>c, <2>1, <2>2, <2>3 DEF CertifiedAt, SetNX, keyVars
    <3> QED
      BY <2>2, <2>3, <3>1 DEF CertifiedAt
  <2>4. CASE pc[l] = "unlock"
    <3>1. intruded' = intruded /\ owner' \in {owner, Free} /\ (ans = "yes" => owner = Current(l))
      BY <2>1, <2>4 DEF Del, keyVars, Answer, Reply
    <3>2. ans = "yes" => l \notin intruded \/ l \in resent
      BY <2>2, <3>1 DEF CertifiedAt
    <3> QED
      BY <1>c, <2>2, <2>4, <3>1, <3>2 DEF CertifiedAt, Busy, Current
  <2> QED
    BY <2>1, <2>3, <2>4
<1>4. CASE TryReturns(l)
  <2>1. /\ UNCHANGED <<owner, intruded, round, resent>> /\ result'[l] # "released"
        /\ pc[l] = "setnx" /\ pc'[l] \in {"held", "idle"}
    BY <1>4, <1>r DEF TryReturns, Returns, keyVars
  <2> QED
    BY <2>1 DEF CertifiedAt, Busy, Current
<1>5. CASE UnlockReturns(l)
  <2>1. /\ UNCHANGED <<intruded, resent>> /\ result'[l] = (IF reply[l] = "yes" THEN "released" ELSE "expired")
        /\ pc[l] = "unlock" /\ pc'[l] = "idle"
    BY <1>5, <1>r DEF UnlockReturns, Returns, keyVars
  <2> QED
    BY <2>1 DEF CertifiedAt, Busy
<1>6. CASE TryFails(l) \/ UnlockFails(l) \/ Crash(l)
  <2>1. result'[l] # "released" /\ pc'[l] \in {"idle", "dead"}
    BY <1>6, <1>r DEF TryFails, UnlockFails, Crash
  <2> QED
    BY <2>1 DEF CertifiedAt, Busy
<1>7. CASE Resend(l)
  <2>1. /\ UNCHANGED <<owner, round, pc, result>> /\ reply'[l] = "none"
        /\ intruded' = IF pc[l] = "setnx" THEN intruded \ {l} ELSE intruded
        /\ resent \subseteq resent'
    BY <1>7 DEF Resend, TypeOK
  <2> QED
    BY <2>1 DEF CertifiedAt, Busy, Current
<1>8. CASE ContextEnds(l)
  BY <1>8, ExpiryCertified DEF ContextEnds, keyVars, callerVars
<1> QED
  BY <1>1, <1>2, <1>3, <1>4, <1>5, <1>6, <1>7, <1>8 DEF LockStep, Caller, Fails

LEMMA CertifiedKeeps == TypeOK /\ Numbers /\ Strays /\ Certified /\ [Next]_vars => Certified'
<1> SUFFICES ASSUME TypeOK, Numbers, Strays, Certified, [Next]_vars, NEW l \in Locks
             PROVE  CertifiedAt(l)'
  BY DEF Certified
<1>0. CertifiedAt(l)
  BY DEF Certified
<1>1. ASSUME NEW m \in Locks, LockStep(m)
      PROVE  CertifiedAt(l)'
  <2>1. CASE m = l
    BY <1>0, <1>1, <2>1, OwnCertified
  <2>2. CASE m # l
    <3>1. /\ round'[l] = round[l] /\ pc'[l] = pc[l] /\ reply'[l] = reply[l] /\ result'[l] = result[l]
          /\ l \in resent => l \in resent'
      BY <1>1, <2>2, LockFrame
    <3>2. CASE Serve(m)
      <4>1. PICK ans \in Answer, op \in Op : Run(op, Current(m), ans)
        BY <3>2 DEF Serve, Run, Op
      <4>2. Current(m) \in Nonce /\ Current(m) # Current(l)
        <5>1. m \in Busy
          BY <3>2 DEF Serve, Busy
        <5> QED
          BY <2>2, <5>1, CurrentNonce DEF Current
      <4> QED
        BY <1>0, <3>1, <4>1, <4>2, CommandCertified
    <3>3. CASE TryLock(m) \/ Resend(m)
      <4>1. owner' = owner /\ (l \in intruded' <=> l \in intruded)
        BY <2>2, <3>3 DEF TryLock, Resend
      <4> QED
        BY <1>0, <3>1, <4>1 DEF CertifiedAt, Busy, Current
    <3>4. CASE ~Serve(m) /\ ~TryLock(m) /\ ~Resend(m)
      <4>1. owner' = owner /\ intruded' = intruded
        BY <1>1, <3>4 DEF LockStep, Caller, Fails, Unlock, TryReturns, UnlockReturns, TryFails, UnlockFails,
                    ContextEnds, Crash, keyVars
      <4> QED
        BY <1>0, <3>1, <4>1, ExpiryCertified
    <3> QED
      BY <3>2, <3>3, <3>4
  <2> QED
    BY <2>1, <2>2
<1>2. ASSUME NEW n \in Nonce, WatchStep(n)
      PROVE  CertifiedAt(l)'
  <2>1. UNCHANGED <<owner, intruded, callerVars>>
    BY <1>2 DEF WatchStep, Watchdog, WatchStarts, Renews, ServeRenewal, RenewalReturns, RenewalFails, ResendScript,
                WatchStops, WatchFrame, Extend, keyVars
  <2> QED
    BY <1>0, <2>1, ExpiryCertified DEF callerVars
<1>3. CASE Tick
  BY <1>0, <1>3, ExpiryCertified DEF Tick
<1>4. ASSUME NEW s \in stray, Stray(s)
      PROVE  CertifiedAt(l)'
  <2>1. s[2] \in Nonce
    BY DEF TypeOK, Copy
  <2>2. CASE UNCHANGED keyVars
    BY <1>0, <1>4, <2>2, ExpiryCertified DEF Stray, keyVars, callerVars
  <2>3. CASE \E ans \in Answer : Run(s[1], s[2], ans)
    <3>1. s[1] = "set" /\ l \in Busy /\ s[2] = Current(l) => l \in resent
      <4>1. s[1] = "set" => s[2] \in Left
        BY DEF Left
      <4>2. l \in Busy => Current(l)[1] = l
        BY CurrentNonce
      <4> QED
        BY <4>1, <4>2 DEF Strays
    <3> QED
      BY <1>0, <1>4, <2>1, <2>3, <3>1, CommandCertified DEF Stray, callerVars
  <2> QED
    BY <1>4, <2>2, <2>3 DEF Stray
<1>5. CASE UNCHANGED vars
  BY <1>0, <1>5, ExpiryCertified DEF vars, keyVars, callerVars
<1> QED
  BY <1>1, <1>2, <1>3, <1>4, <1>5, Steps

-----------------------------------------------------------------------------
(* The holder keeps the key *)

\* Kept(m) survives a step that is not about m, unless it takes the key away.
LEMMA Apart ==
  ASSUME TypeOK, NEW m \in Locks, Kept(m),
         round'[m] = round[m] /\ pc'[m] = pc[m] /\ reply'[m] = reply[m] /\ age'[m] = age[m],
         pc[m] = "held" => LET n == Current(m) IN
           /\ watch'[n] = watch[n] /\ uses'[n] = uses[n] /\ answer'[n] = answer[n]
           /\ wage'[n] = wage[n] /\ timer'[n] = timer[n] /\ (n \in fired' <=> n \in fired),
         owner = Current(m) => owner' = owner /\ ttl' \in {ttl, Expire}
  PROVE  Kept(m)'
<1> USE LockAssumption DEF LockAssumption
<1>1. Current(m)' = Current(m)
  BY DEF Current
<1>2. pc[m] = "setnx" /\ reply[m] = "yes" => owner' = Current(m)' /\ ttl' + age'[m] >= Expire
  BY <1>1 DEF Kept, TypeOK
<1>3. ASSUME pc[m] = "held"
      PROVE  owner' = Current(m)' /\ Renewed(Current(m))'
  <2> DEFINE n == Current(m)
  <2>1. Renewed(n) /\ owner = n
    BY <1>3 DEF Kept
  <2>2. n \in Nonce /\ wage[n] \in Nat /\ timer[n] \in 0 .. Renew /\ ttl \in 0 .. Expire /\ ttl' \in {ttl, Expire}
    BY <2>1, Nonces DEF TypeOK, Current
  <2>3. CASE ttl' = ttl
    BY <1>1, <1>3, <2>1, <2>3 DEF Renewed
  <2>4. CASE ttl' = Expire
    BY <1>1, <1>3, <2>1, <2>2, <2>4 DEF Renewed
  <2> QED
    BY <1>1, <2>1, <2>2, <2>3, <2>4
<1> QED
  BY <1>2, <1>3 DEF Kept

\* A granted key is the nonce of one lock only.
LEMMA OneOwner ==
  ASSUME NEW m \in Locks, NEW l \in Locks, m # l
  PROVE  Current(m) # Current(l)
BY DEF Current

LEMMA LockUndisturbed ==
  ASSUME TypeOK, Numbers, faults = 0, stray = {}, \A m \in Busy : Current(m) \notin ended,
         \A m \in Locks : Kept(m),
         NEW l \in Locks, LockStep(l), faults' = 0
  PROVE  /\ stray' = {}
         /\ \A m \in Busy' : Current(m)' \notin ended'
         /\ \A m \in Locks : Kept(m)'
<1> USE LockAssumption DEF LockAssumption
<1>0. TryLock(l) \/ Unlock(l) \/ Serve(l) \/ TryReturns(l) \/ UnlockReturns(l)
  BY DEF LockStep, Caller, Fails, TryFails, UnlockFails, Resend, ContextEnds, Crash, Fault
<1>f. \A m \in Locks \ {l} : /\ round'[m] = round[m] /\ pc'[m] = pc[m] /\ reply'[m] = reply[m]
                             /\ age'[m] = age[m]
  BY LockFrame
<1>s. stray' = stray
  BY <1>0 DEF TryLock, Unlock, Serve, TryReturns, UnlockReturns
<1>e. ended' \in {ended, ended \cup {Current(l)}} /\ (UnlockReturns(l) \/ ended' = ended)
  BY <1>0 DEF TryLock, Unlock, Serve, TryReturns, UnlockReturns
<1>1. ASSUME NEW m \in Busy'
      PROVE  Current(m)' \notin ended'
  <2>0. m \in Locks
    BY DEF Busy
  <2>1. CASE m # l
    <3>1. m \in Busy /\ Current(m)' = Current(m)
      BY <1>f, <2>0, <2>1 DEF Busy, Current
    <3>2. Current(m) # Current(l)
      BY <2>0, <2>1, OneOwner
    <3> QED
      BY <1>e, <3>1, <3>2
  <2>2. CASE m = l /\ TryLock(l)
    <3>1. Current(l)' = <<l, round[l] + 1>> /\ ended' = ended /\ round[l] \in Nat
      BY <2>2 DEF TryLock, Current, TypeOK
    <3>2. <<l, round[l] + 1>> \notin ended
      BY <3>1 DEF Numbers
    <3> QED
      BY <2>2, <3>1, <3>2
  <2>3. CASE m = l /\ UnlockReturns(l)
    BY <2>3 DEF UnlockReturns, Returns, Send, Busy, TypeOK
  <2>4. CASE m = l /\ ~TryLock(l) /\ ~UnlockReturns(l)
    <3>1. l \in Busy /\ round' = round /\ ended' = ended
      BY <1>e, <2>4, LockFrame
    <3> QED
      BY <2>4, <3>1 DEF Current
  <2> QED
    BY <2>1, <2>2, <2>3, <2>4
<1>2. ASSUME NEW m \in Locks, m # l
      PROVE  Kept(m)'
  <2>1. owner = Current(m) => UNCHANGED <<owner, ttl>>
    <3>1. CASE Serve(l)
      <4>1. PICK ans \in Answer : SetNX(Current(l), ans) \/ Del(Current(l), ans)
        BY <3>1 DEF Serve
      <4>2. Current(m) # Current(l)
        BY <1>2, OneOwner
      <4>3. owner = Current(m) => owner # Free
        BY DEF Current, TypeOK
      <4> QED
        BY <4>1, <4>2, <4>3 DEF SetNX, Del, keyVars
    <3>2. CASE ~Serve(l)
      BY <1>0, <3>2 DEF TryLock, Unlock, TryReturns, UnlockReturns, keyVars
    <3> QED
      BY <3>1, <3>2
  <2>2. /\ pc[m] = "held" => watch'[Current(m)] = watch[Current(m)]
        /\ UNCHANGED <<uses, answer, wage, timer, fired>>
    <3>1. CASE TryReturns(l)
      <4>1. Current(m) # Current(l) /\ (pc[m] = "held" => Current(m) \in Nonce)
        BY <1>2, OneOwner, CurrentNonce DEF Busy
      <4> QED
        BY <3>1, <4>1 DEF TryReturns, TypeOK
    <3>2. CASE ~TryReturns(l)
      BY <1>0, <3>2 DEF TryLock, Unlock, Serve, UnlockReturns, watchVars
    <3> QED
      BY <3>1, <3>2
  <2> QED
    BY <1>f, <1>2, <2>1, <2>2, Apart
<1>3. Kept(l)'
  <2>r. \A p, res : Returns(l, p, res) => pc'[l] = p /\ round' = round
    BY DEF Returns, Send, TypeOK
  <2>1. CASE TryLock(l)
    BY <2>1 DEF TryLock, Send, Kept, TypeOK
  <2>2. CASE Unlock(l)
    BY <2>2, <2>r DEF Unlock, Send, Kept, TypeOK
  <2>3. CASE Serve(l)
    <3>1. pc' = pc /\ age' = age /\ Current(l)' = Current(l) /\ pc[l] \in {"setnx", "unlock"}
      BY <2>3 DEF Serve, Current
    <3>2. ASSUME pc[l] = "setnx", reply'[l] = "yes"
          PROVE  owner' = Current(l) /\ ttl' = Expire
      <4>1. SetNX(Current(l), "yes")
        BY <2>3, <3>2 DEF Serve, TypeOK
      <4> QED
        BY <4>1 DEF SetNX
    <3> QED
      BY <3>1, <3>2 DEF Kept, TypeOK
  <2>4. CASE TryReturns(l)
    <3>1. CASE reply[l] = "yes" /\ Returns(l, "held", "locked") /\ watch' = [watch EXCEPT ![Current(l)] = "start"]
      <4>1. Current(l) \in Nonce
        BY <2>4, CurrentNonce DEF TryReturns, Busy
      <4>2. owner = Current(l) /\ ttl + age[l] >= Expire
        BY <2>4, <3>1 DEF TryReturns, Kept
      <4>3. pc'[l] = "held" /\ Current(l)' = Current(l) /\ watch'[Current(l)] = "start" /\ UNCHANGED <<owner, ttl>>
        BY <2>r, <2>4, <3>1, <4>1 DEF TryReturns, keyVars, Current, TypeOK
      <4>4. ttl + MaxDelay >= Expire
        BY <4>2 DEF TypeOK
      <4> QED
        BY <4>2, <4>3, <4>4 DEF Kept, Renewed
    <3>2. CASE Returns(l, "idle", "taken")
      BY <2>r, <3>2 DEF Kept
    <3> QED
      BY <2>4, <3>1, <3>2 DEF TryReturns
  <2>5. CASE UnlockReturns(l)
    BY <2>5, <2>r DEF UnlockReturns, Kept
  <2> QED
    BY <1>0, <2>1, <2>2, <2>3, <2>4, <2>5
<1> QED
  BY <1>s, <1>1, <1>2, <1>3

LEMMA WatchUndisturbed ==
  ASSUME TypeOK, Numbers, faults = 0, stray = {}, \A m \in Busy : Current(m) \notin ended,
         \A m \in Locks : Kept(m),
         NEW n \in Nonce, WatchStep(n), faults' = 0
  PROVE  /\ stray' = {}
         /\ \A m \in Busy' : Current(m)' \notin ended'
         /\ \A m \in Locks : Kept(m)'
<1> USE LockAssumption DEF LockAssumption
<1>0. Watchdog(n)
  BY DEF WatchStep, RenewalFails, ResendScript, Fault
<1>1. UNCHANGED <<stray, ended, callerVars>>
  BY <1>0 DEF Watchdog, WatchStarts, Renews, ServeRenewal, RenewalReturns, WatchStops, WatchFrame
<1>2. \A m \in Busy' : Current(m)' \notin ended'
  BY <1>1 DEF Busy, Current, callerVars
<1>3. UNCHANGED <<owner, ttl>> \/ (owner' = owner /\ ttl' = Expire)
  BY <1>0 DEF Watchdog, WatchStarts, Renews, ServeRenewal, RenewalReturns, WatchStops, Extend, keyVars
<1>4. \A k \in Nonce \ {n} :
        /\ watch'[k] = watch[k] /\ uses'[k] = uses[k] /\ answer'[k] = answer[k]
        /\ wage'[k] = wage[k] /\ timer'[k] = timer[k] /\ (k \in fired' <=> k \in fired)
  <2>1. ASSUME NEW k \in Nonce \ {n}
        PROVE  /\ Ends(n) => /\ watch'[k] = watch[k] /\ uses'[k] = uses[k] /\ answer'[k] = answer[k]
                             /\ wage'[k] = wage[k] /\ timer'[k] = timer[k] /\ (k \in fired' <=> k \in fired)
               /\ Selects(n) => watch'[k] = watch[k] /\ uses'[k] = uses[k] /\ answer'[k] = answer[k]
                                /\ wage'[k] = wage[k]
    BY DEF Ends, Selects, Watch, TypeOK
  <2> QED
    BY <1>0, <2>1 DEF Watchdog, WatchStarts, Renews, ServeRenewal, RenewalReturns, WatchStops, Watch, TypeOK
<1>5. ASSUME NEW m \in Locks
      PROVE  Kept(m)'
  <2>1. CASE ~(pc[m] = "held" /\ n = Current(m))
    <3>1. pc[m] = "held" => Current(m) \in Nonce \ {n}
      BY <2>1, CurrentNonce DEF Busy
    <3> QED
      BY <1>1, <1>3, <1>4, <3>1, Apart DEF callerVars
  <2>2. CASE pc[m] = "held" /\ n = Current(m)
    <3>1. n[1] = m /\ n[2] = round[m] /\ n = <<m, round[m]>> /\ n \notin ended
      BY <2>2, CurrentNonce DEF Busy, Current
    <3>2. owner = n /\ Renewed(n)
      BY <2>2 DEF Kept
    <3>3. /\ ttl \in 0 .. Expire /\ wage[n] \in 0 .. MaxDelay /\ timer[n] \in 0 .. Renew /\ uses[n] \in Nat
      BY DEF TypeOK
    <3>4. owner' = n /\ (ttl' = ttl \/ ttl' = Expire)
      BY <1>3, <3>2
    <3>5. Renewed(n)'
      <4>1. CASE WatchStarts(n)
        <5>1. /\ watch[n] = "start" /\ watch'[n] = "select" /\ uses'[n] = n[2] /\ timer'[n] = Renew
              /\ ttl' = ttl /\ answer'[n] = "none"
          BY <4>1, <3>1 DEF WatchStarts, Selects, Watch, TypeOK, keyVars
        <5>2. ttl + MaxDelay >= Expire
          BY <3>2, <5>1 DEF Renewed
        <5>3. ttl' + MaxDelay + Renew >= Expire + timer'[n] /\ ttl' + MaxDelay + Renew >= Expire
          BY <3>3, <5>1, <5>2
        <5> QED
          BY <5>1, <5>3 DEF Renewed
      <4>2. CASE Renews(n)
        <5>0. Current(n[1]) = n
          BY <3>1 DEF Current
        <5>1. /\ watch[n] = "select" /\ n \in fired /\ watch'[n] = "eval" /\ uses'[n] = n[2]
              /\ answer'[n] = answer[n] /\ wage'[n] = wage[n] /\ ttl' = ttl
          BY <4>2, <3>1, <5>0 DEF Renews, Watch, TypeOK, keyVars
        <5>2. ttl + MaxDelay + Renew >= Expire /\ answer[n] = "none"
          BY <3>2, <5>1 DEF Renewed
        <5>3. ttl' + wage'[n] + MaxDelay + Renew >= Expire
          BY <3>3, <5>1, <5>2
        <5> QED
          BY <5>1, <5>2, <5>3 DEF Renewed
      <4>3. CASE ServeRenewal(n)
        <5>1. watch[n] = "eval" /\ watch'[n] = "eval" /\ wage'[n] = wage[n] /\ uses'[n] = uses[n]
          BY <4>3 DEF ServeRenewal
        <5>2. uses[n] = n[2]
          BY <3>2, <5>1 DEF Renewed
        <5>3. ttl' = Expire /\ answer'[n] = "yes"
          BY <4>3, <5>2, <3>1, <3>2 DEF ServeRenewal, Extend, TypeOK
        <5> QED
          BY <3>3, <5>1, <5>2, <5>3 DEF Renewed
      <4>4. CASE RenewalReturns(n)
        <5>1. watch[n] = "eval" /\ answer[n] # "none"
          BY <4>4 DEF RenewalReturns
        <5>2. answer[n] = "yes" /\ ttl + wage[n] >= Expire
          BY <3>2, <5>1 DEF Renewed
        <5>3. /\ watch'[n] = "select" /\ uses'[n] = n[2] /\ answer'[n] = "none"
              /\ timer' = timer /\ fired' = fired /\ ttl' = ttl
          BY <4>4, <3>1, <5>2 DEF RenewalReturns, Selects, Watch, TypeOK, keyVars
        <5>4. ttl' + MaxDelay + Renew >= Expire + timer'[n] /\ ttl' + MaxDelay + Renew >= Expire
          BY <3>3, <5>2, <5>3
        <5> QED
          BY <5>3, <5>4 DEF Renewed
      <4>5. CASE WatchStops(n)
        <5>1. watch[n] = "select" /\ <<m, uses[n]>> \in ended
          BY <4>5, <3>1 DEF WatchStops
        <5>2. uses[n] = n[2]
          BY <3>2, <5>1 DEF Renewed
        <5> QED
          BY <3>1, <5>1, <5>2
      <4> QED
        BY <1>0, <4>1, <4>2, <4>3, <4>4, <4>5 DEF Watchdog
    <3>6. UNCHANGED <<pc, round>>
      BY <1>1 DEF callerVars
    <3>7. Current(m)' = n
      BY <2>2, <3>6 DEF Current
    <3> QED
      BY <2>2, <3>4, <3>5, <3>6, <3>7 DEF Kept
  <2> QED
    BY <2>1, <2>2
<1> QED
  BY <1>1, <1>2, <1>5

LEMMA TickUndisturbed ==
  ASSUME TypeOK, Numbers, faults = 0, stray = {}, \A m \in Busy : Current(m) \notin ended,
         \A m \in Locks : Kept(m),
         Tick, faults' = 0
  PROVE  /\ stray' = {}
         /\ \A m \in Busy' : Current(m)' \notin ended'
         /\ \A m \in Locks : Kept(m)'
<1> USE LockAssumption DEF LockAssumption
<1>0. ~Overdue
  BY DEF Tick, Fault
<1>1. UNCHANGED <<stray, ended, pc, round, reply, watch, uses, answer>>
  BY DEF Tick
<1>2. \A m \in Busy' : Current(m)' \notin ended'
  BY <1>1 DEF Busy, Current
<1>3. ASSUME NEW m \in Locks
      PROVE  Kept(m)'
  <2> DEFINE n == Current(m)
  <2>1. n' = n
    BY <1>1 DEF Current
  <2>2. owner = n /\ ttl >= 2 => owner' = n /\ ttl' = ttl - 1
    BY DEF Tick, TypeOK, Current
  <2>3. ASSUME pc[m] = "setnx", reply[m] = "yes"
        PROVE  owner' = n' /\ ttl' + age'[m] >= Expire
    <3>1. owner = n /\ ttl + age[m] >= Expire
      BY <2>3 DEF Kept
    <3>2. age[m] \in 0 .. MaxDelay /\ ttl \in Nat
      BY DEF TypeOK
    <3>3. age[m] # MaxDelay
      BY <1>0, <2>3 DEF Overdue
    <3>4. age'[m] = age[m] + 1
      BY <2>3, <3>2, <3>3 DEF Tick, Older
    <3>5. ttl >= 2
      BY <3>1, <3>2, <3>3
    <3> QED
      BY <2>1, <2>2, <3>1, <3>2, <3>4, <3>5
  <2>4. ASSUME pc[m] = "held"
        PROVE  owner' = n' /\ Renewed(n)'
    <3>1. n \in Nonce /\ owner = n /\ Renewed(n)
      BY <2>4, CurrentNonce DEF Kept, Busy
    <3>2. ttl \in Nat /\ wage[n] \in Nat /\ wage[n] <= MaxDelay /\ timer[n] \in Nat
      BY <3>1 DEF TypeOK
    <3>3. watch[n] # "start" /\ (watch[n] = "select" => n \notin fired) /\ (watch[n] = "eval" => wage[n] < MaxDelay)
      BY <1>0, <3>1, <3>2 DEF Overdue
    <3>4. CASE watch[n] = "select"
      <4>1. n \in Ticking /\ timer[n] > 0
        BY <3>1, <3>4 DEF Ticking, Numbers
      <4>2. uses[n] = n[2] /\ answer[n] = "none" /\ ttl + MaxDelay + Renew >= Expire + timer[n]
        BY <3>1, <3>3, <3>4 DEF Renewed
      <4>3. ttl >= 2
        BY <3>2, <4>1, <4>2
      <4>4. CASE timer[n] = 1
        <5>1. n \in fired' /\ ttl' + MaxDelay + Renew >= Expire
          BY <2>2, <3>1, <3>2, <4>1, <4>2, <4>3, <4>4 DEF Tick
        <5> QED
          BY <1>1, <2>1, <2>2, <3>1, <3>4, <4>2, <4>3, <5>1 DEF Renewed
      <4>5. CASE timer[n] # 1
        <5>1. n \notin fired' /\ timer'[n] = timer[n] - 1
          BY <3>1, <3>3, <3>4, <4>1, <4>5 DEF Tick
        <5>2. ttl' + MaxDelay + Renew >= Expire + timer'[n]
          BY <2>2, <3>1, <3>2, <4>2, <4>3, <5>1
        <5> QED
          BY <1>1, <2>1, <2>2, <3>1, <3>4, <4>2, <4>3, <5>1, <5>2 DEF Renewed
      <4> QED
        BY <4>4, <4>5
    <3>5. CASE watch[n] = "eval"
      <4>1. uses[n] = n[2] /\ wage'[n] = wage[n] + 1
        BY <3>1, <3>2, <3>3, <3>5 DEF Renewed, Tick, Older
      <4>2. \/ answer[n] = "none" /\ ttl + wage[n] + MaxDelay + Renew >= Expire
            \/ answer[n] = "yes" /\ ttl + wage[n] >= Expire
        BY <3>1, <3>5 DEF Renewed
      <4>3. ttl >= 2
        BY <3>2, <3>3, <3>5, <4>2
      <4>4. \/ answer[n] = "none" /\ ttl' + wage'[n] + MaxDelay + Renew >= Expire
            \/ answer[n] = "yes" /\ ttl' + wage'[n] >= Expire
        BY <2>2, <3>1, <3>2, <4>1, <4>2, <4>3
      <4> QED
        BY <1>1, <2>1, <2>2, <3>1, <3>5, <4>1, <4>3, <4>4 DEF Renewed
    <3> QED
      BY <3>1, <3>3, <3>4, <3>5 DEF Renewed
  <2> QED
    BY <1>1, <2>3, <2>4 DEF Kept
<1> QED
  BY <1>1, <1>2, <1>3

LEMMA UndisturbedKeeps == IInv /\ [Next]_vars => Undisturbed'
<1> SUFFICES ASSUME IInv, [Next]_vars, faults' = 0
             PROVE  /\ stray' = {}
                    /\ \A m \in Busy' : Current(m)' \notin ended'
                    /\ \A m \in Locks : Kept(m)'
  BY DEF Undisturbed
<1> USE DEF IInv
<1>0. faults = 0
  <2>1. faults' = faults \/ Fault
    <3>1. ASSUME NEW l \in Locks, LockStep(l)
          PROVE  faults' = faults \/ Fault
      BY <3>1 DEF LockStep, Caller, Fails, TryLock, Unlock, Serve, TryReturns, UnlockReturns, TryFails, UnlockFails,
                Resend, ContextEnds, Crash
    <3>2. ASSUME NEW n \in Nonce, WatchStep(n)
          PROVE  faults' = faults \/ Fault
      BY <3>2 DEF WatchStep, Watchdog, WatchStarts, Renews, ServeRenewal, RenewalReturns, RenewalFails, ResendScript, WatchStops
    <3> QED
      BY <3>1, <3>2, Steps DEF Tick, Stray, vars
  <2> QED
    BY <2>1 DEF Fault, TypeOK
<1>1. /\ stray = {}
      /\ \A m \in Busy : Current(m) \notin ended
      /\ \A m \in Locks : Kept(m)
  BY <1>0 DEF Undisturbed
<1>2. CASE UNCHANGED vars
  BY <1>1, <1>2 DEF vars, keyVars, callerVars, watchVars, Busy, Current, Kept, Renewed
<1> QED
  BY <1>0, <1>1, <1>2, Steps, LockUndisturbed, WatchUndisturbed, TickUndisturbed

-----------------------------------------------------------------------------
(* The theorems *)

\* The inductive invariant holds in every state the lock can reach.
THEOREM Invariance == Spec => []IInv
<1>1. Init => IInv
  <2> SUFFICES ASSUME Init
               PROVE  IInv
    OBVIOUS
  <2>1. TypeOK
    <3>1. /\ round \in {f \in [Locks -> Nat] : \A l \in Locks : f[l] <= rounds[l]}
          /\ uses \in {f \in [Nonce -> Nat] : \A n \in Nonce : f[n] <= rounds[n[1]]}
      BY Nonces, LockAssumption DEF LockAssumption, Init
    <3>2. /\ pc \in [Locks -> {"idle", "setnx", "held", "unlock", "dead"}] /\ reply \in [Locks -> Reply]
          /\ age \in [Locks -> 0 .. MaxDelay] /\ result \in [Locks -> Result]
      BY LockAssumption DEF LockAssumption, Init, Reply, Result
    <3>3. /\ watch \in [Nonce -> {"none", "start", "select", "eval", "gone"}] /\ answer \in [Nonce -> Reply]
          /\ wage \in [Nonce -> 0 .. MaxDelay] /\ timer \in [Nonce -> 0 .. Renew]
      BY LockAssumption DEF LockAssumption, Init, Reply
    <3>4. /\ owner \in Nonce \cup {Free} /\ ttl \in 0 .. Expire /\ (owner = Free <=> ttl = 0)
          /\ ended \subseteq Nonce /\ fired \subseteq Nonce /\ stray \subseteq Copy
          /\ intruded \subseteq Locks /\ resent \subseteq Locks /\ faults \in 0 .. MaxFaults
      BY LockAssumption DEF LockAssumption, Init
    <3> QED
      BY <3>1, <3>2, <3>3, <3>4 DEF TypeOK
  <2>2. Busy = {} /\ Ticking = {} /\ ended = {} /\ stray = {} /\ \A l \in Locks : pc[l] = "idle" /\ result[l] = "none"
    BY DEF Init, Busy, Ticking
  <2> QED
    BY <2>1, <2>2 DEF IInv, Numbers, Strays, Left, Certified, CertifiedAt, Undisturbed, Kept
<1>2. IInv /\ [Next]_vars => IInv'
  BY TypeKeeps, NumbersKeep, StraysKeep, CertifiedKeeps, UndisturbedKeeps DEF IInv
<1> QED
  BY <1>1, <1>2, PTL DEF Spec

\* Redis, callers and watchdogs keep their types; a key has a time to live exactly
\* when it exists: SETNX and both scripts of lock.go leave no key without expiry.
THEOREM TypeCorrect == Spec => []TypeOK
BY Invariance, PTL DEF IInv

\* Without faults the key is the nonce of whoever holds the lock, for as long as it
\* is held: the watchdog of TryLock renews it in time, so nobody else gets it.
THEOREM LockIsExclusive == Spec => []MutualExclusion
<1>1. IInv => MutualExclusion
  BY DEF IInv, Undisturbed, Kept, MutualExclusion, Holds
<1> QED
  BY <1>1, Invariance, PTL

\* Whatever commands are late, fail or are lost and whoever crashes, an Unlock that
\* returns nil tells its caller that nobody else had the lock since TryLock got it,
\* unless the SETNX of that TryLock was sent again with a copy on its way: nothing
\* else can put the nonce back once somebody else has had the key.
THEOREM ReleaseIsCertified == Spec => []ReleaseCertifies
<1>1. IInv => ReleaseCertifies
  BY DEF IInv, Certified, CertifiedAt, ReleaseCertifies
<1> QED
  BY <1>1, Invariance, PTL

=============================================================================
