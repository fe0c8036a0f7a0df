---------------------------- MODULE GoroutinePool ----------------------------
(***************************************************************************)
(* The goroutine pool of pool/goroutine_pool.go: Submit and                *)
(* SubmitWithRetry, the core and temporary workers, Close.                 *)
(*                                                                         *)
(* Every goroutine is a process and every access to a shared object (the   *)
(* taskQueue channel, the atomics workerNum and stopped, the WaitGroup) is *)
(* a step of its own, so the goroutines interleave as they do in Go.  A    *)
(* task is named by the call that submits it.                              *)
(***************************************************************************)

EXTENDS Naturals, Sequences, FiniteSets

CONSTANTS
  Calls,       \* calls of SubmitWithRetry, each with a task of its own
  NilCalls,    \* those among them whose taskFunc is nil
  Core,        \* the goroutines started by NewPool
  Closers,     \* calls of Close
  MaxWorkers,  \* maxWorkers
  QueueSize,   \* cap(taskQueue)
  RetryTimes,  \* the retryTimes argument, negative values clamped to 0
  None         \* a worker that holds no task

\* NewPool rejects coreWorkers <= 0, maxWorkers < coreWorkers and queueSize <= 0.
ASSUME PoolAssumption ==
  /\ NilCalls \subseteq Calls
  /\ IsFiniteSet(Core) /\ Core # {}
  /\ MaxWorkers \in Nat /\ MaxWorkers >= Cardinality(Core)
  /\ QueueSize \in Nat \ {0}
  /\ RetryTimes \in Nat
  /\ None \notin Calls

\* A temporary worker is named by the call, and the attempt of it, that starts it.
Temp == Calls \X (0 .. RetryTimes)

Workers == Core \cup Temp

ASSUME WorkersAssumption == Core \cap Temp = {}

VARIABLES
  queue,           \* contents of the taskQueue channel
  closed,          \* close(taskQueue) has happened
  stopped,         \* the atomic flag stopped
  workerNum,       \* the atomic counter workerNum
  wg,              \* counter of the WaitGroup
  waiter,          \* the goroutine of Close that runs wg.Wait
  totalSubmitted, totalCompleted, totalPanic,
  pc,              \* pc[c]: where call c is; its result once it has returned
  attempt,         \* attempt[c]: the loop variable i of SubmitWithRetry
  current,         \* current[c]: workerNum as loaded by the CAS loop
  worker,          \* worker[w]: what worker w is doing
  job,             \* job[w]: the task worker w executes
  outcome,         \* outcome[c]: how the task of call c ended
  closer           \* closer[k]: where call k of Close is; then its result

callVars   == <<pc, attempt, current>>
workerVars == <<worker, job, outcome>>
closeVars  == <<closed, stopped, waiter, closer>>
counters   == <<workerNum, wg>>
stats      == <<totalSubmitted, totalCompleted, totalPanic>>
vars == <<queue, closeVars, counters, stats, callVars, workerVars>>

-----------------------------------------------------------------------------
\* "ok", "full", "stopped" and "nil" are the results nil, ErrPoolFull,
\* ErrPoolStopped and ErrNilTask; "panic" is a panic out of Submit.
Returned == {"ok", "full", "stopped", "nil", "panic"}
InSubmit == {"send1", "load", "cas", "grow", "send2", "send3"}
CallPC == {"new", "sleep"} \cup InSubmit \cup Returned

\* "leaving": workerNum.Add(-1) is done and wg.Done is not.
WorkerState == {"none", "idle", "busy", "leaving", "gone"}

Outcome == {"none", "ran", "panicked", "skipped"}

\* "nil", "timeout" and "stopped" are the results of Close.
CloserPC == {"new", "close", "wait", "nil", "timeout", "stopped"}

\* "woken": the last wg.Done has released Wait, which has not run again yet.
WaiterState == {"none", "starting", "waiting", "woken", "done", "panic"}

TypeOK ==
  /\ queue \in Seq(Calls)
  /\ closed \in BOOLEAN
  /\ stopped \in BOOLEAN
  /\ workerNum \in Nat
  /\ wg \in Nat
  /\ waiter \in WaiterState
  /\ totalSubmitted \in Nat
  /\ totalCompleted \in Nat
  /\ totalPanic \in Nat
  /\ pc \in [Calls -> CallPC]
  /\ attempt \in [Calls -> 0 .. RetryTimes]
  /\ current \in [Calls -> Nat]
  /\ worker \in [Workers -> WorkerState]
  /\ job \in [Workers -> Calls \cup {None}]
  /\ outcome \in [Calls -> Outcome]
  /\ closer \in [Closers -> CloserPC]

\* NewPool starts the core workers before it returns the pool.
Init ==
  /\ queue = <<>>
  /\ closed = FALSE
  /\ stopped = FALSE
  /\ workerNum = Cardinality(Core)
  /\ wg = Cardinality(Core)
  /\ waiter = "none"
  /\ totalSubmitted = 0 /\ totalCompleted = 0 /\ totalPanic = 0
  /\ pc = [c \in Calls |-> "new"]
  /\ attempt = [c \in Calls |-> 0]
  /\ current = [c \in Calls |-> 0]
  /\ worker = [w \in Workers |-> IF w \in Core THEN "idle" ELSE "none"]
  /\ job = [w \in Workers |-> None]
  /\ outcome = [c \in Calls |-> "none"]
  /\ closer = [k \in Closers |-> "new"]

-----------------------------------------------------------------------------
(* Submit and SubmitWithRetry *)

Goto(c, l) == pc' = [pc EXCEPT ![c] = l]

\* Mutant of Begin: totalSubmitted is counted before the stopped check.
BeginCountsFirst(c) ==
  /\ pc[c] \in {"new", "sleep"}
  /\ Goto(c, IF c \in NilCalls THEN "nil" ELSE IF stopped THEN "stopped" ELSE "send1")
  /\ totalSubmitted' = totalSubmitted + 1
  /\ UNCHANGED <<queue, closeVars, counters, totalCompleted, totalPanic,
                 attempt, current, workerVars>>

\* One attempt: the checks of Submit, the closure, totalSubmitted.Add(1).  The
\* counter is read by nobody else in Submit, so it joins the step before it.
Begin(c) ==
  /\ pc[c] \in {"new", "sleep"}
  /\ \/ c \in NilCalls /\ Goto(c, "nil") /\ UNCHANGED totalSubmitted
     \/ c \notin NilCalls /\ stopped /\ Goto(c, "stopped") /\ UNCHANGED totalSubmitted
     \/ /\ c \notin NilCalls /\ ~stopped /\ Goto(c, "send1")
        /\ totalSubmitted' = totalSubmitted + 1
  /\ UNCHANGED <<queue, closeVars, counters, totalCompleted, totalPanic,
                 attempt, current, workerVars>>

\* select { case p.taskQueue <- task: return nil; default: }: Go panics on a
\* closed channel.  Room for the task is room in the buffer: the direct handoff
\* to a parked worker is the append followed at once by that worker's Receive.
SendEnds(c) ==
  \/ closed /\ Goto(c, "panic") /\ UNCHANGED queue
  \/ ~closed /\ Len(queue) < QueueSize /\ queue' = Append(queue, c) /\ Goto(c, "ok")

SendFalls(c, l) == ~closed /\ Len(queue) = QueueSize /\ Goto(c, l) /\ UNCHANGED queue

\* What the three sends leave alone.
SendFrame == UNCHANGED <<closeVars, counters, stats, current, workerVars>>

Send1(c) ==
  /\ pc[c] = "send1"
  /\ SendEnds(c) \/ SendFalls(c, "load")
  /\ UNCHANGED attempt /\ SendFrame

\* Either workerNum has reached maxWorkers, or its value is kept for the CAS.
Load(c) ==
  /\ pc[c] = "load"
  /\ \/ workerNum >= MaxWorkers /\ Goto(c, "send3") /\ UNCHANGED current
     \/ /\ workerNum < MaxWorkers /\ Goto(c, "cas")
        /\ current' = [current EXCEPT ![c] = workerNum]
  /\ UNCHANGED <<queue, closeVars, counters, stats, attempt, workerVars>>

\* After the CAS, won or lost, current is dead.
CasEnds(c, l, n) ==
  /\ pc[c] = "cas" /\ Goto(c, l)
  /\ workerNum' = n
  /\ current' = [current EXCEPT ![c] = 0]
  /\ UNCHANGED <<queue, closeVars, wg, stats, attempt, workerVars>>

\* Mutants of Cas: a plain Store of current+1; a lost CAS tried again and again
\* without loading workerNum anew.
CasStores(c) == CasEnds(c, "grow", current[c] + 1)
CasSpins(c)  == workerNum = current[c] /\ CasEnds(c, "grow", current[c] + 1)

\* workerNum.CompareAndSwap(current, current+1)
Cas(c) ==
  \/ workerNum = current[c] /\ CasEnds(c, "grow", current[c] + 1)
  \/ workerNum # current[c] /\ CasEnds(c, "load", workerNum)

\* p.wg.Add(1); go p.tempWorker()
Grow(c) ==
  /\ pc[c] = "grow" /\ Goto(c, "send2")
  /\ wg' = wg + 1
  /\ worker' = [worker EXCEPT ![<<c, attempt[c]>>] = "idle"]
  /\ UNCHANGED <<queue, closeVars, workerNum, stats, attempt, current, job, outcome>>

\* Mutant of Send2: the second send lacks its return and falls through.
Send2FallsThrough(c) ==
  /\ pc[c] = "send2" /\ ~closed /\ Goto(c, "send3")
  /\ queue' = IF Len(queue) < QueueSize THEN Append(queue, c) ELSE queue
  /\ UNCHANGED attempt /\ SendFrame

Send2(c) ==
  /\ pc[c] = "send2"
  /\ SendEnds(c) \/ SendFalls(c, "send3")
  /\ UNCHANGED attempt /\ SendFrame

\* ErrPoolFull is retried after a sleep.
Retry(c) == SendFalls(c, "sleep") /\ attempt' = [attempt EXCEPT ![c] = @ + 1]

\* The last send, and what SubmitWithRetry does when it finds the queue full.
Send3(c) ==
  /\ pc[c] = "send3"
  /\ \/ SendEnds(c) /\ UNCHANGED attempt
     \/ attempt[c] = RetryTimes /\ SendFalls(c, "full") /\ UNCHANGED attempt
     \/ attempt[c] < RetryTimes /\ Retry(c)
  /\ SendFrame

InCall(c) == Send1(c) \/ Load(c) \/ Cas(c) \/ Grow(c) \/ Send2(c) \/ Send3(c)

-----------------------------------------------------------------------------
(* Workers *)

\* The receive of `for range p.taskQueue` or of the select in tempWorker.
Receive(w) ==
  /\ worker[w] = "idle" /\ queue # <<>>
  /\ queue' = Tail(queue)
  /\ worker' = [worker EXCEPT ![w] = "busy"]
  /\ job' = [job EXCEPT ![w] = Head(queue)]
  /\ UNCHANGED <<closeVars, counters, stats, callVars, outcome>>

\* runTask: the task runs, panics, or is skipped because its context is done;
\* the deferred function counts it.  next is where the worker goes on.
TaskEnds(w, o, next) ==
  /\ worker[w] = "busy"
  /\ outcome' = [outcome EXCEPT ![job[w]] = o]
  /\ totalCompleted' = totalCompleted + 1
  /\ totalPanic' = IF o = "panicked" THEN totalPanic + 1 ELSE totalPanic
  /\ worker' = [worker EXCEPT ![w] = next]
  /\ job' = [job EXCEPT ![w] = None]
  /\ UNCHANGED <<queue, closeVars, wg, totalSubmitted, callVars>>

\* Mutant of Finish: runTask does not recover, a panic ends the worker.
FinishUnrecovered(w, o) ==
  IF o = "panicked" THEN TaskEnds(w, o, "leaving") /\ workerNum' = workerNum - 1
                    ELSE TaskEnds(w, o, "idle") /\ UNCHANGED workerNum

\* Whatever the task did, the worker goes back to its loop.
Finish(w, o) == TaskEnds(w, o, "idle") /\ UNCHANGED workerNum

\* The first of the two deferred calls, workerNum.Add(-1).
Leave(w) ==
  /\ worker[w] = "idle"
  /\ worker' = [worker EXCEPT ![w] = "leaving"]
  /\ workerNum' = workerNum - 1
  /\ UNCHANGED <<queue, closeVars, wg, stats, callVars, job, outcome>>

\* Mutant of WorkerExit: a closed queue is left with tasks in it.
ExitUndrained(w) == closed /\ Leave(w)

\* A receive from a channel that is closed and drained ends the loop.
WorkerExit(w) == closed /\ queue = <<>> /\ Leave(w)

\* Mutants of IdleTimeout: every worker has an idle timer; only Close ends one.
AnyIdleTimeout(w) == Leave(w)
NoIdleTimeout(w)  == w \in Temp /\ closed /\ Leave(w)

\* Only a temporary worker has an idle timer; a select whose two cases are
\* ready takes either, so the timer may win over a task that is waiting.
IdleTimeout(w) == w \in Temp /\ Leave(w)

\* The deferred wg.Done: the one that brings the counter to 0 releases Wait.
WorkerDone(w) ==
  /\ worker[w] = "leaving"
  /\ worker' = [worker EXCEPT ![w] = "gone"]
  /\ wg' = wg - 1
  /\ waiter' = IF wg = 1 /\ waiter = "waiting" THEN "woken" ELSE waiter
  /\ UNCHANGED <<queue, closed, stopped, closer, workerNum, stats, callVars, job, outcome>>

-----------------------------------------------------------------------------
(* Close *)

\* What no step of Close touches.
CloseFrame == UNCHANGED <<queue, counters, stats, callVars, workerVars>>

\* stopped.CompareAndSwap(false, true)
CloseBegin(k) ==
  /\ closer[k] = "new"
  /\ stopped' = TRUE
  /\ closer' = [closer EXCEPT ![k] = IF stopped THEN "stopped" ELSE "close"]
  /\ UNCHANGED <<closed, waiter>> /\ CloseFrame

\* close(p.taskQueue), and the goroutine that waits for the workers starts.
CloseChannel(k) ==
  /\ closer[k] = "close"
  /\ closed' = TRUE
  /\ waiter' = "starting"
  /\ closer' = [closer EXCEPT ![k] = "wait"]
  /\ UNCHANGED stopped /\ CloseFrame

\* wg.Wait returns at once on 0 and parks otherwise.
WaitStart ==
  /\ waiter = "starting"
  /\ waiter' = IF wg = 0 THEN "done" ELSE "waiting"
  /\ UNCHANGED <<closed, stopped, closer>> /\ CloseFrame

\* After the last Done, Wait panics when the WaitGroup is in use again.
WaitWake ==
  /\ waiter = "woken"
  /\ waiter' = IF wg = 0 THEN "done" ELSE "panic"
  /\ UNCHANGED <<closed, stopped, closer>> /\ CloseFrame

\* The select of Close ends.
Answer(k, result) ==
  /\ closer[k] = "wait"
  /\ closer' = [closer EXCEPT ![k] = result]
  /\ UNCHANGED <<closed, stopped, waiter>> /\ CloseFrame

\* done is closed once wg.Wait has returned.
CloseReturn(k) == waiter = "done" /\ Answer(k, "nil")

\* Mutant of CloseTimeout: the timeout is reported as a graceful close.
CloseTimeoutNil(k) == Answer(k, "nil")

\* waitTime has passed; the waiting goroutine is left behind.
CloseTimeout(k) == Answer(k, "timeout")

-----------------------------------------------------------------------------
\* Nobody recovers a panic of the waiting goroutine: it ends the process.  A
\* panic of Submit unwinds into the caller, who may recover; the rest goes on.
Crashed == waiter = "panic"

WorkerStep(w) ==
  \/ Receive(w)
  \/ \E o \in Outcome \ {"none"} : Finish(w, o)
  \/ WorkerExit(w)
  \/ IdleTimeout(w)
  \/ WorkerDone(w)

CloseStep(k) == CloseChannel(k) \/ CloseReturn(k) \/ CloseTimeout(k)

WaitStep == WaitStart \/ WaitWake

\* Every call has returned and every goroutine has ended.
AllDone ==
  /\ \A c \in Calls : pc[c] \in Returned
  /\ \A k \in Closers : closer[k] \in {"nil", "timeout", "stopped"}
  /\ \A w \in Workers : worker[w] \in {"none", "gone"}
  /\ waiter \in {"none", "done"}

Stop == (Crashed \/ AllDone) /\ UNCHANGED vars

Running ==
  /\ ~Crashed
  /\ \/ \E c \in Calls : Begin(c) \/ InCall(c)
     \/ \E w \in Workers : WorkerStep(w)
     \/ \E k \in Closers : CloseBegin(k) \/ CloseStep(k)
     \/ WaitStep

Next == Running \/ Stop

Spec == Init /\ [][Next]_vars

\* A goroutine that can run runs, a sleep and an idle timer end, a task ends.
\* Nobody has to call SubmitWithRetry or Close.
Fairness ==
  /\ \A c \in Calls :
       /\ WF_vars(~Crashed /\ pc[c] = "sleep" /\ Begin(c))
       /\ WF_vars(~Crashed /\ InCall(c))
  /\ \A w \in Workers : WF_vars(~Crashed /\ WorkerStep(w))
  /\ \A k \in Closers : WF_vars(~Crashed /\ CloseStep(k))
  /\ WF_vars(~Crashed /\ WaitStep)

FairSpec == Spec /\ Fairness

-----------------------------------------------------------------------------
(* Safety *)

Live     == {w \in Workers : worker[w] \in {"idle", "busy"}}
Counted  == {w \in Workers : worker[w] \in {"idle", "busy", "leaving"}}
Growing  == {c \in Calls : pc[c] = "grow"}

\* The lock-free growth of Submit keeps workerNum equal to the workers that
\* run or are about to be started, so there are never more than maxWorkers.
WorkerAccounting ==
  /\ workerNum = Cardinality(Live) + Cardinality(Growing)
  /\ workerNum <= MaxWorkers

\* A core worker stays until Close has closed the queue and it is drained:
\* neither an idle timer nor the panic of a task takes one away.
CoreResident ==
  \A w \in Core : worker[w] \in {"leaving", "gone"} => closed /\ queue = <<>>

Queued(c) == \E i \in DOMAIN queue : queue[i] = c
Held(c)   == \E w \in Workers : job[w] = c
Ended(c)  == outcome[c] # "none"

\* Submit has returned nil exactly when its task is in one place: once in the
\* queue, with one worker, or over.  No path of Submit loses a task it reports
\* as accepted, keeps one it refused, or hands one over twice.
TaskConservation ==
  /\ \A c \in Calls : pc[c] = "ok" <=> Queued(c) \/ Held(c) \/ Ended(c)
  /\ \A c \in Calls : ~(Queued(c) /\ Held(c)) /\ ~(Ended(c) /\ (Queued(c) \/ Held(c)))
  /\ \A i, j \in DOMAIN queue : queue[i] = queue[j] => i = j
  /\ \A v, w \in Workers : job[v] = job[w] /\ job[v] # None => v = w

\* Attempts that passed the checks of Submit and have not handed over a task.
Refused == {c \in Calls : pc[c] \in InSubmit \cup {"full", "panic"}}

\* Attempts that SubmitWithRetry has followed by another.
Retried == {t \in Calls \X (0 .. RetryTimes) : t[2] < attempt[t[1]]}

Busy == {w \in Workers : worker[w] = "busy"}

\* totalSubmitted counts attempts, not tasks: it exceeds totalCompleted by the
\* tasks queued and running and by every attempt that found the pool full.
SubmittedAccounted ==
  totalSubmitted =
    totalCompleted + Len(queue) + Cardinality(Busy) + Cardinality(Refused) + Cardinality(Retried)

\* Close reports a graceful close only when every accepted task has ended.
GracefulClose ==
  \A k \in Closers : closer[k] = "nil" =>
    \A c \in Calls : pc[c] = "ok" => Ended(c)

\* "Set the stopped flag, refuse new tasks" (comment of Close): no Submit panics.
NoPanic == \A c \in Calls : pc[c] # "panic"

-----------------------------------------------------------------------------
(* Liveness: as long as the process lives. *)

\* An accepted task ends, through panics of other tasks, idle timeouts and Close.
AcceptedRuns ==
  \A c \in Calls : pc[c] = "ok" ~> Ended(c) \/ Crashed

\* Submit neither blocks nor spins for ever: every call returns or panics.
SubmitReturns ==
  \A c \in Calls : pc[c] \in InSubmit \cup {"sleep"} ~> pc[c] \in Returned \/ Crashed

\* The pool shrinks back: a temporary worker that is idle is gone some day.
ScalesBack ==
  \A w \in Temp : worker[w] = "idle" ~> worker[w] = "gone" \/ Crashed

-----------------------------------------------------------------------------
(* Refinement: what the callers see is TaskPool. *)

status ==
  [c \in Calls |->
     CASE Ended(c)                                     -> "finished"
       [] ~Ended(c) /\ Held(c)                         -> "running"
       [] ~Ended(c) /\ ~Held(c) /\ pc[c] = "ok"        -> "accepted"
       [] pc[c] \in Returned \ {"ok"}                  -> "refused"
       [] OTHER                                        -> "unsubmitted"]

Abstract == INSTANCE TaskPool WITH
  open    <- ~closed,
  drained <- \E k \in Closers : closer[k] = "nil"

\* The pool behaves as TaskPool promises: an accepted task is started and ended
\* once, a refused one never, and Close returns nil only when none is left.
ImplementsTaskPool == Abstract!Spec

=============================================================================
