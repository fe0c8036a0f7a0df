------------------------- MODULE GoroutinePoolProofs -------------------------
(***************************************************************************)
(* The safety of GoroutinePool for every number of calls, workers, queue   *)
(* slots and retries.                                                      *)
(***************************************************************************)

EXTENDS GoroutinePool, FiniteSetTheorems, TLAPS

-----------------------------------------------------------------------------
(* The inductive invariant *)

\* A worker is busy exactly while it holds a task.
Jobs == \A w \in Workers : worker[w] = "busy" <=> job[w] # None

\* The temporary worker of an attempt does not exist before Grow starts it.
Unborn ==
  \A c \in Calls, i \in 0 .. RetryTimes :
    \/ attempt[c] < i
    \/ attempt[c] = i /\ pc[c] \in {"new", "sleep", "send1", "load", "cas", "grow"}
    => worker[<<c, i>>] = "none"

\* A CAS is attempted only from a value below maxWorkers.
CasBelow == \A c \in Calls : pc[c] = "cas" => current[c] < MaxWorkers

Accounting ==
  /\ IsFiniteSet(Live)
  /\ IsFiniteSet(Growing)
  /\ WorkerAccounting

\* The WaitGroup counts the workers that have not called Done.
WaitCount ==
  /\ IsFiniteSet(Counted)
  /\ wg = Cardinality(Counted)

CoreStarted == \A w \in Core : worker[w] # "none"

Winning == {"close", "wait", "nil", "timeout"}

\* One call of Close wins the CAS on stopped, closes the queue and starts the
\* waiting goroutine; it returns nil only after that goroutine is done.
Closing ==
  /\ \A k, l \in Closers : closer[k] \in Winning /\ closer[l] \in Winning => k = l
  /\ \A k \in Closers : closer[k] \in Winning => stopped
  /\ \A k \in Closers : closer[k] = "close" => waiter = "none"
  /\ \A k \in Closers : closer[k] = "nil" => waiter = "done"
  /\ waiter # "none" <=> closed
  /\ closed => stopped

\* Wait returns only once every core worker has left, so the queue is drained;
\* a temporary worker started later finds nothing to do.
Drained ==
  waiter \in {"woken", "done", "panic"} =>
    queue = <<>> /\ \A w \in Workers : worker[w] # "busy"

\* The sum of SubmittedAccounted is one over finite sets.
Statistics ==
  /\ IsFiniteSet(Refused) /\ IsFiniteSet(Retried) /\ IsFiniteSet(Busy)
  /\ SubmittedAccounted

IInv ==
  /\ TypeOK
  /\ Jobs
  /\ Unborn
  /\ CasBelow
  /\ Accounting
  /\ WaitCount
  /\ CoreStarted
  /\ CoreResident
  /\ Closing
  /\ Drained
  /\ TaskConservation
  /\ Statistics

-----------------------------------------------------------------------------
(* Counting *)

LEMMA AddOne ==
  ASSUME NEW S, NEW x, IsFiniteSet(S), x \notin S
  PROVE  /\ IsFiniteSet(S \cup {x})
         /\ Cardinality(S \cup {x}) = Cardinality(S) + 1
BY FS_AddElement

LEMMA DropOne ==
  ASSUME NEW S, NEW x, IsFiniteSet(S), x \in S
  PROVE  /\ IsFiniteSet(S \ {x})
         /\ Cardinality(S \ {x}) = Cardinality(S) - 1
         /\ Cardinality(S) \in Nat \ {0}
BY FS_RemoveElement, FS_EmptySet, FS_CardinalityType

-----------------------------------------------------------------------------
(* The queue *)

LEMMA AppendQueue ==
  ASSUME NEW q \in Seq(Calls), NEW c \in Calls
  PROVE  /\ Append(q, c) \in Seq(Calls)
         /\ Len(q) \in Nat
         /\ DOMAIN q = 1 .. Len(q)
         /\ DOMAIN Append(q, c) = 1 .. Len(q) + 1
         /\ \A i \in 1 .. Len(q) : Append(q, c)[i] = q[i]
         /\ Append(q, c)[Len(q) + 1] = c
OBVIOUS

LEMMA TailQueue ==
  ASSUME NEW q \in Seq(Calls), q # <<>>
  PROVE  /\ Tail(q) \in Seq(Calls)
         /\ Len(q) \in Nat \ {0}
         /\ DOMAIN q = 1 .. Len(q)
         /\ DOMAIN Tail(q) = 1 .. Len(q) - 1
         /\ Head(q) = q[1]
         /\ Head(q) \in Calls
         /\ \A i \in 1 .. Len(q) - 1 : Tail(q)[i] = q[i + 1]
OBVIOUS

-----------------------------------------------------------------------------
(* Type correctness *)

LEMMA PCType ==
  ASSUME TypeOK, NEW c \in Calls, Begin(c) \/ InCall(c)
  PROVE  pc' \in [Calls -> CallPC]
<1> USE DEF TypeOK, Goto, CallPC, InSubmit, Returned
<1>1. CASE Begin(c)
  BY <1>1 DEF Begin
<1>2. CASE Send1(c) \/ Send2(c)
  BY <1>2 DEF Send1, Send2, SendEnds, SendFalls
<1>3. CASE Send3(c)
  BY <1>3 DEF Send3, Retry, SendEnds, SendFalls
<1>4. CASE Load(c) \/ Cas(c) \/ Grow(c)
  BY <1>4 DEF Load, Cas, CasEnds, Grow
<1> QED
  BY <1>1, <1>2, <1>3, <1>4 DEF InCall

LEMMA TempWorker ==
  ASSUME TypeOK, NEW c \in Calls
  PROVE  <<c, attempt[c]>> \in Temp /\ <<c, attempt[c]>> \in Workers
BY DEF TypeOK, Temp, Workers

LEMMA CallType ==
  ASSUME TypeOK, NEW c \in Calls, Begin(c) \/ InCall(c)
  PROVE  TypeOK'
<1> DEFINE frame == <<closeVars, totalCompleted, totalPanic, job, outcome>>
<1>1. CASE Begin(c)
  <2>1. UNCHANGED <<frame, queue, counters, attempt, current, worker>>
    BY <1>1 DEF Begin, workerVars
  <2>2. totalSubmitted' \in Nat
    BY <1>1 DEF TypeOK, Begin
  <2> QED
    BY <1>1, <2>1, <2>2, PCType DEF TypeOK, closeVars, counters
<1>2. CASE Send1(c) \/ Send2(c) \/ Send3(c)
  <2>1. UNCHANGED <<frame, counters, totalSubmitted, current, worker>>
    BY <1>2 DEF Send1, Send2, Send3, SendFrame, stats, workerVars
  <2>2. queue' \in Seq(Calls)
    BY <1>2, AppendQueue DEF TypeOK, Send1, Send2, Send3, Retry, SendEnds, SendFalls
  <2>3. attempt' \in [Calls -> 0 .. RetryTimes]
    BY <1>2, PoolAssumption DEF TypeOK, Send1, Send2, Send3, Retry, PoolAssumption
  <2> QED
    BY <1>2, <2>1, <2>2, <2>3, PCType DEF TypeOK, InCall, closeVars, counters
<1>3. CASE Load(c) \/ Cas(c)
  <2>1. UNCHANGED <<frame, queue, wg, totalSubmitted, attempt, worker>>
    BY <1>3 DEF Load, Cas, CasEnds, stats, counters, workerVars
  <2>2. workerNum' \in Nat /\ current' \in [Calls -> Nat]
    BY <1>3 DEF TypeOK, Load, Cas, CasEnds, counters
  <2>3. pc' \in [Calls -> CallPC]
    BY <1>3, PCType DEF InCall
  <2> QED
    BY <2>1, <2>2, <2>3 DEF TypeOK, closeVars
<1>4. CASE Grow(c)
  <2>1. UNCHANGED <<frame, queue, workerNum, totalSubmitted, attempt, current>>
    BY <1>4 DEF Grow, stats
  <2>2. wg' \in Nat /\ worker' \in [Workers -> WorkerState]
    BY <1>4, TempWorker DEF TypeOK, Grow, WorkerState
  <2> QED
    BY <1>4, <2>1, <2>2, PCType DEF TypeOK, InCall, closeVars
<1> QED
  BY <1>1, <1>2, <1>3, <1>4 DEF InCall

LEMMA WorkerType ==
  ASSUME TypeOK, Accounting, WaitCount, NEW w \in Workers, WorkerStep(w)
  PROVE  TypeOK'
<1> DEFINE frame == <<closed, stopped, closer, totalSubmitted, callVars>>
<1>1. CASE Receive(w)
  <2>1. UNCHANGED <<frame, waiter, counters, totalCompleted, totalPanic, outcome>>
    BY <1>1 DEF Receive, closeVars, stats
  <2>2. queue' \in Seq(Calls) /\ job' \in [Workers -> Calls \cup {None}]
    BY <1>1, TailQueue DEF TypeOK, Receive
  <2>3. worker' \in [Workers -> WorkerState]
    BY <1>1 DEF TypeOK, Receive, WorkerState
  <2> QED
    BY <2>1, <2>2, <2>3 DEF TypeOK, counters, callVars
<1>2. ASSUME NEW o \in Outcome \ {"none"}, Finish(w, o)
      PROVE  TypeOK'
  <2>1. UNCHANGED <<frame, waiter, queue, counters>>
    BY <1>2 DEF Finish, TaskEnds, closeVars, counters
  <2>2. totalCompleted' \in Nat /\ totalPanic' \in Nat
    BY <1>2 DEF TypeOK, Finish, TaskEnds
  <2>3. worker' \in [Workers -> WorkerState]
    BY <1>2 DEF TypeOK, Finish, TaskEnds, WorkerState
  <2>4. job' \in [Workers -> Calls \cup {None}] /\ outcome' \in [Calls -> Outcome]
    BY <1>2 DEF TypeOK, Finish, TaskEnds
  <2> QED
    BY <2>1, <2>2, <2>3, <2>4 DEF TypeOK, counters, callVars
<1>3. CASE Leave(w)
  <2>1. UNCHANGED <<frame, waiter, queue, wg, totalCompleted, totalPanic, job, outcome>>
    BY <1>3 DEF Leave, closeVars, stats
  <2>2. w \in Live
    BY <1>3 DEF Leave, Live
  <2>3. workerNum' \in Nat
    <3>1. Cardinality(Live) \in Nat \ {0} /\ Cardinality(Growing) \in Nat
      BY <2>2, DropOne, FS_CardinalityType DEF Accounting
    <3> QED
      BY <1>3, <3>1 DEF Accounting, WorkerAccounting, Leave
  <2>4. worker' \in [Workers -> WorkerState]
    BY <1>3 DEF TypeOK, Leave, WorkerState
  <2> QED
    BY <2>1, <2>3, <2>4 DEF TypeOK, callVars
<1>4. CASE WorkerDone(w)
  <2>1. UNCHANGED <<frame, queue, workerNum, totalCompleted, totalPanic, job, outcome>>
    BY <1>4 DEF WorkerDone, stats
  <2>2. w \in Counted
    BY <1>4 DEF WorkerDone, Counted
  <2>3. wg' \in Nat
    <3>1. Cardinality(Counted) \in Nat \ {0}
      BY <2>2, DropOne DEF WaitCount
    <3> QED
      BY <1>4, <3>1 DEF WaitCount, WorkerDone
  <2>4. worker' \in [Workers -> WorkerState] /\ waiter' \in WaiterState
    BY <1>4 DEF TypeOK, WorkerDone, WorkerState, WaiterState
  <2> QED
    BY <2>1, <2>3, <2>4 DEF TypeOK, callVars
<1> QED
  BY <1>1, <1>2, <1>3, <1>4 DEF WorkerStep, WorkerExit, IdleTimeout

LEMMA CloseType ==
  ASSUME TypeOK,
         WaitStep \/ \E k \in Closers : CloseBegin(k) \/ CloseStep(k)
  PROVE  TypeOK'
<1>1. CloseFrame
  BY DEF CloseBegin, CloseStep, CloseChannel, CloseReturn, CloseTimeout, Answer,
         WaitStep, WaitStart, WaitWake
<1>2. closed' \in BOOLEAN /\ stopped' \in BOOLEAN /\ waiter' \in WaiterState
  BY DEF TypeOK, CloseBegin, CloseStep, CloseChannel, CloseReturn, CloseTimeout,
         Answer, WaitStep, WaitStart, WaitWake, WaiterState
<1>3. closer' \in [Closers -> CloserPC]
  BY DEF TypeOK, CloseBegin, CloseStep, CloseChannel, CloseReturn, CloseTimeout,
         Answer, WaitStep, WaitStart, WaitWake, CloserPC
<1> QED
  BY <1>1, <1>2, <1>3 DEF TypeOK, CloseFrame, counters, stats, callVars, workerVars

LEMMA TypeStep ==
  ASSUME TypeOK, Accounting, WaitCount, [Next]_vars
  PROVE  TypeOK'
<1>1. CASE UNCHANGED vars
  BY <1>1 DEF TypeOK, vars, callVars, workerVars, closeVars, counters, stats
<1> QED
  BY <1>1, CallType, WorkerType, CloseType DEF Next, Running, Stop

-----------------------------------------------------------------------------
(* What the steps leave alone *)

\* A step of Submit other than Grow.
Quiet(c) == Begin(c) \/ Send1(c) \/ Load(c) \/ Cas(c) \/ Send2(c) \/ Send3(c)

LEMMA QuietFrame ==
  ASSUME NEW c \in Calls, Quiet(c)
  PROVE  UNCHANGED <<workerVars, wg>>
BY DEF Quiet, Begin, Send1, Load, Cas, CasEnds, Send2, Send3, SendFrame, counters

LEMMA GrowFrame ==
  ASSUME NEW c \in Calls, Grow(c)
  PROVE  UNCHANGED <<queue, workerNum, attempt, current, job, outcome>>
BY DEF Grow

LEMMA CallFrame ==
  ASSUME NEW c \in Calls, Begin(c) \/ InCall(c)
  PROVE  UNCHANGED closeVars
BY DEF Begin, InCall, Send1, Load, Cas, CasEnds, Grow, Send2, Send3, SendFrame

LEMMA WorkerFrame ==
  ASSUME NEW w \in Workers, WorkerStep(w)
  PROVE  UNCHANGED <<callVars, closed, stopped, closer>>
BY DEF WorkerStep, Receive, Finish, TaskEnds, WorkerExit, IdleTimeout, Leave,
       WorkerDone, closeVars

LEMMA CloseStepFrame ==
  ASSUME WaitStep \/ \E k \in Closers : CloseBegin(k) \/ CloseStep(k)
  PROVE  CloseFrame
BY DEF CloseBegin, CloseStep, CloseChannel, CloseReturn, CloseTimeout, Answer,
       WaitStep, WaitStart, WaitWake

\* The cases of a step.
LEMMA Steps ==
  ASSUME [Next]_vars
  PROVE  \/ \E c \in Calls : Quiet(c) \/ Grow(c)
         \/ \E w \in Workers :
              \/ Receive(w)
              \/ \E o \in Outcome \ {"none"} : Finish(w, o)
              \/ Leave(w) /\ (w \in Temp \/ (closed /\ queue = <<>>))
              \/ WorkerDone(w)
         \/ WaitStep \/ \E k \in Closers : CloseBegin(k) \/ CloseStep(k)
         \/ UNCHANGED vars
<1>1. ASSUME NEW c \in Calls, Begin(c) \/ InCall(c)
      PROVE  Quiet(c) \/ Grow(c)
  BY <1>1 DEF Quiet, InCall
<1>2. ASSUME NEW w \in Workers, WorkerStep(w)
      PROVE  \/ Receive(w)
             \/ \E o \in Outcome \ {"none"} : Finish(w, o)
             \/ Leave(w) /\ (w \in Temp \/ (closed /\ queue = <<>>))
             \/ WorkerDone(w)
  BY <1>2 DEF WorkerStep, WorkerExit, IdleTimeout
<1> QED
  BY <1>1, <1>2 DEF Next, Running, Stop

-----------------------------------------------------------------------------
(* Workers and their tasks *)

LEMMA JobsStep ==
  ASSUME TypeOK, Jobs, Unborn, [Next]_vars
  PROVE  Jobs'
<1>1. CASE UNCHANGED <<worker, job>>
  BY <1>1 DEF Jobs
<1>2. ASSUME NEW c \in Calls, Grow(c)
      PROVE  Jobs'
  <2>1. worker[<<c, attempt[c]>>] = "none"
    BY <1>2, PoolAssumption DEF TypeOK, Unborn, Grow, PoolAssumption
  <2> QED
    BY <1>2, <2>1, TempWorker DEF TypeOK, Jobs, Grow
<1>3. ASSUME NEW w \in Workers, Receive(w)
      PROVE  Jobs'
  <2>1. queue[1] \in Calls /\ Head(queue) = queue[1]
    BY <1>3, TailQueue DEF TypeOK, Receive
  <2> QED
    BY <1>3, <2>1, PoolAssumption DEF TypeOK, Jobs, Receive, PoolAssumption
<1>4. ASSUME NEW w \in Workers, NEW o \in Outcome \ {"none"}, Finish(w, o)
      PROVE  Jobs'
  BY <1>4 DEF TypeOK, Jobs, Finish, TaskEnds
<1>5. ASSUME NEW w \in Workers, Leave(w)
      PROVE  Jobs'
  BY <1>5 DEF TypeOK, Jobs, Leave
<1>6. ASSUME NEW w \in Workers, WorkerDone(w)
      PROVE  Jobs'
  BY <1>6 DEF TypeOK, Jobs, WorkerDone
<1>7. ASSUME NEW c \in Calls, Quiet(c)
      PROVE  Jobs'
  BY <1>1, <1>7, QuietFrame DEF workerVars
<1>8. ASSUME WaitStep \/ \E k \in Closers : CloseBegin(k) \/ CloseStep(k)
      PROVE  Jobs'
  BY <1>1, <1>8, CloseStepFrame DEF CloseFrame, workerVars
<1> QED
  BY <1>1, <1>2, <1>3, <1>4, <1>5, <1>6, <1>7, <1>8, Steps DEF vars, workerVars

LEMMA UnbornStep ==
  ASSUME TypeOK, Unborn, [Next]_vars
  PROVE  Unborn'
<1> USE PoolAssumption DEF PoolAssumption
<1>1. CASE UNCHANGED <<pc, attempt, worker>>
  BY <1>1 DEF Unborn
<1>2. ASSUME NEW c \in Calls, Begin(c) \/ Send1(c) \/ Load(c) \/ Cas(c) \/ Send2(c)
      PROVE  Unborn'
  <2>1. UNCHANGED <<attempt, worker>>
    BY <1>2, QuietFrame DEF Quiet, workerVars, Begin, Send1, Load, Cas, CasEnds, Send2
  <2>2. \A d \in Calls \ {c} : pc'[d] = pc[d]
    BY <1>2 DEF TypeOK, Goto, Begin, Send1, Load, Cas, CasEnds, Send2, SendEnds, SendFalls
  <2>3. \/ pc[c] \in {"new", "sleep", "send1", "load", "cas", "grow"}
        \/ pc'[c] \notin {"new", "sleep", "send1", "load", "cas", "grow"}
    BY <1>2 DEF TypeOK, Goto, Begin, Send1, Load, Cas, CasEnds, Send2, SendEnds, SendFalls
  <2> QED
    BY <2>1, <2>2, <2>3 DEF Unborn
<1>3. ASSUME NEW c \in Calls, Send3(c)
      PROVE  Unborn'
  <2>1. UNCHANGED worker
    BY <1>3, QuietFrame DEF Quiet, workerVars
  <2>2. \A d \in Calls \ {c} : pc'[d] = pc[d] /\ attempt'[d] = attempt[d]
    BY <1>3 DEF TypeOK, Goto, Send3, Retry, SendEnds, SendFalls
  <2>3. \/ attempt'[c] = attempt[c] /\ pc'[c] \in {"panic", "ok", "full"}
        \/ attempt'[c] = attempt[c] + 1
    BY <1>3 DEF TypeOK, Goto, Send3, Retry, SendEnds, SendFalls
  <2>4. attempt[c] \in Nat
    BY DEF TypeOK
  <2> QED
    BY <2>1, <2>2, <2>3, <2>4 DEF Unborn
<1>4. ASSUME NEW c \in Calls, Grow(c)
      PROVE  Unborn'
  <2>1. UNCHANGED attempt /\ pc'[c] = "send2" /\ \A d \in Calls \ {c} : pc'[d] = pc[d]
    BY <1>4 DEF TypeOK, Grow, Goto
  <2>2. \A v \in Workers : v # <<c, attempt[c]>> => worker'[v] = worker[v]
    BY <1>4 DEF TypeOK, Grow
  <2>3. \A d \in Calls, i \in 0 .. RetryTimes : <<d, i>> \in Workers
    BY DEF Workers, Temp
  <2> QED
    BY <2>1, <2>2, <2>3 DEF TypeOK, Unborn
<1>5. ASSUME NEW w \in Workers, WorkerStep(w)
      PROVE  Unborn'
  <2>1. UNCHANGED <<pc, attempt>>
    BY <1>5, WorkerFrame DEF callVars
  <2>2. \A v \in Workers : worker[v] = "none" => worker'[v] = "none"
    BY <1>5 DEF TypeOK, WorkerStep, Receive, Finish, TaskEnds, WorkerExit, IdleTimeout,
                Leave, WorkerDone
  <2>3. \A d \in Calls, i \in 0 .. RetryTimes : <<d, i>> \in Workers
    BY DEF Workers, Temp
  <2> QED
    BY <2>1, <2>2, <2>3 DEF Unborn
<1>6. ASSUME WaitStep \/ \E k \in Closers : CloseBegin(k) \/ CloseStep(k)
      PROVE  Unborn'
  BY <1>1, <1>6, CloseStepFrame DEF CloseFrame, workerVars, callVars
<1> QED
  BY <1>1, <1>2, <1>3, <1>4, <1>5, <1>6
     DEF Next, Running, Stop, InCall, vars, workerVars, callVars

LEMMA CasBelowStep ==
  ASSUME TypeOK, CasBelow, [Next]_vars
  PROVE  CasBelow'
<1>1. CASE UNCHANGED <<pc, current>>
  BY <1>1 DEF CasBelow
<1>2. ASSUME NEW c \in Calls, Load(c) \/ Cas(c)
      PROVE  CasBelow'
  BY <1>2 DEF TypeOK, CasBelow, Load, Cas, CasEnds, Goto
<1>3. ASSUME NEW c \in Calls, Begin(c) \/ Send1(c) \/ Grow(c) \/ Send2(c) \/ Send3(c)
      PROVE  CasBelow'
  <2>1. UNCHANGED current
    BY <1>3 DEF Begin, Send1, Grow, Send2, Send3, SendFrame
  <2>2. \A d \in Calls : pc'[d] = "cas" => pc[d] = "cas"
    BY <1>3 DEF TypeOK, Goto, Begin, Send1, Grow, Send2, Send3, Retry, SendEnds, SendFalls
  <2> QED
    BY <2>1, <2>2 DEF CasBelow
<1>4. ASSUME NEW w \in Workers, WorkerStep(w)
      PROVE  CasBelow'
  BY <1>1, <1>4, WorkerFrame DEF callVars
<1>5. ASSUME WaitStep \/ \E k \in Closers : CloseBegin(k) \/ CloseStep(k)
      PROVE  CasBelow'
  BY <1>1, <1>5, CloseStepFrame DEF CloseFrame, callVars
<1> QED
  BY <1>1, <1>2, <1>3, <1>4, <1>5 DEF Next, Running, Stop, InCall, vars, callVars

-----------------------------------------------------------------------------
(* workerNum and the WaitGroup *)

LEMMA AccountingStep ==
  ASSUME TypeOK, Unborn, CasBelow, Accounting, [Next]_vars
  PROVE  Accounting'
<1> USE PoolAssumption DEF PoolAssumption
<1>n. Cardinality(Live) \in Nat /\ Cardinality(Growing) \in Nat
  BY FS_CardinalityType DEF Accounting
<1>1. CASE Live' = Live /\ Growing' = Growing /\ workerNum' = workerNum
  BY <1>1 DEF Accounting, WorkerAccounting
<1>2. ASSUME NEW c \in Calls, Begin(c) \/ Send1(c) \/ Load(c) \/ Send2(c) \/ Send3(c)
      PROVE  Accounting'
  <2>1. UNCHANGED <<worker, workerNum>>
    BY <1>2, QuietFrame DEF Quiet, workerVars, counters, Begin, Send1, Load, Send2,
                            Send3, SendFrame
  <2>2. \A d \in Calls : pc'[d] = "grow" <=> pc[d] = "grow"
    BY <1>2 DEF TypeOK, Goto, Begin, Send1, Load, Send2, Send3, Retry, SendEnds, SendFalls
  <2> QED
    BY <1>1, <2>1, <2>2 DEF Live, Growing
<1>3. ASSUME NEW c \in Calls, Cas(c)
      PROVE  Accounting'
  <2>1. Live' = Live
    BY <1>3, QuietFrame DEF Quiet, workerVars, Live
  <2>2. CASE workerNum = current[c] /\ CasEnds(c, "grow", current[c] + 1)
    <3>1. Growing' = Growing \cup {c} /\ c \notin Growing
      BY <2>2 DEF TypeOK, Growing, CasEnds, Goto
    <3>2. current[c] < MaxWorkers /\ workerNum' = workerNum + 1 /\ current[c] \in Nat
      BY <2>2 DEF TypeOK, CasBelow, CasEnds
    <3>3. IsFiniteSet(Growing') /\ Cardinality(Growing') = Cardinality(Growing) + 1
      BY <3>1, AddOne DEF Accounting
    <3> QED
      BY <1>n, <2>1, <2>2, <3>2, <3>3 DEF Accounting, WorkerAccounting
  <2>3. CASE CasEnds(c, "load", workerNum)
    BY <1>1, <2>1, <2>3 DEF TypeOK, Growing, CasEnds, Goto
  <2> QED
    BY <1>3, <2>2, <2>3 DEF Cas
<1>4. ASSUME NEW c \in Calls, Grow(c)
      PROVE  Accounting'
  <2> DEFINE t == <<c, attempt[c]>>
  <2>1. worker[t] = "none"
    BY <1>4 DEF TypeOK, Unborn, Grow
  <2>2. Live' = Live \cup {t} /\ t \notin Live
    BY <1>4, <2>1, TempWorker DEF TypeOK, Live, Grow
  <2>3. Growing' = Growing \ {c} /\ c \in Growing
    BY <1>4 DEF TypeOK, Growing, Grow, Goto
  <2>4. IsFiniteSet(Live') /\ Cardinality(Live') = Cardinality(Live) + 1
    BY <2>2, AddOne DEF Accounting
  <2>5. IsFiniteSet(Growing') /\ Cardinality(Growing') = Cardinality(Growing) - 1
    BY <2>3, DropOne DEF Accounting
  <2>6. workerNum' = workerNum
    BY <1>4 DEF Grow
  <2> QED
    BY <1>n, <2>4, <2>5, <2>6 DEF Accounting, WorkerAccounting
<1>5. ASSUME NEW w \in Workers,
             \/ Receive(w)
             \/ \E o \in Outcome \ {"none"} : Finish(w, o)
             \/ WorkerDone(w)
      PROVE  Accounting'
  <2>1. Growing' = Growing
    BY <1>5, WorkerFrame DEF WorkerStep, callVars, Growing
  <2>2. workerNum' = workerNum
    BY <1>5 DEF Receive, Finish, WorkerDone, counters
  <2>3. Live' = Live
    BY <1>5 DEF TypeOK, Live, Receive, Finish, TaskEnds, WorkerDone
  <2> QED
    BY <1>1, <2>1, <2>2, <2>3
<1>6. ASSUME NEW w \in Workers, Leave(w)
      PROVE  Accounting'
  <2>1. Growing' = Growing /\ workerNum' = workerNum - 1
    BY <1>6 DEF Leave, callVars, Growing
  <2>2. Live' = Live \ {w} /\ w \in Live
    BY <1>6 DEF TypeOK, Live, Leave
  <2>3. /\ IsFiniteSet(Live') /\ Cardinality(Live') = Cardinality(Live) - 1
        /\ Cardinality(Live) \in Nat \ {0}
    BY <2>2, DropOne DEF Accounting
  <2> QED
    BY <1>n, <2>1, <2>3 DEF Accounting, WorkerAccounting
<1>7. ASSUME WaitStep \/ \E k \in Closers : CloseBegin(k) \/ CloseStep(k)
      PROVE  Accounting'
  BY <1>1, <1>7, CloseStepFrame DEF CloseFrame, counters, workerVars, callVars, Live, Growing
<1>8. ASSUME UNCHANGED vars
      PROVE  Accounting'
  BY <1>1, <1>8 DEF vars, counters, workerVars, callVars, Live, Growing
<1> QED
  BY <1>2, <1>3, <1>4, <1>5, <1>6, <1>7, <1>8, Steps DEF Quiet

LEMMA WaitCountStep ==
  ASSUME TypeOK, Unborn, WaitCount, [Next]_vars
  PROVE  WaitCount'
<1>1. CASE Counted' = Counted /\ wg' = wg
  BY <1>1 DEF WaitCount
<1>2. ASSUME NEW c \in Calls, Quiet(c)
      PROVE  WaitCount'
  BY <1>1, <1>2, QuietFrame DEF workerVars, Counted
<1>3. ASSUME NEW c \in Calls, Grow(c)
      PROVE  WaitCount'
  <2> DEFINE t == <<c, attempt[c]>>
  <2>1. worker[t] = "none"
    BY <1>3, PoolAssumption DEF TypeOK, Unborn, Grow, PoolAssumption
  <2>2. Counted' = Counted \cup {t} /\ t \notin Counted
    BY <1>3, <2>1, TempWorker DEF TypeOK, Counted, Grow
  <2>3. IsFiniteSet(Counted') /\ Cardinality(Counted') = Cardinality(Counted) + 1
    BY <2>2, AddOne DEF WaitCount
  <2> QED
    BY <1>3, <2>3 DEF WaitCount, Grow
<1>4. ASSUME NEW w \in Workers,
             Receive(w) \/ Leave(w) \/ \E o \in Outcome \ {"none"} : Finish(w, o)
      PROVE  WaitCount'
  <2>1. wg' = wg
    BY <1>4 DEF Receive, Leave, Finish, TaskEnds, counters
  <2>2. Counted' = Counted
    BY <1>4 DEF TypeOK, Counted, Receive, Leave, Finish, TaskEnds
  <2> QED
    BY <1>1, <2>1, <2>2
<1>5. ASSUME NEW w \in Workers, WorkerDone(w)
      PROVE  WaitCount'
  <2>1. Counted' = Counted \ {w} /\ w \in Counted
    BY <1>5 DEF TypeOK, Counted, WorkerDone
  <2>2. IsFiniteSet(Counted') /\ Cardinality(Counted') = Cardinality(Counted) - 1
    BY <2>1, DropOne DEF WaitCount
  <2> QED
    BY <1>5, <2>2 DEF WaitCount, WorkerDone
<1>6. ASSUME WaitStep \/ \E k \in Closers : CloseBegin(k) \/ CloseStep(k)
      PROVE  WaitCount'
  BY <1>1, <1>6, CloseStepFrame DEF CloseFrame, counters, workerVars, Counted
<1>7. ASSUME UNCHANGED vars
      PROVE  WaitCount'
  BY <1>1, <1>7 DEF vars, counters, workerVars, Counted
<1> QED
  BY <1>2, <1>3, <1>4, <1>5, <1>6, <1>7, Steps

-----------------------------------------------------------------------------
(* Core workers and Close *)

\* Once the queue is closed nothing is put into it.
LEMMA ClosedQueue ==
  ASSUME TypeOK, [Next]_vars, closed
  PROVE  closed' /\ (queue = <<>> => queue' = <<>>)
<1>1. ASSUME NEW c \in Calls, Begin(c) \/ InCall(c)
      PROVE  UNCHANGED <<closed, queue>>
  BY <1>1, CallFrame DEF closeVars, Begin, InCall, Send1, Load, Cas, CasEnds, Grow,
                         Send2, Send3, Retry, SendEnds, SendFalls
<1>2. ASSUME NEW w \in Workers, WorkerStep(w)
      PROVE  closed' /\ (queue = <<>> => queue' = <<>>)
  BY <1>2, WorkerFrame DEF WorkerStep, Receive, Finish, TaskEnds, WorkerExit,
                           IdleTimeout, Leave, WorkerDone
<1>3. ASSUME WaitStep \/ \E k \in Closers : CloseBegin(k) \/ CloseStep(k)
      PROVE  closed' /\ queue' = queue
  BY <1>3 DEF CloseFrame, CloseBegin, CloseStep, CloseChannel, CloseReturn,
              CloseTimeout, Answer, WaitStep, WaitStart, WaitWake
<1> QED
  BY <1>1, <1>2, <1>3 DEF Next, Running, Stop, vars, closeVars

LEMMA CoreStep ==
  ASSUME TypeOK, CoreStarted, CoreResident, [Next]_vars
  PROVE  CoreStarted' /\ CoreResident'
<1>1. ASSUME NEW w \in Core,
             worker'[w] = worker[w]
      PROVE  worker'[w] # "none" /\ (worker'[w] \in {"leaving", "gone"} => closed' /\ queue' = <<>>)
  BY <1>1, ClosedQueue DEF CoreStarted, CoreResident
<1>2. ASSUME NEW c \in Calls, Quiet(c) \/ Grow(c), NEW w \in Core
      PROVE  worker'[w] = worker[w]
  BY <1>2, QuietFrame, TempWorker, WorkersAssumption
     DEF WorkersAssumption, TypeOK, Grow, workerVars, Workers
<1>3. ASSUME NEW v \in Workers,
             \/ Receive(v)
             \/ \E o \in Outcome \ {"none"} : Finish(v, o)
             \/ Leave(v) /\ (v \in Temp \/ (closed /\ queue = <<>>))
             \/ WorkerDone(v)
      PROVE  CoreStarted' /\ CoreResident'
  <2>1. SUFFICES ASSUME NEW w \in Core
                 PROVE  /\ worker'[w] # "none"
                        /\ worker'[w] \in {"leaving", "gone"} => closed' /\ queue' = <<>>
    BY DEF CoreStarted, CoreResident
  <2>2. w \in Workers /\ w \notin Temp
    BY WorkersAssumption DEF WorkersAssumption, Workers
  <2>3. CASE w # v
    BY <1>1, <1>3, <2>2, <2>3 DEF TypeOK, Receive, Finish, TaskEnds, Leave, WorkerDone
  <2>4. CASE w = v
    <3>1. CASE Receive(v) \/ \E o \in Outcome \ {"none"} : Finish(v, o)
      BY <2>2, <2>4, <3>1 DEF TypeOK, Receive, Finish, TaskEnds
    <3>2. CASE Leave(v) /\ closed /\ queue = <<>>
      BY <2>2, <2>4, <3>2, ClosedQueue DEF TypeOK, Leave
    <3>3. CASE WorkerDone(v)
      BY <2>2, <2>4, <3>3, ClosedQueue DEF TypeOK, CoreResident, WorkerDone
    <3> QED
      BY <1>3, <2>2, <2>4, <3>1, <3>2, <3>3
  <2> QED
    BY <2>3, <2>4
<1>4. ASSUME WaitStep \/ (\E k \in Closers : CloseBegin(k) \/ CloseStep(k)) \/ UNCHANGED vars
      PROVE  worker' = worker
  BY <1>4, CloseStepFrame DEF CloseFrame, vars, workerVars
<1> QED
  BY <1>1, <1>2, <1>3, <1>4, Steps DEF CoreStarted, CoreResident

LEMMA ClosingStep ==
  ASSUME TypeOK, Closing, [Next]_vars
  PROVE  Closing'
<1>1. CASE UNCHANGED <<closed, stopped, closer>> /\ (waiter' = waiter \/ (waiter = "waiting" /\ waiter' = "woken"))
  BY <1>1 DEF Closing
<1>2. ASSUME NEW k \in Closers, CloseBegin(k)
      PROVE  Closing'
  BY <1>2 DEF TypeOK, Closing, CloseBegin, Winning
<1>3. ASSUME NEW k \in Closers, CloseChannel(k)
      PROVE  Closing'
  BY <1>3 DEF TypeOK, Closing, CloseChannel, Winning
<1>4. ASSUME NEW k \in Closers, CloseReturn(k) \/ CloseTimeout(k)
      PROVE  Closing'
  <2>1. CASE CloseReturn(k)
    BY <2>1 DEF TypeOK, Closing, CloseReturn, Answer, Winning
  <2>2. CASE CloseTimeout(k)
    BY <2>2 DEF TypeOK, Closing, CloseTimeout, Answer, Winning
  <2> QED
    BY <1>4, <2>1, <2>2
<1>5. ASSUME WaitStep
      PROVE  Closing'
  BY <1>5 DEF TypeOK, Closing, WaitStep, WaitStart, WaitWake, Winning
<1>6. ASSUME NEW c \in Calls, Begin(c) \/ InCall(c)
      PROVE  Closing'
  BY <1>1, <1>6, CallFrame DEF closeVars
<1>7. ASSUME NEW w \in Workers, WorkerStep(w)
      PROVE  Closing'
  <2>1. waiter' = waiter \/ (waiter = "waiting" /\ waiter' = "woken")
    BY <1>7 DEF WorkerStep, Receive, Finish, TaskEnds, WorkerExit, IdleTimeout,
                Leave, WorkerDone, closeVars
  <2> QED
    BY <1>1, <1>7, <2>1, WorkerFrame
<1> QED
  BY <1>1, <1>2, <1>3, <1>4, <1>5, <1>6, <1>7
     DEF Next, Running, Stop, CloseStep, vars, closeVars

LEMMA DrainedStep ==
  ASSUME TypeOK, Closing, Drained, [Next]_vars,
         TypeOK', WaitCount', CoreStarted', CoreResident'
  PROVE  Drained'
<1>1. CASE wg' = 0
  <2>1. Counted' = {}
    BY <1>1, FS_EmptySet DEF WaitCount
  <2>2. PICK w \in Core : TRUE
    BY PoolAssumption DEF PoolAssumption
  <2>3. worker'[w] \in {"leaving", "gone"}
    BY <2>1, <2>2 DEF Counted, CoreStarted, TypeOK, Workers, WorkerState
  <2>4. queue' = <<>>
    BY <2>2, <2>3 DEF CoreResident
  <2> QED
    BY <2>1, <2>4 DEF Drained, Counted
<1>2. CASE waiter' \in {"woken", "done", "panic"} /\ wg' # 0
  <2>1. waiter \in {"woken", "done", "panic"}
    <3>1. ASSUME NEW c \in Calls, Begin(c) \/ InCall(c)
          PROVE  waiter' = waiter
      BY <3>1, CallFrame DEF closeVars
    <3>2. ASSUME NEW w \in Workers, WorkerStep(w)
          PROVE  waiter' = waiter
      <4>1. CASE WorkerDone(w)
        BY <1>2, <4>1 DEF TypeOK, WorkerDone
      <4> QED
        BY <3>2, <4>1 DEF WorkerStep, Receive, Finish, TaskEnds, WorkerExit,
                          IdleTimeout, Leave, closeVars
    <3>3. ASSUME WaitStep \/ \E k \in Closers : CloseBegin(k) \/ CloseStep(k)
          PROVE  waiter' = waiter \/ waiter = "woken"
      BY <1>2, <3>3 DEF WaitStep, WaitStart, WaitWake, CloseBegin, CloseStep,
                        CloseChannel, CloseReturn, CloseTimeout, Answer, CloseFrame, counters
    <3> QED
      BY <1>2, <3>1, <3>2, <3>3 DEF Next, Running, Stop, vars, closeVars
  <2>2. queue = <<>> /\ closed /\ \A w \in Workers : worker[w] # "busy"
    BY <2>1 DEF Drained, Closing
  <2>3. \A w \in Workers : worker'[w] # "busy"
    <3>1. ASSUME NEW c \in Calls, Quiet(c) \/ Grow(c)
          PROVE  \A w \in Workers : worker'[w] # "busy"
      BY <2>2, <3>1, QuietFrame, TempWorker DEF TypeOK, Grow, workerVars
    <3>2. ASSUME NEW v \in Workers,
                 Leave(v) \/ WorkerDone(v) \/ \E o \in Outcome \ {"none"} : Finish(v, o)
          PROVE  \A w \in Workers : worker'[w] # "busy"
      BY <2>2, <3>2 DEF TypeOK, Leave, WorkerDone, Finish, TaskEnds
    <3>3. ASSUME NEW v \in Workers, Receive(v)
          PROVE  FALSE
      BY <2>2, <3>3 DEF Receive
    <3>4. ASSUME WaitStep \/ (\E k \in Closers : CloseBegin(k) \/ CloseStep(k)) \/ UNCHANGED vars
          PROVE  worker' = worker
      BY <3>4, CloseStepFrame DEF CloseFrame, vars, workerVars
    <3> QED
      BY <2>2, <3>1, <3>2, <3>3, <3>4, Steps
  <2> QED
    BY <2>2, <2>3, ClosedQueue DEF Drained
<1> QED
  BY <1>1, <1>2 DEF Drained

-----------------------------------------------------------------------------
(* Tasks *)

LEMMA ConservationStep ==
  ASSUME TypeOK, Jobs, TaskConservation, [Next]_vars
  PROVE  TaskConservation'
<1> USE PoolAssumption DEF PoolAssumption
<1>1. ASSUME UNCHANGED <<queue, job, outcome>>,
             \A d \in Calls : pc'[d] = "ok" <=> pc[d] = "ok"
      PROVE  TaskConservation'
  BY <1>1 DEF TaskConservation, Queued, Held, Ended
<1>2. ASSUME NEW c \in Calls, pc[c] # "ok", queue' = Append(queue, c), Goto(c, "ok"),
             UNCHANGED <<job, outcome>>
      PROVE  TaskConservation'
  <2>1. /\ Len(queue) \in Nat
        /\ DOMAIN queue = 1 .. Len(queue)
        /\ DOMAIN queue' = 1 .. Len(queue) + 1
        /\ \A i \in 1 .. Len(queue) : queue'[i] = queue[i]
        /\ queue'[Len(queue) + 1] = c
    BY <1>2, AppendQueue DEF TypeOK
  <2>2. ~Queued(c) /\ ~Held(c) /\ ~Ended(c)
    BY <1>2 DEF TaskConservation
  <2>3. \A d \in Calls : (Held(d)' <=> Held(d)) /\ (Ended(d)' <=> Ended(d))
    BY <1>2 DEF Held, Ended
  <2>4. \A d \in Calls : Queued(d)' <=> Queued(d) \/ d = c
    BY <2>1 DEF Queued
  <2>5. \A d \in Calls : pc'[d] = "ok" <=> pc[d] = "ok" \/ d = c
    BY <1>2 DEF TypeOK, Goto
  <2>6. \A i, j \in DOMAIN queue' : queue'[i] = queue'[j] => i = j
    BY <2>1, <2>2 DEF TaskConservation, Queued
  <2> QED
    BY <1>2, <2>2, <2>3, <2>4, <2>5, <2>6 DEF TaskConservation
<1>3. ASSUME NEW w \in Workers, Receive(w)
      PROVE  TaskConservation'
  <2> DEFINE h == Head(queue)
  <2>1. /\ Len(queue) \in Nat \ {0}
        /\ DOMAIN queue = 1 .. Len(queue)
        /\ DOMAIN queue' = 1 .. Len(queue) - 1
        /\ h = queue[1] /\ h \in Calls
        /\ \A i \in 1 .. Len(queue) - 1 : queue'[i] = queue[i + 1]
    BY <1>3, TailQueue DEF TypeOK, Receive
  <2>2. Queued(h) /\ ~Held(h) /\ ~Ended(h)
    BY <2>1 DEF TaskConservation, Queued
  <2>3. job[w] = None /\ job' = [job EXCEPT ![w] = h] /\ UNCHANGED <<pc, outcome>>
    BY <1>3 DEF TypeOK, Jobs, Receive, callVars
  <2>4. \A d \in Calls : Queued(d)' <=> Queued(d) /\ d # h
    <3>1. ASSUME NEW d \in Calls, NEW i \in DOMAIN queue', queue'[i] = d
          PROVE  Queued(d) /\ d # h
      <4>1. i + 1 \in DOMAIN queue /\ 1 \in DOMAIN queue /\ queue[i + 1] = d /\ i + 1 # 1
        BY <2>1, <3>1
      <4> QED
        BY <2>1, <4>1 DEF TaskConservation, Queued
    <3>2. ASSUME NEW d \in Calls, NEW i \in DOMAIN queue, queue[i] = d, d # h
          PROVE  Queued(d)'
      <4>1. i - 1 \in DOMAIN queue' /\ queue'[i - 1] = d
        BY <2>1, <3>2
      <4> QED
        BY <4>1 DEF Queued
    <3> QED
      BY <3>1, <3>2 DEF Queued
  <2>5. \A d \in Calls : Held(d)' <=> Held(d) \/ d = h
    BY <2>1, <2>3 DEF TypeOK, Held
  <2>6. \A d \in Calls : Ended(d)' <=> Ended(d)
    BY <2>3 DEF Ended
  <2>7. \A i, j \in DOMAIN queue' : queue'[i] = queue'[j] => i = j
    <3>1. SUFFICES ASSUME NEW i \in DOMAIN queue', NEW j \in DOMAIN queue', queue'[i] = queue'[j]
                   PROVE  i = j
      OBVIOUS
    <3>2. /\ i \in Nat /\ i + 1 \in DOMAIN queue /\ queue'[i] = queue[i + 1]
          /\ j \in Nat /\ j + 1 \in DOMAIN queue /\ queue'[j] = queue[j + 1]
      BY <2>1, <3>1
    <3>3. i + 1 = j + 1
      <4> HIDE DEF h
      <4> QED
        BY <3>1, <3>2 DEF TaskConservation
    <3> QED
      BY <3>2, <3>3
  <2>8. \A u, v \in Workers : job'[u] = job'[v] /\ job'[u] # None => u = v
    BY <2>1, <2>2, <2>3 DEF TypeOK, TaskConservation, Held
  <2>9. \A d \in Calls : pc'[d] = "ok" <=> Queued(d)' \/ Held(d)' \/ Ended(d)'
    BY <2>2, <2>3, <2>4, <2>5, <2>6 DEF TaskConservation
  <2> QED
    BY <2>2, <2>4, <2>5, <2>6, <2>7, <2>8, <2>9 DEF TaskConservation
<1>4. ASSUME NEW w \in Workers, NEW o \in Outcome \ {"none"}, Finish(w, o)
      PROVE  TaskConservation'
  <2> DEFINE h == job[w]
  <2>1. h \in Calls /\ Held(h)
    BY <1>4 DEF TypeOK, Jobs, Finish, TaskEnds, Held
  <2>2. /\ job' = [job EXCEPT ![w] = None]
        /\ outcome' = [outcome EXCEPT ![h] = o]
        /\ UNCHANGED <<queue, pc>>
    BY <1>4 DEF Finish, TaskEnds, callVars
  <2>3. \A d \in Calls : Queued(d)' <=> Queued(d)
    BY <2>2 DEF Queued
  <2>4. \A d \in Calls : Held(d)' <=> Held(d) /\ d # h
    BY <2>1, <2>2 DEF TypeOK, TaskConservation, Held
  <2>5. \A d \in Calls : Ended(d)' <=> Ended(d) \/ d = h
    BY <2>1, <2>2 DEF TypeOK, Ended
  <2>6. \A u, v \in Workers : job'[u] = job'[v] /\ job'[u] # None => u = v
    BY <2>2 DEF TypeOK, TaskConservation
  <2>7. \A d \in Calls : pc'[d] = "ok" <=> Queued(d)' \/ Held(d)' \/ Ended(d)'
    BY <2>1, <2>2, <2>3, <2>4, <2>5 DEF TaskConservation
  <2> QED
    BY <2>1, <2>2, <2>3, <2>4, <2>5, <2>6, <2>7 DEF TaskConservation
<1>5. ASSUME NEW c \in Calls, Begin(c) \/ Load(c) \/ Cas(c) \/ Grow(c)
      PROVE  TaskConservation'
  <2>1. UNCHANGED <<queue, job, outcome>>
    BY <1>5 DEF Begin, Load, Cas, CasEnds, Grow, workerVars
  <2>2. \A d \in Calls : pc'[d] = "ok" <=> pc[d] = "ok"
    BY <1>5 DEF TypeOK, Begin, Load, Cas, CasEnds, Grow, Goto
  <2> QED
    BY <1>1, <2>1, <2>2
<1>6. ASSUME NEW c \in Calls, Send1(c) \/ Send2(c) \/ Send3(c)
      PROVE  TaskConservation'
  <2>1. pc[c] # "ok" /\ UNCHANGED <<job, outcome>>
    BY <1>6 DEF Send1, Send2, Send3, SendFrame, workerVars
  <2>2. CASE queue' = queue
    <3>1. \A d \in Calls : pc'[d] = "ok" <=> pc[d] = "ok"
      BY <1>6, <2>1, <2>2 DEF TypeOK, Send1, Send2, Send3, Retry, SendEnds, SendFalls, Goto
    <3> QED
      BY <1>1, <2>1, <2>2, <3>1
  <2>3. CASE queue' = Append(queue, c) /\ Goto(c, "ok")
    BY <1>2, <2>1, <2>3
  <2> QED
    BY <1>6, <2>2, <2>3 DEF Send1, Send2, Send3, Retry, SendEnds, SendFalls
<1>7. ASSUME NEW w \in Workers, Leave(w) \/ WorkerDone(w)
      PROVE  TaskConservation'
  BY <1>1, <1>7 DEF Leave, WorkerDone, callVars
<1>8. ASSUME WaitStep \/ \E k \in Closers : CloseBegin(k) \/ CloseStep(k)
      PROVE  TaskConservation'
  BY <1>1, <1>8, CloseStepFrame DEF CloseFrame, workerVars, callVars
<1>9. ASSUME UNCHANGED vars
      PROVE  TaskConservation'
  BY <1>1, <1>9 DEF vars, workerVars, callVars
<1> QED
  BY <1>3, <1>4, <1>5, <1>6, <1>7, <1>8, <1>9, Steps DEF Quiet

-----------------------------------------------------------------------------
(* The statistics *)

LEMMA StatisticsStep ==
  ASSUME TypeOK, Unborn, Statistics, [Next]_vars
  PROVE  Statistics'
<1> USE PoolAssumption DEF PoolAssumption
<1>n. /\ {Cardinality(Refused), Cardinality(Retried), Cardinality(Busy)} \subseteq Nat
      /\ {totalSubmitted, totalCompleted, Len(queue)} \subseteq Nat
  BY FS_CardinalityType DEF Statistics, TypeOK
<1>1. CASE UNCHANGED <<Refused, Retried, Busy, totalSubmitted, totalCompleted, queue>>
  BY <1>1 DEF Statistics, SubmittedAccounted
<1>2. ASSUME NEW c \in Calls, Begin(c)
      PROVE  Statistics'
  <2>1. UNCHANGED <<Retried, Busy, totalCompleted, queue>> /\ c \notin Refused
    BY <1>2 DEF Begin, workerVars, Retried, Busy, Refused, InSubmit
  <2>2. CASE pc'[c] = "send1" /\ totalSubmitted' = totalSubmitted + 1
    <3>1. Refused' = Refused \cup {c}
      BY <1>2, <2>2 DEF TypeOK, Begin, Goto, Refused, InSubmit
    <3>2. IsFiniteSet(Refused') /\ Cardinality(Refused') = Cardinality(Refused) + 1
      BY <2>1, <3>1, AddOne DEF Statistics
    <3> QED
      BY <1>n, <2>1, <2>2, <3>2 DEF Statistics, SubmittedAccounted
  <2>3. CASE pc'[c] \in {"nil", "stopped"} /\ totalSubmitted' = totalSubmitted
    <3>1. Refused' = Refused
      BY <1>2, <2>1, <2>3 DEF TypeOK, Begin, Goto, Refused, InSubmit
    <3> QED
      BY <1>1, <2>1, <2>3, <3>1
  <2> QED
    BY <1>2, <2>2, <2>3 DEF TypeOK, Begin, Goto
<1>3. ASSUME NEW c \in Calls, Load(c) \/ Cas(c)
      PROVE  Statistics'
  <2>1. UNCHANGED <<Retried, Busy, totalSubmitted, totalCompleted, queue>>
    BY <1>3 DEF Load, Cas, CasEnds, workerVars, stats, Retried, Busy
  <2>2. Refused' = Refused
    BY <1>3 DEF TypeOK, Load, Cas, CasEnds, Goto, Refused, InSubmit
  <2> QED
    BY <1>1, <2>1, <2>2
<1>4. ASSUME NEW c \in Calls, Grow(c)
      PROVE  Statistics'
  <2>1. UNCHANGED <<Retried, totalSubmitted, totalCompleted, queue>>
    BY <1>4 DEF Grow, stats, Retried
  <2>2. Refused' = Refused
    BY <1>4 DEF TypeOK, Grow, Goto, Refused, InSubmit
  <2>3. Busy' = Busy
    <3>1. worker[<<c, attempt[c]>>] = "none"
      BY <1>4 DEF TypeOK, Unborn, Grow
    <3> QED
      BY <1>4, <3>1, TempWorker DEF TypeOK, Busy, Grow
  <2> QED
    BY <1>1, <2>1, <2>2, <2>3
<1>5. ASSUME NEW c \in Calls, Send1(c) \/ Send2(c) \/ Send3(c)
      PROVE  Statistics'
  <2>1. UNCHANGED <<Busy, totalSubmitted, totalCompleted>> /\ c \in Refused
    BY <1>5 DEF Send1, Send2, Send3, SendFrame, workerVars, stats, Busy, Refused, InSubmit
  <2>2. CASE SendEnds(c) /\ ~closed /\ UNCHANGED attempt
    <3>1. Refused' = Refused \ {c} /\ Retried' = Retried
      BY <1>5, <2>2 DEF TypeOK, SendEnds, Goto, Refused, InSubmit, Retried
    <3>2. IsFiniteSet(Refused') /\ Cardinality(Refused') = Cardinality(Refused) - 1
      BY <2>1, <3>1, DropOne DEF Statistics
    <3>3. Len(queue') = Len(queue) + 1
      BY <2>2 DEF TypeOK, SendEnds
    <3> QED
      BY <1>n, <2>1, <3>1, <3>2, <3>3 DEF Statistics, SubmittedAccounted
  <2>3. CASE Retry(c)
    <3>1. Refused' = Refused \ {c} /\ UNCHANGED queue
      BY <2>3 DEF TypeOK, Retry, SendFalls, Goto, Refused, InSubmit
    <3>2. IsFiniteSet(Refused') /\ Cardinality(Refused') = Cardinality(Refused) - 1
      BY <2>1, <3>1, DropOne DEF Statistics
    <3>3. Retried' = Retried \cup {<<c, attempt[c]>>} /\ <<c, attempt[c]>> \notin Retried
      BY <2>3 DEF TypeOK, Retry, Retried
    <3>4. IsFiniteSet(Retried') /\ Cardinality(Retried') = Cardinality(Retried) + 1
      BY <3>3, AddOne DEF Statistics
    <3> QED
      BY <1>n, <2>1, <3>1, <3>2, <3>4 DEF Statistics, SubmittedAccounted
  <2>4. CASE UNCHANGED <<queue, attempt>> /\ pc'[c] \in {"panic", "load", "send3", "full"}
    <3>1. Refused' = Refused /\ Retried' = Retried
      BY <1>5, <2>1, <2>4 DEF TypeOK, Send1, Send2, Send3, Retry, SendEnds, SendFalls, Goto,
                              Refused, InSubmit, Retried
    <3> QED
      BY <1>1, <2>1, <2>4, <3>1
  <2> QED
    BY <1>5, <2>2, <2>3, <2>4 DEF TypeOK, Send1, Send2, Send3, SendEnds, SendFalls, Goto
<1>6. ASSUME NEW w \in Workers, Receive(w)
      PROVE  Statistics'
  <2>1. UNCHANGED <<Refused, Retried, totalSubmitted, totalCompleted>>
    BY <1>6 DEF Receive, callVars, stats, Refused, Retried
  <2>2. Busy' = Busy \cup {w} /\ w \notin Busy
    BY <1>6 DEF TypeOK, Receive, Busy
  <2>3. IsFiniteSet(Busy') /\ Cardinality(Busy') = Cardinality(Busy) + 1
    BY <2>2, AddOne DEF Statistics
  <2>4. Len(queue') = Len(queue) - 1
    BY <1>6 DEF TypeOK, Receive
  <2> QED
    BY <1>n, <2>1, <2>3, <2>4 DEF Statistics, SubmittedAccounted
<1>7. ASSUME NEW w \in Workers, NEW o \in Outcome \ {"none"}, Finish(w, o)
      PROVE  Statistics'
  <2>1. /\ UNCHANGED <<Refused, Retried, totalSubmitted, queue>>
        /\ totalCompleted' = totalCompleted + 1
    BY <1>7 DEF Finish, TaskEnds, callVars, Refused, Retried
  <2>2. Busy' = Busy \ {w} /\ w \in Busy
    BY <1>7 DEF TypeOK, Finish, TaskEnds, Busy
  <2>3. IsFiniteSet(Busy') /\ Cardinality(Busy') = Cardinality(Busy) - 1
    BY <2>2, DropOne DEF Statistics
  <2> QED
    BY <1>n, <2>1, <2>3 DEF Statistics, SubmittedAccounted
<1>8. ASSUME NEW w \in Workers, Leave(w) \/ WorkerDone(w)
      PROVE  Statistics'
  <2>1. UNCHANGED <<Refused, Retried, totalSubmitted, totalCompleted, queue>>
    BY <1>8 DEF Leave, WorkerDone, callVars, stats, Refused, Retried
  <2>2. Busy' = Busy
    BY <1>8 DEF TypeOK, Leave, WorkerDone, Busy
  <2> QED
    BY <1>1, <2>1, <2>2
<1>9. ASSUME WaitStep \/ \E k \in Closers : CloseBegin(k) \/ CloseStep(k)
      PROVE  Statistics'
  BY <1>1, <1>9, CloseStepFrame DEF CloseFrame, stats, workerVars, callVars, Busy, Refused, Retried
<1>10. ASSUME UNCHANGED vars
       PROVE  Statistics'
  BY <1>1, <1>10 DEF vars, stats, workerVars, callVars, Busy, Refused, Retried
<1> QED
  BY <1>2, <1>3, <1>4, <1>5, <1>6, <1>7, <1>8, <1>9, <1>10, Steps DEF Quiet

-----------------------------------------------------------------------------
(* The theorems *)

LEMMA InitIInv == Init => IInv
<1> SUFFICES ASSUME Init
             PROVE  IInv
  OBVIOUS
<1>1. Cardinality(Core) \in Nat
  BY PoolAssumption, FS_CardinalityType DEF PoolAssumption
<1>2. TypeOK
  <2>1. queue \in Seq(Calls) /\ waiter \in WaiterState
    BY DEF Init, WaiterState
  <2>2. pc \in [Calls -> CallPC] /\ outcome \in [Calls -> Outcome]
    BY DEF Init, CallPC, Outcome
  <2>3. attempt \in [Calls -> 0 .. RetryTimes] /\ current \in [Calls -> Nat]
    BY PoolAssumption DEF PoolAssumption, Init
  <2>4. worker \in [Workers -> WorkerState] /\ job \in [Workers -> Calls \cup {None}]
    BY DEF Init, WorkerState
  <2>5. closer \in [Closers -> CloserPC]
    BY DEF Init, CloserPC
  <2> QED
    BY <1>1, <2>1, <2>2, <2>3, <2>4, <2>5 DEF Init, TypeOK
<1>3. Live = Core /\ Counted = Core /\ Growing = {}
  BY DEF Init, Live, Counted, Growing, Workers
<1>4. Accounting /\ WaitCount
  BY <1>1, <1>3, PoolAssumption, FS_EmptySet
     DEF PoolAssumption, Init, Accounting, WorkerAccounting, WaitCount
<1>5. Unborn
  BY WorkersAssumption, PoolAssumption
     DEF WorkersAssumption, PoolAssumption, Init, Unborn, Workers, Temp
<1>6. Jobs /\ CasBelow /\ CoreStarted /\ CoreResident /\ Closing /\ Drained
  BY DEF Init, Jobs, CasBelow, CoreStarted, CoreResident, Closing, Drained, Winning, Workers
<1>7. TaskConservation
  BY PoolAssumption DEF PoolAssumption, Init, TaskConservation, Queued, Held, Ended
<1>8. Statistics
  <2>1. Refused = {} /\ Busy = {} /\ Len(queue) = 0
    BY DEF Init, Refused, InSubmit, Busy
  <2>2. Retried = {}
    BY DEF Init, Retried
  <2> QED
    BY <2>1, <2>2, FS_EmptySet DEF Init, Statistics, SubmittedAccounted
<1> QED
  BY <1>2, <1>4, <1>5, <1>6, <1>7, <1>8 DEF IInv

LEMMA NextIInv == IInv /\ [Next]_vars => IInv'
<1> SUFFICES ASSUME IInv, [Next]_vars
             PROVE  IInv'
  OBVIOUS
<1>1. TypeOK'
  BY TypeStep DEF IInv
<1>2. Jobs' /\ Unborn' /\ CasBelow'
  BY JobsStep, UnbornStep, CasBelowStep DEF IInv
<1>3. Accounting' /\ WaitCount'
  BY AccountingStep, WaitCountStep DEF IInv
<1>4. CoreStarted' /\ CoreResident'
  BY CoreStep DEF IInv
<1>5. Closing'
  BY ClosingStep DEF IInv
<1>6. Drained'
  BY <1>1, <1>3, <1>4, DrainedStep DEF IInv
<1>7. TaskConservation'
  BY ConservationStep DEF IInv
<1>8. Statistics'
  BY StatisticsStep DEF IInv
<1> QED
  BY <1>1, <1>2, <1>3, <1>4, <1>5, <1>6, <1>7, <1>8 DEF IInv

\* The invariant above holds in every reachable state.
THEOREM Invariance == Spec => []IInv
BY InitIInv, NextIInv, PTL DEF Spec

\* Every variable stays in its type: workerNum and the WaitGroup never go below 0.
THEOREM TypeCorrect == Spec => []TypeOK
<1>1. IInv => TypeOK
  BY DEF IInv
<1> QED
  BY <1>1, Invariance, PTL

\* workerNum counts the workers that run or are being started and never passes
\* maxWorkers, whatever races on the CAS of Submit.
THEOREM WorkersAccounted == Spec => []WorkerAccounting
<1>1. IInv => WorkerAccounting
  BY DEF IInv, Accounting
<1> QED
  BY <1>1, Invariance, PTL

\* No core worker leaves before the queue is closed and drained.
THEOREM CoreStays == Spec => []CoreResident
<1>1. IInv => CoreResident
  BY DEF IInv
<1> QED
  BY <1>1, Invariance, PTL

\* A task is accepted exactly when it is queued, held by one worker, or over.
THEOREM TasksConserved == Spec => []TaskConservation
<1>1. IInv => TaskConservation
  BY DEF IInv
<1> QED
  BY <1>1, Invariance, PTL

\* totalSubmitted counts the attempts of all calls, totalCompleted the tasks that
\* have ended: what is between them is queued, running, under way or given up.
THEOREM SubmissionsAccounted == Spec => []SubmittedAccounted
<1>1. IInv => SubmittedAccounted
  BY DEF IInv, Statistics
<1> QED
  BY <1>1, Invariance, PTL

\* When Close returns nil, every task that was accepted has ended.
THEOREM ClosesGracefully == Spec => []GracefulClose
<1>1. IInv => GracefulClose
  <2> SUFFICES ASSUME IInv, NEW k \in Closers, closer[k] = "nil",
                      NEW c \in Calls, pc[c] = "ok"
               PROVE  Ended(c)
    BY DEF GracefulClose
  <2>1. waiter = "done"
    BY DEF IInv, Closing
  <2>2. queue = <<>> /\ \A w \in Workers : worker[w] # "busy"
    BY <2>1 DEF IInv, Drained
  <2>3. ~Queued(c)
    BY <2>2 DEF Queued
  <2>4. ~Held(c)
    BY <2>2, PoolAssumption DEF PoolAssumption, IInv, Jobs, Held
  <2> QED
    BY <2>3, <2>4 DEF IInv, TaskConservation
<1> QED
  BY <1>1, Invariance, PTL

-----------------------------------------------------------------------------
(* Refinement *)

\* How the states of TaskPool read off those of GoroutinePool.
LEMMA StatusOf ==
  ASSUME TypeOK, TaskConservation, NEW c \in Calls
  PROVE  /\ Ended(c) => status[c] = "finished"
         /\ Held(c) => status[c] = "running"
         /\ Queued(c) => status[c] = "accepted"
         /\ pc[c] \in Returned \ {"ok"} => status[c] = "refused"
         /\ pc[c] \notin Returned => status[c] = "unsubmitted"
BY DEF status, TaskConservation, TypeOK, Returned

\* The status of a call moves only with what the mapping reads.
LEMMA StatusFrame ==
  ASSUME NEW S \in SUBSET Calls,
         \A d \in Calls \ S :
           /\ pc'[d] = pc[d] \/ (pc[d] \notin Returned /\ pc'[d] \notin Returned)
           /\ Held(d)' <=> Held(d)
           /\ Ended(d)' <=> Ended(d)
  PROVE  \A d \in Calls \ S : status'[d] = status[d]
BY DEF status, Returned

LEMMA InitRefines == Init => Abstract!Init
<1> SUFFICES ASSUME Init
             PROVE  Abstract!Init
  OBVIOUS
<1>1. \A c \in Calls : status[c] = "unsubmitted"
  BY PoolAssumption DEF PoolAssumption, Init, status, Ended, Held, Returned
<1> QED
  BY <1>1 DEF Init, Abstract!Init, status

LEMMA StepRefines ==
  ASSUME IInv, IInv', [Next]_vars
  PROVE  [Abstract!Next]_(Abstract!vars)
<1> DEFINE drained == \E k \in Closers : closer[k] = "nil"
<1>t. /\ status = [c \in Calls |-> status[c]]
      /\ status' = [c \in Calls |-> status'[c]]
  BY DEF status
<1>s. ASSUME \A c \in Calls : status'[c] = status[c],
             UNCHANGED <<closed, drained>>
      PROVE  UNCHANGED Abstract!vars
  BY <1>t, <1>s DEF Abstract!vars
<1>m. ASSUME NEW c \in Calls, NEW from, NEW to, status[c] = from, status'[c] = to,
             \A d \in Calls \ {c} : status'[d] = status[d],
             UNCHANGED <<closed, drained>>
      PROVE  Abstract!Move(c, from, to)
  BY <1>t, <1>m DEF Abstract!Move
<1>1. ASSUME NEW c \in Calls, Quiet(c) \/ Grow(c)
      PROVE  [Abstract!Next]_(Abstract!vars)
  <2>1. UNCHANGED <<closed, drained>>
    BY <1>1, CallFrame DEF Quiet, InCall, closeVars
  <2>2. UNCHANGED <<job, outcome>>
    BY <1>1, QuietFrame DEF Grow, workerVars
  <2>3. \A d \in Calls : (Held(d)' <=> Held(d)) /\ (Ended(d)' <=> Ended(d))
    BY <2>2 DEF Held, Ended
  <2>4. pc[c] \notin Returned /\ \A d \in Calls \ {c} : pc'[d] = pc[d]
    BY <1>1 DEF IInv, TypeOK, Returned, Quiet, Begin, Send1, Load, Cas, CasEnds, Grow,
                Send2, Send3, Retry, SendEnds, SendFalls, Goto
  <2>5. \A d \in Calls \ {c} : status'[d] = status[d]
    BY <2>3, <2>4, StatusFrame
  <2>6. status[c] = "unsubmitted"
    BY <2>4, StatusOf DEF IInv
  <2>7. CASE pc'[c] = "ok"
    <3>1. ~closed
      BY <1>1, <2>4, <2>7 DEF IInv, TypeOK, Returned, Quiet, Begin, Send1, Load, Cas,
                  CasEnds, Grow, Send2, Send3, Retry, SendEnds, SendFalls, Goto
    <3>2. ~Held(c)' /\ ~Ended(c)'
      BY <2>3, <2>4 DEF IInv, TaskConservation, Returned
    <3>3. status'[c] = "accepted"
      BY <2>7, <3>2 DEF status
    <3>4. Abstract!Accept(c)
      BY <1>m, <2>1, <2>5, <2>6, <3>1, <3>3 DEF Abstract!Accept
    <3> QED
      BY <3>4 DEF Abstract!Next
  <2>8. CASE pc'[c] \in Returned \ {"ok"}
    <3>1. ~Held(c)' /\ ~Ended(c)'
      BY <2>8 DEF IInv, TaskConservation
    <3>2. status'[c] = "refused"
      BY <2>8, <3>1 DEF status
    <3>3. Abstract!Refuse(c)
      BY <1>m, <2>1, <2>5, <2>6, <3>2 DEF Abstract!Refuse
    <3> QED
      BY <3>3 DEF Abstract!Next
  <2>9. CASE pc'[c] \notin Returned
    <3>1. \A d \in Calls \ {} : status'[d] = status[d]
      BY <2>3, <2>4, <2>9, StatusFrame
    <3> QED
      BY <1>s, <2>1, <3>1
  <2> QED
    BY <2>7, <2>8, <2>9
<1>2. ASSUME NEW w \in Workers, Receive(w)
      PROVE  [Abstract!Next]_(Abstract!vars)
  <2>1. UNCHANGED <<closed, drained>> /\ UNCHANGED <<pc, outcome>>
    BY <1>2 DEF Receive, closeVars, callVars
  <2>2. PICK h \in Calls : h = Head(queue) /\ Queued(h)
    <3>1. queue \in Seq(Calls) /\ queue # <<>>
      BY <1>2 DEF IInv, TypeOK, Receive
    <3>2. Head(queue) \in Calls /\ Head(queue) = queue[1] /\ 1 \in DOMAIN queue
      BY <3>1, TailQueue
    <3> QED
      BY <3>2 DEF Queued
  <2>3. job[w] = None /\ job' = [job EXCEPT ![w] = h]
    BY <1>2, <2>2 DEF IInv, TypeOK, Jobs, Receive
  <2>4. /\ Held(h)' /\ ~Ended(h)'
        /\ \A d \in Calls \ {h} : (Held(d)' <=> Held(d)) /\ (Ended(d)' <=> Ended(d))
    <3>1. ~Ended(h) /\ job \in [Workers -> Calls \cup {None}]
      BY <2>2 DEF IInv, TypeOK, TaskConservation
    <3>2. \A d \in Calls : Ended(d)' <=> Ended(d)
      BY <2>1 DEF Ended
    <3>3. \A d \in Calls : Held(d)' <=> Held(d) \/ d = h
      BY <2>3, <3>1, PoolAssumption DEF PoolAssumption, Held
    <3> QED
      BY <2>2, <3>1, <3>2, <3>3
  <2>5. \A d \in Calls \ {h} : status'[d] = status[d]
    BY <2>1, <2>2, <2>4, StatusFrame
  <2>6. status[h] = "accepted"
    BY <2>2, StatusOf DEF IInv
  <2>7. status'[h] = "running"
    BY <2>1, <2>2, <2>4 DEF IInv, TaskConservation, status
  <2>8. Abstract!Start(h)
    BY <1>m, <2>1, <2>2, <2>5, <2>6, <2>7 DEF Abstract!Start
  <2> QED
    BY <2>2, <2>8 DEF Abstract!Next
<1>3. ASSUME NEW w \in Workers, NEW o \in Outcome \ {"none"}, Finish(w, o)
      PROVE  [Abstract!Next]_(Abstract!vars)
  <2>1. UNCHANGED <<closed, drained>> /\ UNCHANGED pc
    BY <1>3 DEF Finish, TaskEnds, closeVars, callVars
  <2>2. PICK h \in Calls : h = job[w] /\ Held(h)
    BY <1>3 DEF IInv, TypeOK, Jobs, Finish, TaskEnds, Held
  <2>3. /\ job' = [job EXCEPT ![w] = None]
        /\ outcome' = [outcome EXCEPT ![h] = o]
    BY <1>3, <2>2 DEF Finish, TaskEnds
  <2>4. /\ Ended(h)'
        /\ \A d \in Calls \ {h} : (Held(d)' <=> Held(d)) /\ (Ended(d)' <=> Ended(d))
    <3>1. job \in [Workers -> Calls \cup {None}] /\ outcome \in [Calls -> Outcome]
      BY DEF IInv, TypeOK
    <3>2. Ended(h)' /\ \A d \in Calls \ {h} : Ended(d)' <=> Ended(d)
      BY <1>3, <2>3, <3>1 DEF Ended
    <3>3. \A d \in Calls \ {h} : Held(d)' <=> Held(d)
      BY <2>2, <2>3, <3>1, PoolAssumption DEF PoolAssumption, Held
    <3> QED
      BY <3>2, <3>3
  <2>5. \A d \in Calls \ {h} : status'[d] = status[d]
    BY <2>1, <2>2, <2>4, StatusFrame
  <2>6. status[h] = "running"
    BY <2>2, StatusOf DEF IInv
  <2>7. status'[h] = "finished"
    BY <2>1, <2>2, <2>4 DEF IInv, TaskConservation, status
  <2>8. Abstract!Finish(h)
    BY <1>m, <2>1, <2>2, <2>5, <2>6, <2>7 DEF Abstract!Finish
  <2> QED
    BY <2>2, <2>8 DEF Abstract!Next
<1>4. ASSUME UNCHANGED <<callVars, job, outcome>>
      PROVE  \A c \in Calls : status'[c] = status[c]
  BY <1>4, StatusFrame DEF callVars, Held, Ended
<1>5. ASSUME NEW w \in Workers, Leave(w) \/ WorkerDone(w)
      PROVE  [Abstract!Next]_(Abstract!vars)
  <2>1. UNCHANGED <<closed, drained>> /\ UNCHANGED <<callVars, job, outcome>>
    BY <1>5 DEF Leave, WorkerDone, closeVars
  <2> QED
    BY <1>4, <1>s, <2>1
<1>6. ASSUME NEW k \in Closers, CloseChannel(k)
      PROVE  [Abstract!Next]_(Abstract!vars)
  <2>1. ~closed /\ closed'
    BY <1>6 DEF IInv, Closing, CloseChannel
  <2>2. drained' = drained
    BY <1>6 DEF IInv, TypeOK, CloseChannel
  <2>3. status' = status
    BY <1>4, <1>6, <1>t DEF CloseChannel, CloseFrame, workerVars
  <2> QED
    BY <2>1, <2>2, <2>3 DEF Abstract!Next, Abstract!Shutdown
<1>7. ASSUME NEW k \in Closers, CloseReturn(k)
      PROVE  [Abstract!Next]_(Abstract!vars)
  <2>1. closed /\ closed' = closed
    BY <1>7 DEF IInv, Closing, CloseReturn, Answer
  <2>2. ~drained /\ drained'
    BY <1>7 DEF IInv, TypeOK, Closing, Winning, CloseReturn, Answer
  <2>3. queue = <<>> /\ \A w \in Workers : worker[w] # "busy"
    BY <1>7 DEF IInv, Drained, CloseReturn
  <2>4. \A c \in Calls : ~Queued(c) /\ ~Held(c)
    BY <2>3, PoolAssumption DEF PoolAssumption, IInv, Jobs, Queued, Held
  <2>5. \A c \in Calls : status[c] \notin {"accepted", "running"}
    BY <2>4 DEF IInv, TaskConservation, status
  <2>6. status' = status
    BY <1>4, <1>7, <1>t DEF CloseReturn, Answer, CloseFrame, workerVars
  <2> QED
    BY <2>1, <2>2, <2>5, <2>6 DEF Abstract!Next, Abstract!Drain
<1>8. ASSUME WaitStep \/ \E k \in Closers : CloseBegin(k) \/ CloseTimeout(k)
      PROVE  [Abstract!Next]_(Abstract!vars)
  <2>1. closed' = closed /\ UNCHANGED <<callVars, job, outcome>>
    BY <1>8 DEF WaitStep, WaitStart, WaitWake, CloseBegin, CloseTimeout, Answer,
                CloseFrame, workerVars
  <2>2. drained' = drained
    BY <1>8 DEF IInv, TypeOK, WaitStep, WaitStart, WaitWake, CloseBegin, CloseTimeout, Answer
  <2> QED
    BY <1>4, <1>s, <2>1, <2>2
<1>9. ASSUME UNCHANGED vars
      PROVE  [Abstract!Next]_(Abstract!vars)
  BY <1>4, <1>9, <1>s DEF vars, workerVars, closeVars
<1> QED
  BY <1>1, <1>2, <1>3, <1>5, <1>6, <1>7, <1>8, <1>9, Steps DEF CloseStep

\* The pool implements TaskPool: what SubmitWithRetry and Close return agrees
\* with what becomes of the tasks, in every interleaving.
THEOREM PoolImplements == Spec => ImplementsTaskPool
BY InitIInv, NextIInv, InitRefines, StepRefines, PTL
   DEF Spec, ImplementsTaskPool, Abstract!Spec

=============================================================================
