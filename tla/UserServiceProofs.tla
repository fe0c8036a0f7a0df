-------------------------- MODULE UserServiceProofs --------------------------
(***************************************************************************)
(* The safety of UserService for any number of calls, processes, emails    *)
(* and shards, any hash and any collation, and any number of failures.     *)
(***************************************************************************)

EXTENDS UserService, TLAPS

-----------------------------------------------------------------------------
(* The inductive invariant *)

\* Between Lock and Unlock the shard of its email belongs to the call.
Inside(r) == pc[r] \in {"check", "hash", "create", "submit", "unlock"}

Owned == \A r \in Requests : Inside(r) => mu[node[r]][Shard(r)] = r

\* A call answers once, and success means that the user is stored; so does a cache
\* task that has been submitted, and what it writes.
Answers ==
  \A r \in Requests :
    /\ result[r] # "none" => pc[r] \in {"unlock", "return", "done"}
    /\ pc[r] = "submit" \/ result[r] = "success" \/ task[r] # "unsubmitted" \/ write[r] # "none" => r \in users

\* Users that a call of the same process has stored under r's very email.
Rivals(r) == {u \in Rows(r) : node[u] = node[r] /\ email[u] = email[r]}

\* From the moment r has found its email free, only a commit in doubt can take it.
Checked ==
  /\ \A r \in Requests : pc[r] \in {"hash", "create"} => \A u \in Rivals(r) : result[u] = "system"
  /\ \A r \in conflicts : Rows(r) # {} /\ \A u \in Rivals(r) : result[u] = "system"

\* An insert whose commit is in doubt keeps its email to itself.
Doubts ==
  \A p \in doubtful :
    /\ result[p] = "system" /\ Rows(p) = {}
    /\ \A q \in doubtful : same[email[p]] = same[email[q]] => p = q

Logged == \A l \in Logins : before[l] \subseteq users /\ (login[l].code = "new" => before[l] = {})

IInv == TypeOK /\ Owned /\ Answers /\ Checked /\ Doubts /\ OneUserPerEmail /\ CacheSound /\ Logged
-----------------------------------------------------------------------------
(* The kinds of steps *)

\* Steps that touch neither the calls of Register nor the table.
Aside ==
  \/ \E r \in Requests : CacheTask(r) \/ Cancel(r) \/ Expire(r)
  \/ \E l \in Logins : BeginLogin(l) \/ Login(l)
  \/ UNCHANGED vars

LEMMA Steps ==
  [Next]_vars => (\E r \in Requests : Register(r) \/ Resolve(r)) \/ Aside
BY DEF Next, Aside, AllDone

LEMMA AsideFrame == Aside => UNCHANGED <<mu, pc, result, users, doubtful, conflicts>>
<1>1. ASSUME NEW r \in Requests, CacheTask(r) \/ Cancel(r) \/ Expire(r)
      PROVE  UNCHANGED <<mu, pc, result, users, doubtful, conflicts>>
  BY <1>1 DEF CacheTask, StartTask, SetID, SetEmail, PipelineFails, EndTask, Written, Cancel, Expire, callVars, dbVars
<1>2. ASSUME NEW l \in Logins, BeginLogin(l) \/ Login(l)
      PROVE  UNCHANGED <<mu, pc, result, users, doubtful, conflicts>>
  BY <1>2 DEF BeginLogin, Login, Answered, callVars, dbVars
<1>3. CASE UNCHANGED vars
  BY <1>3 DEF vars, callVars, dbVars
<1> QED
  BY <1>1, <1>2, <1>3 DEF Aside

LEMMA Places ==
  /\ \A r \in Requests : node[r] \in Nodes /\ email[r] \in Emails /\ Shard(r) \in Shards
  /\ \A l \in Logins : email[l] \in Emails
BY DEF Nodes, Emails, Shards, Shard

\* A call moves only itself, and decides on its answer once.
LEMMA RegisterFrame ==
  ASSUME TypeOK, NEW r \in Requests, Register(r)
  PROVE  /\ \A q \in Requests \ {r} : pc'[q] = pc[q] /\ result'[q] = result[q] /\ task'[q] = task[q]
         /\ UNCHANGED <<write, idOf, emailOf, login, before>>
<1>1. \A l : Goto(r, l) => \A q \in Requests \ {r} : pc'[q] = pc[q]
  BY DEF Goto, TypeOK
<1>2. \A c, l : Reply(r, c, l) => \A q \in Requests \ {r} : pc'[q] = pc[q] /\ result'[q] = result[q]
  BY <1>1 DEF Reply, TypeOK
<1>3. \A l : Continue(r, l) => \A q \in Requests \ {r} : pc'[q] = pc[q] /\ result'[q] = result[q]
  BY <1>1 DEF Continue
<1>4. CASE Begin(r) \/ Lock(r) \/ Check(r) \/ Hash(r) \/ Create(r) \/ Unlock(r)
  <2>1. (\E c, l : Reply(r, c, l)) \/ (\E l : Continue(r, l))
    BY <1>4 DEF Begin, Lock, Check, Hash, Create, Unlock
  <2>2. UNCHANGED <<task, cacheVars, loginVars>>
    BY <1>4 DEF Begin, Lock, Check, Hash, Create, Unlock
  <2> QED
    BY <1>2, <1>3, <2>1, <2>2 DEF cacheVars, loginVars
<1>5. CASE Submit(r)
  <2>1. task' = [task EXCEPT ![r] = "accepted"] \/ task' = [task EXCEPT ![r] = "refused"]
    BY <1>5 DEF Submit, Pool!Accept, Pool!Refuse, Pool!Move
  <2>2. \A q \in Requests \ {r} : task'[q] = task[q]
    BY <2>1 DEF TypeOK, Pool!TypeOK
  <2> QED
    BY <1>2, <1>5, <2>2 DEF Submit, cacheVars, loginVars
<1>6. CASE Return(r)
  BY <1>1, <1>6 DEF Return, cacheVars, loginVars
<1> QED
  BY <1>4, <1>5, <1>6 DEF Register

-----------------------------------------------------------------------------
(* Each step preserves the types *)

LEMMA RegisterTypes ==
  ASSUME TypeOK, NEW r \in Requests, Register(r)
  PROVE  TypeOK'
<1> USE RequestAssumption DEF RequestAssumption
<1>0. node[r] \in Nodes /\ Shard(r) \in Shards
  BY Places
<1>1. pc' \in [Requests -> CallPC] /\ result' \in [Requests -> Code]
  <2>1. \A l \in CallPC : Goto(r, l) => pc' \in [Requests -> CallPC]
    BY DEF Goto, TypeOK
  <2>2. \A c \in Code : \A l \in CallPC : Reply(r, c, l) => pc' \in [Requests -> CallPC] /\ result' \in [Requests -> Code]
    BY <2>1 DEF Reply, TypeOK
  <2>3. \A l \in CallPC : Continue(r, l) => pc' \in [Requests -> CallPC] /\ result' \in [Requests -> Code]
    BY <2>1 DEF Continue, TypeOK
  <2>4. CASE Return(r)
    BY <2>1, <2>4 DEF Return, CallPC, TypeOK
  <2>5. CASE ~Return(r)
    <3>1. (\E c \in Code : \E l \in CallPC : Reply(r, c, l)) \/ (\E l \in CallPC : Continue(r, l))
      BY <2>5 DEF Register, Begin, Lock, Check, Hash, Create, Submit, Unlock, Code, CallPC
    <3> QED
      BY <2>2, <2>3, <3>1
  <2> QED
    BY <2>4, <2>5
<1>2. ctxDone' \in [Requests -> BOOLEAN] /\ cancelled' \subseteq Requests
  <2>1. \A c, l : Reply(r, c, l) => UNCHANGED <<ctxDone, cancelled>>
    BY DEF Reply
  <2>2. \A l : Continue(r, l) => UNCHANGED <<ctxDone, cancelled>>
    BY DEF Continue
  <2>3. CASE Return(r)
    BY <2>3 DEF Return, TypeOK
  <2>4. CASE ~Return(r)
    <3>1. (\E c, l : Reply(r, c, l)) \/ (\E l : Continue(r, l))
      BY <2>4 DEF Register, Begin, Lock, Check, Hash, Create, Submit, Unlock
    <3> QED
      BY <2>1, <2>2, <3>1 DEF TypeOK
  <2> QED
    BY <2>3, <2>4
<1>3. mu' \in [Nodes -> [Shards -> Requests \cup {Nobody}]]
  <2>1. \A x \in Requests \cup {Nobody} :
          mu' = [mu EXCEPT ![node[r]][Shard(r)] = x] => mu' \in [Nodes -> [Shards -> Requests \cup {Nobody}]]
    BY <1>0 DEF TypeOK
  <2>2. \/ mu' = mu
        \/ mu' = [mu EXCEPT ![node[r]][Shard(r)] = r]
        \/ mu' = [mu EXCEPT ![node[r]][Shard(r)] = Nobody]
    BY DEF Register, Begin, Lock, Check, Hash, Create, Submit, Unlock, Return
  <2> QED
    BY <2>1, <2>2 DEF TypeOK
<1>4. users' \subseteq Requests /\ doubtful' \subseteq Requests /\ conflicts' \subseteq Requests
  BY DEF TypeOK, Register, Begin, Lock, Check, Hash, Create, Submit, Unlock, Return, dbVars
<1>5. Pool!TypeOK'
  <2>1. \/ task' = task
        \/ task' = [task EXCEPT ![r] = "accepted"]
        \/ task' = [task EXCEPT ![r] = "refused"]
    BY DEF Register, Begin, Lock, Check, Hash, Create, Submit, Unlock, Return, Pool!Accept, Pool!Refuse, Pool!Move
  <2> QED
    BY <2>1 DEF TypeOK, Pool!TypeOK, Pool!Status
<1>6. faults' \in 0 .. MaxFaults
  BY DEF TypeOK, Register, Begin, Lock, Check, Hash, Create, Submit, Unlock, Return, Fault
<1> QED
  BY <1>1, <1>2, <1>3, <1>4, <1>5, <1>6, RegisterFrame DEF TypeOK

LEMMA TaskTypes ==
  ASSUME TypeOK, NEW r \in Requests, CacheTask(r) \/ Cancel(r) \/ Expire(r) \/ Resolve(r)
  PROVE  TypeOK'
<1> USE RequestAssumption DEF RequestAssumption
<1>1. UNCHANGED <<mu, pc, result, conflicts, login, before>>
  BY DEF CacheTask, StartTask, SetID, SetEmail, PipelineFails, EndTask, Written, Cancel, Expire, Resolve, callVars, dbVars,
         loginVars
<1>2. ctxDone' \in [Requests -> BOOLEAN] /\ cancelled' \subseteq Requests
  BY DEF CacheTask, StartTask, SetID, SetEmail, PipelineFails, EndTask, Written, Cancel, Expire, Resolve, callVars, TypeOK
<1>3. users' \subseteq Requests /\ doubtful' \subseteq Requests
  BY DEF CacheTask, StartTask, SetID, SetEmail, PipelineFails, EndTask, Written, Cancel, Expire, Resolve, dbVars, TypeOK
<1>4. Pool!TypeOK'
  <2>1. \/ task' = task
        \/ task' = [task EXCEPT ![r] = "running"]
        \/ task' = [task EXCEPT ![r] = "finished"]
    BY DEF CacheTask, StartTask, SetID, SetEmail, PipelineFails, EndTask, Written, Cancel, Expire, Resolve,
           Pool!Start, Pool!Finish, Pool!Move
  <2> QED
    BY <2>1 DEF TypeOK, Pool!TypeOK, Pool!Status
<1>5. write' \in [Requests -> WriteState]
  <2>1. \/ write' = write
        \/ \E s \in WriteState : write' = [write EXCEPT ![r] = s]
    BY DEF CacheTask, StartTask, SetID, SetEmail, PipelineFails, EndTask, Written, Cancel, Expire, Resolve, WriteState,
           cacheVars
  <2> QED
    BY <2>1 DEF TypeOK
<1>6. idOf' \in [Emails -> Requests \cup {Nobody}] /\ emailOf' \in [Requests -> Emails \cup {Nobody}]
  <2>1. /\ idOf' = idOf \/ idOf' = [idOf EXCEPT ![email[r]] = r] \/ idOf' = [idOf EXCEPT ![email[r]] = Nobody]
        /\ \/ emailOf' = emailOf
           \/ emailOf' = [emailOf EXCEPT ![r] = email[r]]
           \/ emailOf' = [emailOf EXCEPT ![r] = Nobody]
    BY DEF CacheTask, StartTask, SetID, SetEmail, PipelineFails, EndTask, Cancel, Expire, Resolve, cacheVars
  <2>2. email[r] \in Emails
    BY Places
  <2> QED
    BY <2>1, <2>2 DEF TypeOK
<1>7. faults' \in 0 .. MaxFaults
  BY DEF CacheTask, StartTask, SetID, SetEmail, PipelineFails, EndTask, Cancel, Expire, Resolve, Fault, TypeOK
<1> QED
  BY <1>1, <1>2, <1>3, <1>4, <1>5, <1>6, <1>7 DEF TypeOK

LEMMA LoginTypes ==
  ASSUME TypeOK, NEW l \in Logins, BeginLogin(l) \/ Login(l)
  PROVE  TypeOK'
<1> USE RequestAssumption DEF RequestAssumption
<1>1. UNCHANGED <<mu, callVars, dbVars, task, cacheVars>>
  BY DEF BeginLogin, Login, Answered
<1>2. login' \in [Logins -> Answer]
  <2>1. PICK a \in Answer : login' = [login EXCEPT ![l] = a]
    <3>1. CASE BeginLogin(l)
      <4>1. login[l] \in Answer
        BY DEF TypeOK
      <4>2. [login[l] EXCEPT !.code = "begun"] \in Answer
        BY <4>1 DEF Answer
      <4> QED
        BY <3>1, <4>2 DEF BeginLogin
    <3>2. CASE Login(l)
      <4>1. PICK code \in {"success", "password", "system"}, u \in Requests \cup {Nobody} : Answered(l, code, u)
        BY <3>2 DEF Login, Rows, TypeOK
      <4> QED
        BY <4>1 DEF Answered, Answer
    <3> QED
      BY <3>1, <3>2
  <2> QED
    BY <2>1 DEF TypeOK
<1>3. before' \in [Logins -> SUBSET Requests] /\ faults' \in 0 .. MaxFaults
  BY DEF BeginLogin, Login, Answered, Fault, TypeOK
<1> QED
  BY <1>1, <1>2, <1>3 DEF TypeOK, Pool!TypeOK, callVars, dbVars, cacheVars

LEMMA TypeKeeps == TypeOK /\ [Next]_vars => TypeOK'
<1> SUFFICES ASSUME TypeOK, [Next]_vars
             PROVE  TypeOK'
  OBVIOUS
<1>1. CASE UNCHANGED vars
  BY <1>1 DEF TypeOK, Pool!TypeOK, vars, callVars, dbVars, cacheVars, loginVars
<1> QED
  BY <1>1, Steps, RegisterTypes, TaskTypes, LoginTypes DEF Aside

-----------------------------------------------------------------------------
(* The lock, the answers and the table *)

LEMMA OwnedKeeps == TypeOK /\ Owned /\ [Next]_vars => Owned'
<1> SUFFICES ASSUME TypeOK, Owned, [Next]_vars
             PROVE  Owned'
  OBVIOUS
<1>1. CASE UNCHANGED <<mu, pc>>
  BY <1>1 DEF Owned, Inside
<1>2. ASSUME NEW r \in Requests, Register(r)
      PROVE  Owned'
  <2>0. node[r] \in Nodes /\ Shard(r) \in Shards
    BY Places
  <2>1. \A x, y \in Requests : Inside(x) /\ Inside(y) /\ node[x] = node[y] /\ Shard(x) = Shard(y) => x = y
    BY DEF Owned
  <2>2. CASE Lock(r)
    <3>1. mu[node[r]][Shard(r)] = Nobody /\ mu' = [mu EXCEPT ![node[r]][Shard(r)] = r]
      BY <2>2 DEF Lock
    <3>2. ASSUME NEW q \in Requests, Inside(q)'
          PROVE  mu'[node[q]][Shard(q)] = q
      <4>1. CASE q = r
        BY <2>0, <3>1, <4>1 DEF TypeOK
      <4>2. CASE q # r
        <5>1. mu[node[q]][Shard(q)] = q
          BY <1>2, <3>2, <4>2, RegisterFrame DEF Inside, Owned
        <5>2. ~(node[q] = node[r] /\ Shard(q) = Shard(r))
          BY <3>1, <5>1, RequestAssumption DEF RequestAssumption
        <5> QED
          BY <2>0, <3>1, <5>1, <5>2, Places DEF TypeOK
      <4> QED
        BY <4>1, <4>2
    <3> QED
      BY <3>2 DEF Owned, Shard
  <2>3. CASE Unlock(r)
    <3>1. Inside(r) /\ mu' = [mu EXCEPT ![node[r]][Shard(r)] = Nobody] /\ pc' = [pc EXCEPT ![r] = "return"]
      BY <2>3 DEF Unlock, Continue, Goto, Inside
    <3>2. ASSUME NEW q \in Requests, Inside(q)'
          PROVE  mu'[node[q]][Shard(q)] = q
      <4>1. q # r
        BY <3>1, <3>2 DEF Inside, TypeOK
      <4>2. Inside(q) /\ mu[node[q]][Shard(q)] = q
        BY <3>1, <3>2, <4>1 DEF Inside, Owned, TypeOK
      <4>3. ~(node[q] = node[r] /\ Shard(q) = Shard(r))
        BY <2>1, <3>1, <4>1, <4>2
      <4> QED
        BY <2>0, <3>1, <4>2, <4>3, Places DEF TypeOK
    <3> QED
      BY <3>2 DEF Owned, Shard
  <2>4. CASE ~Lock(r) /\ ~Unlock(r)
    <3>1. mu' = mu
      BY <1>2, <2>4 DEF Register, Begin, Check, Hash, Create, Submit, Return
    <3>2. Inside(r)' => Inside(r)
      BY <1>2, <2>4 DEF Register, Begin, Check, Hash, Create, Submit, Return, Reply, Continue, Goto, Inside, TypeOK
    <3> QED
      BY <1>2, <3>1, <3>2, RegisterFrame DEF Owned, Inside, Shard
  <2> QED
    BY <2>2, <2>3, <2>4
<1> QED
  BY <1>1, <1>2, Steps, AsideFrame DEF Resolve, callVars

\* No answer is ever changed, and no row removed.
LEMMA Settled ==
  ASSUME TypeOK, Answers, [Next]_vars
  PROVE  /\ users \subseteq users'
         /\ \A u \in Requests : result[u] # "none" => result'[u] = result[u]
<1>1. ASSUME NEW r \in Requests, Register(r)
      PROVE  users \subseteq users' /\ \A u \in Requests : result[u] # "none" => result'[u] = result[u]
  <2>1. users \subseteq users'
    BY <1>1 DEF Register, Begin, Lock, Check, Hash, Create, Submit, Unlock, Return, dbVars
  <2>2. CASE pc[r] \in {"unlock", "return", "done"}
    <3>1. result' = result
      BY <1>1, <2>2 DEF Register, Begin, Lock, Check, Hash, Create, Submit, Unlock, Return, Continue
    <3> QED
      BY <2>1, <3>1
  <2>3. CASE pc[r] \notin {"unlock", "return", "done"}
    BY <1>1, <2>1, <2>3, RegisterFrame DEF Answers
  <2> QED
    BY <2>2, <2>3
<1>2. ASSUME NEW r \in Requests, Resolve(r)
      PROVE  users \subseteq users' /\ \A u \in Requests : result[u] # "none" => result'[u] = result[u]
  BY <1>2 DEF Resolve, callVars
<1> QED
  BY <1>1, <1>2, Steps, AsideFrame

LEMMA AnswersKeep == TypeOK /\ Answers /\ [Next]_vars => Answers'
<1> SUFFICES ASSUME TypeOK, Answers, [Next]_vars
             PROVE  Answers'
  OBVIOUS
<1> DEFINE Answering(r) ==
      /\ result[r] # "none" => pc[r] \in {"unlock", "return", "done"}
      /\ pc[r] = "submit" \/ result[r] = "success" \/ task[r] # "unsubmitted" \/ write[r] # "none" => r \in users
<1>0. \A r \in Requests : Answering(r)
  BY DEF Answers
<1>u. users \subseteq users'
  BY Settled
<1>1. ASSUME NEW r \in Requests, Register(r)
      PROVE  Answers'
  <2>1. ASSUME NEW q \in Requests, q # r
        PROVE  Answering(q)'
    <3>1. pc'[q] = pc[q] /\ result'[q] = result[q] /\ task'[q] = task[q] /\ write' = write
      BY <1>1, <2>1, RegisterFrame
    <3> QED
      BY <1>0, <1>u, <3>1
  <2>2. Answering(r)'
    <3>0. write' = write
      BY <1>1, RegisterFrame
    <3>1. \A c, l : Reply(r, c, l) => pc'[r] = l /\ result'[r] = c
      BY DEF Reply, Goto, TypeOK
    <3>2. \A l : Continue(r, l) => pc'[r] = l /\ result' = result
      BY DEF Continue, Goto, TypeOK
    <3>3. CASE Create(r)
      <4>1. \/ pc'[r] = "submit" /\ result' = result /\ r \in users'
            \/ pc'[r] = "unlock" /\ result'[r] = "system"
        BY <3>1, <3>2, <3>3 DEF Create
      <4>2. result[r] = "none"
        BY <1>0, <3>3 DEF Create
      <4>3. task' = task
        BY <3>3 DEF Create
      <4> QED
        BY <1>0, <1>u, <3>0, <4>1, <4>2, <4>3
    <3>4. CASE Submit(r)
      <4>1. pc'[r] = "unlock" /\ r \in users
        BY <1>0, <3>1, <3>4 DEF Submit
      <4> QED
        BY <1>u, <4>1
    <3>5. CASE Begin(r) \/ Lock(r) \/ Check(r) \/ Hash(r)
      <4>1. \/ pc'[r] \in {"lock", "check", "hash", "create"} /\ result' = result
            \/ pc'[r] \in {"unlock", "return"} /\ result'[r] \in {"param", "system", "exist"}
        BY <3>1, <3>2, <3>5 DEF Begin, Lock, Check, Hash
      <4>2. pc[r] \notin {"unlock", "return", "done"} /\ task' = task
        BY <3>5 DEF Begin, Lock, Check, Hash
      <4> QED
        BY <1>0, <1>u, <3>0, <4>1, <4>2
    <3>6. CASE Unlock(r) \/ Return(r)
      <4>1. pc'[r] \in {"return", "done"} /\ result' = result /\ task' = task
        BY <3>2, <3>6 DEF Unlock, Return, Goto, TypeOK
      <4> QED
        BY <1>0, <1>u, <3>0, <4>1
    <3> QED
      BY <1>1, <3>3, <3>4, <3>5, <3>6 DEF Register
  <2> QED
    BY <2>1, <2>2 DEF Answers
<1>2. ASSUME NEW r \in Requests, Resolve(r)
      PROVE  Answers'
  <2>1. UNCHANGED <<pc, result, task, write>>
    BY <1>2 DEF Resolve, callVars, cacheVars
  <2> QED
    BY <1>0, <1>u, <2>1 DEF Answers
<1>3. CASE Aside
  <2>1. UNCHANGED <<pc, result, users>>
    BY <1>3, AsideFrame
  <2>2. \A r \in Requests : task'[r] # "unsubmitted" \/ write'[r] # "none" => task[r] # "unsubmitted" \/ write[r] # "none"
    <3>1. ASSUME NEW r \in Requests, CacheTask(r) \/ Cancel(r) \/ Expire(r), NEW q \in Requests
          PROVE  task'[q] # "unsubmitted" \/ write'[q] # "none" => task[q] # "unsubmitted" \/ write[q] # "none"
      <4>1. CASE q = r /\ CacheTask(r)
        BY <4>1 DEF CacheTask, StartTask, SetID, SetEmail, PipelineFails, EndTask, Pool!Start, Pool!Finish, Pool!Move
      <4>2. CASE q # r /\ CacheTask(r)
        BY <4>2 DEF CacheTask, StartTask, SetID, SetEmail, PipelineFails, EndTask, Written, cacheVars,
                    Pool!Start, Pool!Finish, Pool!Move, Pool!TypeOK, TypeOK
      <4>3. CASE Cancel(r) \/ Expire(r)
        BY <4>3 DEF Cancel, Expire, cacheVars
      <4> QED
        BY <3>1, <4>1, <4>2, <4>3
    <3>2. ASSUME NEW l \in Logins, BeginLogin(l) \/ Login(l)
          PROVE  UNCHANGED <<task, write>>
      BY <3>2 DEF BeginLogin, Login, Answered, cacheVars
    <3> QED
      BY <1>3, <3>1, <3>2 DEF Aside, vars, cacheVars
  <2> QED
    BY <1>0, <2>1, <2>2 DEF Answers
<1> QED
  BY <1>1, <1>2, <1>3, Steps

\* How the table grows: by an insert that finds its email free and not in doubt, or
\* by a commit that was in doubt.
LEMMA TableSteps ==
  ASSUME TypeOK, [Next]_vars
  PROVE  \/ UNCHANGED <<users, doubtful>>
         \/ \E r \in Requests : /\ pc[r] = "create" /\ Insertable(r)
                                /\ UNCHANGED doubtful /\ users' = users \cup {r} /\ UNCHANGED conflicts
         \/ \E r \in Requests : /\ pc[r] = "create" /\ Insertable(r) /\ result'[r] = "system"
                                /\ UNCHANGED users /\ doubtful' = doubtful \cup {r}
         \/ \E r \in doubtful : /\ doubtful' = doubtful \ {r} /\ users' \in {users, users \cup {r}}
                                /\ UNCHANGED <<pc, result, conflicts>>
<1>1. ASSUME NEW r \in Requests, Register(r), ~UNCHANGED <<users, doubtful>>
      PROVE  /\ pc[r] = "create" /\ Insertable(r)
             /\ \/ UNCHANGED doubtful /\ users' = users \cup {r} /\ UNCHANGED conflicts
                \/ result'[r] = "system" /\ UNCHANGED users /\ doubtful' = doubtful \cup {r}
  <2>1. Create(r)
    BY <1>1 DEF Register, Begin, Lock, Check, Hash, Submit, Unlock, Return, dbVars
  <2>2. \A l : Reply(r, "system", l) => result'[r] = "system"
    BY DEF Reply, TypeOK
  <2> QED
    BY <1>1, <2>1, <2>2 DEF Create, dbVars
<1>2. ASSUME NEW r \in Requests, Resolve(r)
      PROVE  /\ r \in doubtful /\ doubtful' = doubtful \ {r} /\ users' \in {users, users \cup {r}}
             /\ UNCHANGED <<pc, result, conflicts>>
  BY <1>2 DEF Resolve, callVars
<1> QED
  BY <1>1, <1>2, Steps, AsideFrame

LEMMA DoubtsKeep == TypeOK /\ Answers /\ Doubts /\ [Next]_vars => Doubts'
<1> SUFFICES ASSUME TypeOK, Answers, Doubts, [Next]_vars
             PROVE  Doubts'
  OBVIOUS
<1>0. doubtful \subseteq Requests
  BY DEF TypeOK
<1>1. \A p \in doubtful : result'[p] = "system"
  BY <1>0, Settled DEF Doubts
<1>2. CASE UNCHANGED <<users, doubtful>>
  BY <1>1, <1>2 DEF Doubts, Rows
<1>3. ASSUME NEW r \in Requests, Insertable(r), UNCHANGED doubtful, users' = users \cup {r}
      PROVE  Doubts'
  BY <1>1, <1>3 DEF Doubts, Rows, Insertable, Contended
<1>4. ASSUME NEW r \in Requests, Insertable(r), result'[r] = "system",
             UNCHANGED users, doubtful' = doubtful \cup {r}
      PROVE  Doubts'
  BY <1>1, <1>4 DEF Doubts, Rows, Insertable, Contended
<1>5. ASSUME NEW r \in doubtful, doubtful' = doubtful \ {r}, users' \in {users, users \cup {r}}
      PROVE  Doubts'
  BY <1>1, <1>5 DEF Doubts, Rows
<1> QED
  BY <1>2, <1>3, <1>4, <1>5, TableSteps

LEMMA EmailsStayUnique ==
  TypeOK /\ Answers /\ Doubts /\ OneUserPerEmail /\ [Next]_vars => OneUserPerEmail'
<1> SUFFICES ASSUME TypeOK, Answers, Doubts, OneUserPerEmail, [Next]_vars
             PROVE  OneUserPerEmail'
  OBVIOUS
<1>1. \A r \in Requests : result'[r] = "success" => r \in users'
  BY AnswersKeep DEF Answers
<1>2. ASSUME NEW u \in users', NEW v \in users', same[email[u]] = same[email[v]]
      PROVE  u = v
  <2>1. CASE users' = users
    BY <1>2, <2>1 DEF OneUserPerEmail
  <2>2. ASSUME NEW r \in Requests, Rows(r) = {}, users' = users \cup {r}
        PROVE  u = v
    BY <1>2, <2>2 DEF OneUserPerEmail, Rows
  <2>3. users' = users \/ \E r \in Requests : Rows(r) = {} /\ users' = users \cup {r}
    BY TableSteps DEF Insertable, Doubts, TypeOK
  <2> QED
    BY <2>1, <2>2, <2>3
<1> QED
  BY <1>1, <1>2 DEF OneUserPerEmail

LEMMA CheckedKeeps ==
  TypeOK /\ Owned /\ Answers /\ Checked /\ Doubts /\ [Next]_vars => Checked'
<1> SUFFICES ASSUME TypeOK, Owned, Answers, Checked, Doubts, [Next]_vars
             PROVE  Checked'
  OBVIOUS
<1>s. users \subseteq Requests /\ users \subseteq users' /\ \A u \in users : result[u] = "system" => result'[u] = "system"
  BY Settled DEF TypeOK
\* Whoever joins the table against a call that has checked was in doubt.
<1>n. ASSUME NEW u \in users' \ users
      PROVE  \/ u \in Requests /\ pc[u] = "create" /\ Insertable(u) /\ UNCHANGED conflicts
             \/ u \in doubtful /\ result'[u] = "system"
  BY TableSteps DEF Doubts
<1>1. ASSUME NEW r \in Requests, pc'[r] \in {"hash", "create"}, NEW u \in Rivals(r)'
      PROVE  result'[u] = "system"
  <2>0. u \in users' /\ node[u] = node[r] /\ email[u] = email[r] /\ same[email[u]] = same[email[r]]
    BY DEF Rivals, Rows
  <2>1. CASE Check(r)
    <3>1. Rows(r) = {}
      BY <1>1, <2>1 DEF Check, Reply, Goto, TypeOK
    <3>2. users' = users
      BY <2>1 DEF Check, dbVars
    <3> QED
      BY <2>0, <3>1, <3>2 DEF Rows
  <2>2. CASE ~Check(r)
    <3>1. pc[r] \in {"hash", "create"}
      <4>1. ASSUME NEW q \in Requests, Register(q)
            PROVE  pc[r] \in {"hash", "create"}
        <5>1. CASE q # r
          BY <1>1, <4>1, <5>1, RegisterFrame
        <5>2. CASE q = r
          <6>1. \A c, l : (Reply(r, c, l) \/ Continue(r, l)) => pc'[r] = l
            BY DEF Reply, Continue, Goto, TypeOK
          <6>2. Return(r) => pc'[r] = "done"
            BY DEF Return, Goto, TypeOK
          <6>3. Hash(r)
            BY <1>1, <2>2, <4>1, <5>2, <6>1, <6>2 DEF Register, Begin, Lock, Create, Submit, Unlock
          <6> QED
            BY <6>3 DEF Hash
        <5> QED
          BY <5>1, <5>2
      <4>2. ASSUME NEW q \in Requests, Resolve(q)
            PROVE  pc' = pc
        BY <4>2 DEF Resolve, callVars
      <4> QED
        BY <1>1, <4>1, <4>2, Steps, AsideFrame
    <3>2. CASE u \in users
      <4>1. result[u] = "system"
        BY <2>0, <3>1, <3>2 DEF Checked, Rivals, Rows
      <4> QED
        BY <1>s, <3>2, <4>1
    <3>3. CASE u \notin users
      <4>1. ASSUME u \in Requests, pc[u] = "create", Insertable(u)
            PROVE  result'[u] = "system"
        <5>1. mu[node[r]][Shard(r)] = r /\ mu[node[u]][Shard(u)] = u
          BY <3>1, <4>1 DEF Owned, Inside
        <5>2. u = r
          BY <2>0, <5>1 DEF Shard
        <5>3. pc'[r] \notin {"hash", "create"}
          <6>1. PICK q \in Requests : Register(q) \/ Resolve(q)
            BY <3>3, <2>0, Steps, AsideFrame
          <6>2. CASE Resolve(q)
            BY <2>0, <3>3, <4>1, <5>2, <6>2 DEF Resolve, Insertable, Contended
          <6>3. CASE Register(q)
            <7>1. Create(q) /\ users' = users \cup {q}
              BY <2>0, <3>3, <6>3 DEF Register, Begin, Lock, Check, Hash, Create, Submit, Unlock, Return, dbVars
            <7>2. q = r
              BY <2>0, <3>3, <5>2, <7>1
            <7> QED
              BY <7>1, <7>2 DEF Create, Reply, Continue, Goto, TypeOK
          <6> QED
            BY <6>1, <6>2, <6>3
        <5> QED
          BY <1>1, <5>3
      <4> QED
        BY <1>n, <2>0, <3>3, <4>1
    <3> QED
      BY <3>2, <3>3
  <2> QED
    BY <2>1, <2>2
<1>2. ASSUME NEW r \in conflicts'
      PROVE  Rows(r)' # {} /\ \A u \in Rivals(r)' : result'[u] = "system"
  <2>1. CASE r \in conflicts
    <3>1. Rows(r) # {} /\ \A u \in Rivals(r) : result[u] = "system"
      BY <2>1 DEF Checked
    <3>2. Rows(r)' # {}
      BY <1>s, <3>1 DEF Rows
    <3>3. ASSUME NEW u \in Rivals(r)'
          PROVE  result'[u] = "system"
      <4>0. u \in users' /\ node[u] = node[r] /\ email[u] = email[r] /\ same[email[u]] = same[email[r]]
        BY <3>3 DEF Rivals, Rows
      <4>1. CASE u \in users
        <5>1. u \in Rivals(r)
          BY <4>0, <4>1 DEF Rivals, Rows
        <5> QED
          BY <1>s, <3>1, <4>1, <5>1
      <4>2. CASE u \notin users
        <5>1. ~Insertable(u)
          BY <3>1, <4>0 DEF Insertable, Rows
        <5> QED
          BY <1>n, <4>0, <4>2, <5>1
      <4> QED
        BY <4>1, <4>2
    <3> QED
      BY <3>2, <3>3
  <2>2. CASE r \notin conflicts
    <3>1. r \in Requests /\ pc[r] = "create" /\ Rows(r) # {} /\ users' = users
      <4>1. PICK q \in Requests : Register(q)
        BY <1>2, <2>2, Steps, AsideFrame DEF Resolve
      <4>2. Create(q) /\ conflicts' # conflicts
        BY <1>2, <2>2, <4>1 DEF Register, Begin, Lock, Check, Hash, Submit, Unlock, Return, dbVars
      <4>3. Rows(q) # {} /\ conflicts' = conflicts \cup {q} /\ users' = users /\ pc[q] = "create"
        BY <4>2 DEF Create, dbVars
      <4> QED
        BY <1>2, <2>2, <4>3
    <3>2. \A u \in Rivals(r) : u \in users /\ result[u] = "system"
      BY <3>1 DEF Checked, Rivals, Rows
    <3> QED
      BY <1>s, <3>1, <3>2 DEF Rivals, Rows
  <2> QED
    BY <2>1, <2>2
<1> QED
  BY <1>1, <1>2 DEF Checked

-----------------------------------------------------------------------------
(* The cache and the logins *)

LEMMA CacheStaysSound == TypeOK /\ Answers /\ CacheSound /\ [Next]_vars => CacheSound'
<1> SUFFICES ASSUME TypeOK, Answers, CacheSound, [Next]_vars
             PROVE  CacheSound'
  OBVIOUS
<1>u. users \subseteq users'
  BY Settled
<1>1. CASE UNCHANGED <<idOf, emailOf>>
  BY <1>u, <1>1 DEF CacheSound
<1>2. ASSUME NEW r \in Requests, SetID(r)
      PROVE  CacheSound'
  <2>1. r \in users /\ email[r] \in Emails
    BY <1>2, Places DEF SetID, Answers
  <2>2. idOf' = [idOf EXCEPT ![email[r]] = r] /\ emailOf' = emailOf
    BY <1>2 DEF SetID
  <2> QED
    BY <1>u, <2>1, <2>2 DEF CacheSound, TypeOK
<1>3. ASSUME NEW r \in Requests, SetEmail(r)
      PROVE  CacheSound'
  <2>1. r \in users
    BY <1>3 DEF SetEmail, Answers
  <2>2. emailOf' = [emailOf EXCEPT ![r] = email[r]] /\ idOf' = idOf
    BY <1>3 DEF SetEmail
  <2> QED
    BY <1>u, <2>1, <2>2 DEF CacheSound, TypeOK
<1>4. ASSUME NEW r \in Requests, Expire(r)
      PROVE  CacheSound'
  <2>1. \/ idOf' = [idOf EXCEPT ![email[r]] = Nobody] /\ emailOf' = emailOf
        \/ emailOf' = [emailOf EXCEPT ![r] = Nobody] /\ idOf' = idOf
    BY <1>4 DEF Expire
  <2> QED
    BY <1>u, <2>1 DEF CacheSound, TypeOK
<1>5. UNCHANGED <<idOf, emailOf>> \/ \E r \in Requests : SetID(r) \/ SetEmail(r) \/ Expire(r)
  <2>1. ASSUME NEW r \in Requests, Register(r) \/ Resolve(r) \/ CacheTask(r) \/ Cancel(r) \/ Expire(r)
        PROVE  UNCHANGED <<idOf, emailOf>> \/ SetID(r) \/ SetEmail(r) \/ Expire(r)
    BY <2>1, RegisterFrame DEF Resolve, CacheTask, StartTask, PipelineFails, EndTask, Cancel, cacheVars
  <2>2. ASSUME NEW l \in Logins, BeginLogin(l) \/ Login(l)
        PROVE  UNCHANGED <<idOf, emailOf>>
    BY <2>2 DEF BeginLogin, Login, Answered, cacheVars
  <2> QED
    BY <2>1, <2>2, Steps DEF Aside, vars, cacheVars
<1> QED
  BY <1>1, <1>2, <1>3, <1>4, <1>5

LEMMA LoggedKeeps == TypeOK /\ Answers /\ Logged /\ [Next]_vars => Logged'
<1> SUFFICES ASSUME TypeOK, Answers, Logged, [Next]_vars
             PROVE  Logged'
  OBVIOUS
<1>u. users \subseteq users'
  BY Settled
<1>1. CASE UNCHANGED loginVars
  BY <1>u, <1>1 DEF Logged, loginVars
<1>2. ASSUME NEW l \in Logins, BeginLogin(l)
      PROVE  Logged'
  <2>1. {r \in Requests : result[r] = "success"} \subseteq users
    BY DEF Answers
  <2>2. /\ \A k \in Logins \ {l} : login'[k] = login[k] /\ before'[k] = before[k]
        /\ login'[l].code = "begun" /\ before'[l] = {r \in Requests : result[r] = "success"}
    BY <1>2 DEF BeginLogin, TypeOK, Answer
  <2> QED
    BY <1>u, <2>1, <2>2 DEF Logged
<1>3. ASSUME NEW l \in Logins, Login(l)
      PROVE  Logged'
  <2>1. PICK code \in {"success", "password", "system"}, v \in users \cup {Nobody} : Answered(l, code, v)
    BY <1>3 DEF Login, Rows
  <2>2. /\ \A k \in Logins \ {l} : login'[k] = login[k]
        /\ login'[l].code = code /\ before' = before
    BY <2>1 DEF Answered, TypeOK
  <2> QED
    BY <1>u, <2>2 DEF Logged
<1>4. UNCHANGED loginVars \/ \E l \in Logins : BeginLogin(l) \/ Login(l)
  BY Steps, RegisterFrame DEF Aside, Resolve, CacheTask, StartTask, SetID, SetEmail, PipelineFails, EndTask, Written,
     Cancel, Expire, vars, loginVars
<1> QED
  BY <1>1, <1>2, <1>3, <1>4

-----------------------------------------------------------------------------
(* The theorems *)

\* The inductive invariant holds in every state the service can reach.
THEOREM Invariance == Spec => []IInv
<1>1. Init => IInv
  <2> SUFFICES ASSUME Init
               PROVE  IInv
    OBVIOUS
  <2>1. TypeOK
    <3>1. Pool!TypeOK
      BY DEF Init, Pool!Init, Pool!TypeOK, Pool!Status
    <3>2. \A l \in Logins : login[l] \in Answer
      BY DEF Init, Answer
    <3>3. login \in [Logins -> Answer]
      BY <3>2 DEF Init
    <3> QED
      BY <3>1, <3>3, RequestAssumption DEF RequestAssumption, Init, TypeOK, CallPC, Code, WriteState
  <2>2. Owned /\ Answers /\ Checked /\ Doubts
    BY DEF Init, Pool!Init, Owned, Inside, Answers, Checked, Doubts
  <2>3. OneUserPerEmail /\ CacheSound /\ Logged
    BY DEF Init, OneUserPerEmail, CacheSound, Logged
  <2> QED
    BY <2>1, <2>2, <2>3 DEF IInv
<1>2. IInv /\ [Next]_vars => IInv'
  BY TypeKeeps, OwnedKeeps, AnswersKeep, CheckedKeeps, DoubtsKeep, EmailsStayUnique, CacheStaysSound, LoggedKeeps
     DEF IInv
<1> QED
  BY <1>1, <1>2, PTL DEF Spec

\* Calls, table, cache tasks, cache and logins keep their types.
THEOREM TypeCorrect == Spec => []TypeOK
BY Invariance, PTL DEF IInv

\* The unique index keeps one user per email, for any collation and also when the
\* outcome of a commit is unknown to Register, and a reported user stays.
THEOREM EmailsAreUnique == Spec => []OneUserPerEmail
BY Invariance, PTL DEF IInv

\* The shard lock makes check and insert of Register one step for its process: only
\* a commit that outlives its caller can get between them.
THEOREM LockPreventsRaces == Spec => []LockPreventsConflicts
<1>1. IInv => LockPreventsConflicts
  BY DEF IInv, Checked, Rivals, LockPreventsConflicts
<1> QED
  BY <1>1, Invariance, PTL

\* What SetUserCache has written, however little of it, is true of the table.
THEOREM CacheIsSound == Spec => []CacheSound
BY Invariance, PTL DEF IInv

\* Whoever has been told that he is registered can log in, and as himself.
THEOREM RegisteredCanLogin == Spec => LoginFindsUser
<1>1. IInv /\ [Next]_vars => [\A l \in Logins : \A r \in before[l] :
        login'[l] # login[l] /\ email[r] = email[l] /\ password[r] = password[l]
          => faults' # faults \/ login'[l] = [code |-> "success", user |-> r]]_vars
  <2> SUFFICES ASSUME IInv, [Next]_vars, NEW l \in Logins, NEW r \in before[l], login'[l] # login[l],
                      email[r] = email[l], password[r] = password[l], faults' = faults
               PROVE  login'[l] = [code |-> "success", user |-> r]
    OBVIOUS
  <2>0. TypeOK /\ r \in users /\ r \in Rows(l)
    BY DEF IInv, Logged, Rows
  <2>1. Login(l)
    <3>1. UNCHANGED loginVars \/ \E k \in Logins : BeginLogin(k) \/ Login(k)
      BY <2>0, Steps, RegisterFrame DEF Aside, Resolve, CacheTask, StartTask, SetID, SetEmail, PipelineFails, EndTask,
         Written, Cancel, Expire, vars, loginVars
    <3>2. PICK k \in Logins : BeginLogin(k) \/ Login(k)
      BY <3>1 DEF loginVars
    <3>3. k = l
      BY <2>0, <3>2 DEF BeginLogin, Login, Answered, TypeOK
    <3>4. ~BeginLogin(l)
      BY DEF BeginLogin, IInv, Logged
    <3> QED
      BY <3>2, <3>3, <3>4
  <2>2. ~Fault
    BY <2>0 DEF Fault, TypeOK
  <2>3. PICK u \in Rows(l) : Answered(l, "success", u)
    BY <2>0, <2>1, <2>2 DEF Login
  <2>4. u = r
    BY <2>0 DEF IInv, OneUserPerEmail, Rows
  <2> QED
    BY <2>0, <2>3, <2>4 DEF Answered, TypeOK
<1> QED
  BY <1>1, Invariance, PTL DEF Spec, LoginFindsUser

=============================================================================
