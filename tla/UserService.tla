----------------------------- MODULE UserService -----------------------------
(***************************************************************************)
(* Register and Login of service/user/user_service.go, with what they work *)
(* on: the sharded lock of utils/sync/shard_lock.go, one in every process; *)
(* the user table and its unique index on email; the user cache of         *)
(* utils/redis/redis.go; the context of the request; and the goroutine     *)
(* pool, which is TaskPool here and implemented by GoroutinePool.          *)
(*                                                                         *)
(* A registration creates a user with a fresh UUID, so a user is named by  *)
(* the call of Register that makes it.                                     *)
(***************************************************************************)

EXTENDS Naturals, FiniteSets

CONSTANTS
  Requests,    \* calls of Register
  Blank,       \* those with an empty field
  Logins,      \* calls of Login
  node,        \* node[r]: the process that handles call r of Register
  email,       \* email[x]: the email given in call x of either kind
  password,    \* password[x]: the password given in call x
  shard,       \* shard[e]: the shard of the lock that email e hashes to
  same,        \* same[e]: what MySQL compares for e; its collation may equate emails
  Nobody,
  MaxFaults,   \* bounds of the model: failures of MySQL and Redis,
  MaxCancels   \* and calls of Register whose client gives up

Nodes  == {node[r] : r \in Requests}
Emails == {email[x] : x \in Requests \cup Logins}
Shards == {shard[e] : e \in Emails}

ASSUME RequestAssumption ==
  /\ Blank \subseteq Requests
  /\ Nobody \notin Requests
  /\ {MaxFaults, MaxCancels} \subseteq Nat

VARIABLES
  mu,         \* mu[n][s]: who holds shard s of the lock in process n
  pc,         \* pc[r]: where call r of Register is
  result,     \* result[r]: the error code call r answers with
  ctxDone,    \* ctxDone[r]: the context of call r has ended
  cancelled,  \* calls whose client gave up before the answer
  users,      \* the rows of im_user, by the registration that made them
  doubtful,   \* inserts whose commit is under way when their caller has given up
  conflicts,  \* inserts the unique index refused
  task,       \* task[r]: what has become of the cache task in the pool
  write,      \* write[r]: where the cache task is
  idOf,       \* idOf[e]: the Redis key im:user:id:{e}
  emailOf,    \* emailOf[u]: the Redis key im:user:email:{u}
  login,      \* login[l]: the answer to call l of Login: a code and a user
  before,     \* before[l]: registrations that had succeeded when l began
  faults

callVars  == <<pc, result, ctxDone, cancelled>>
dbVars    == <<users, doubtful, conflicts>>
cacheVars == <<write, idOf, emailOf>>
loginVars == <<login, before>>
vars == <<mu, callVars, dbVars, task, cacheVars, loginVars, faults>>

-----------------------------------------------------------------------------
Code == {"none", "success", "exist", "param", "system"}

CallPC == {"new", "lock", "check", "hash", "create", "submit", "unlock", "return", "done"}

WriteState == {"none", "id", "email", "written", "failed", "skipped"}

Answer == [code : {"new", "begun", "success", "password", "system"}, user : Requests \cup {Nobody}]

\* The pool is never closed by this program.
Pool == INSTANCE TaskPool WITH
  Calls <- Requests, status <- task, open <- TRUE, drained <- FALSE

TypeOK ==
  /\ mu \in [Nodes -> [Shards -> Requests \cup {Nobody}]]
  /\ pc \in [Requests -> CallPC]
  /\ result \in [Requests -> Code]
  /\ ctxDone \in [Requests -> BOOLEAN]
  /\ cancelled \subseteq Requests
  /\ users \subseteq Requests
  /\ doubtful \subseteq Requests
  /\ conflicts \subseteq Requests
  /\ Pool!TypeOK
  /\ write \in [Requests -> WriteState]
  /\ idOf \in [Emails -> Requests \cup {Nobody}]
  /\ emailOf \in [Requests -> Emails \cup {Nobody}]
  /\ login \in [Logins -> Answer]
  /\ before \in [Logins -> SUBSET Requests]
  /\ faults \in 0 .. MaxFaults

Init ==
  /\ mu = [n \in Nodes |-> [s \in Shards |-> Nobody]]
  /\ pc = [r \in Requests |-> "new"]
  /\ result = [r \in Requests |-> "none"]
  /\ ctxDone = [r \in Requests |-> FALSE]
  /\ cancelled = {}
  /\ users = {} /\ doubtful = {} /\ conflicts = {}
  /\ Pool!Init
  /\ write = [r \in Requests |-> "none"]
  /\ idOf = [e \in Emails |-> Nobody]
  /\ emailOf = [r \in Requests |-> Nobody]
  /\ login = [l \in Logins |-> [code |-> "new", user |-> Nobody]]
  /\ before = [l \in Logins |-> {}]
  /\ faults = 0

-----------------------------------------------------------------------------
(* Register *)

Shard(r) == shard[email[r]]

\* Rows that MySQL takes to have the email of call x.
Rows(x) == {u \in users : same[email[u]] = same[email[x]]}

Fault == faults < MaxFaults /\ faults' = faults + 1

Goto(r, l) == pc' = [pc EXCEPT ![r] = l]

\* The answer is decided; the deferred calls follow.
Reply(r, code, l) ==
  /\ Goto(r, l)
  /\ result' = [result EXCEPT ![r] = code]
  /\ UNCHANGED <<ctxDone, cancelled>>

Continue(r, l) == Goto(r, l) /\ UNCHANGED <<result, ctxDone, cancelled>>

Begin(r) ==
  /\ pc[r] = "new"
  /\ IF r \in Blank THEN Reply(r, "param", "return") ELSE Continue(r, "lock")
  /\ UNCHANGED <<mu, dbVars, task, cacheVars, loginVars, faults>>

\* Mutant of Lock: the mutex is a different one for every call.
LockPrivate(r) ==
  /\ pc[r] = "lock" /\ Continue(r, "check")
  /\ mu' = [mu EXCEPT ![node[r]][Shard(r)] = r]
  /\ UNCHANGED <<dbVars, task, cacheVars, loginVars, faults>>

\* UserShardLock.Lock does not look at the context.
Lock(r) ==
  /\ pc[r] = "lock" /\ mu[node[r]][Shard(r)] = Nobody
  /\ mu' = [mu EXCEPT ![node[r]][Shard(r)] = r]
  /\ Continue(r, "check")
  /\ UNCHANGED <<dbVars, task, cacheVars, loginVars, faults>>

\* checkEmailExist counts the rows with this email; a query fails at once on a
\* context that has ended, and may fail or run into its second at any time.
Check(r) ==
  /\ pc[r] = "check"
  /\ \/ ctxDone[r] /\ Reply(r, "system", "unlock") /\ UNCHANGED faults
     \/ ~ctxDone[r] /\ Fault /\ Reply(r, "system", "unlock")
     \/ ~ctxDone[r] /\ Rows(r) # {} /\ Reply(r, "exist", "unlock") /\ UNCHANGED faults
     \/ ~ctxDone[r] /\ Rows(r) = {} /\ Continue(r, "hash") /\ UNCHANGED faults
  /\ UNCHANGED <<mu, dbVars, task, cacheVars, loginVars>>

\* bcrypt refuses passwords of more than 72 bytes.
Hash(r) ==
  /\ pc[r] = "hash"
  /\ Continue(r, "create") \/ Reply(r, "system", "unlock")
  /\ UNCHANGED <<mu, dbVars, task, cacheVars, loginVars, faults>>

-----------------------------------------------------------------------------
(* The insert.  Until a commit in doubt is resolved its index entry is locked. *)

Contended(r) == \E p \in doubtful : same[email[p]] = same[email[r]]

\* Mutant of Insertable: the unique index on email is missing.
InsertableUnindexed(r) == ~ctxDone[r]

Insertable(r) == ~ctxDone[r] /\ ~Contended(r) /\ Rows(r) = {}

\* Mutant of Create: the error of the insert is not looked at.
CreateUnchecked(r) ==
  /\ pc[r] = "create"
  /\ Continue(r, "submit")
  /\ users' = IF Insertable(r) THEN users \cup {r} ELSE users
  /\ UNCHANGED <<mu, doubtful, conflicts, task, cacheVars, loginVars, faults>>

\* The row is committed; or the index refuses it; or the commit is in doubt, the
\* caller having lost its connection or its two seconds; or nothing happens.
Create(r) ==
  /\ pc[r] = "create"
  /\ \/ /\ Insertable(r)
        /\ users' = users \cup {r}
        /\ Continue(r, "submit")
        /\ UNCHANGED <<doubtful, conflicts, faults>>
     \/ /\ ~ctxDone[r] /\ Rows(r) # {}
        /\ conflicts' = conflicts \cup {r}
        /\ Reply(r, "system", "unlock")
        /\ UNCHANGED <<users, doubtful, faults>>
     \/ /\ Insertable(r) /\ Fault
        /\ doubtful' = doubtful \cup {r}
        /\ Reply(r, "system", "unlock")
        /\ UNCHANGED <<users, conflicts>>
     \/ /\ (ctxDone[r] /\ UNCHANGED faults) \/ Fault
        /\ Reply(r, "system", "unlock")
        /\ UNCHANGED dbVars
  /\ UNCHANGED <<mu, task, cacheVars, loginVars>>

\* MySQL ends a commit nobody waits for any more, either way.
Resolve(r) ==
  /\ r \in doubtful
  /\ doubtful' = doubtful \ {r}
  /\ users' \in {users, users \cup {r}}
  /\ UNCHANGED <<mu, callVars, conflicts, task, cacheVars, loginVars, faults>>

-----------------------------------------------------------------------------
(* The rest of Register *)

\* SubmitWithRetry, its sleeps included, while the lock is held.  Whatever it
\* returns, the registration has succeeded.
Submit(r) ==
  /\ pc[r] = "submit"
  /\ Pool!Accept(r) \/ Pool!Refuse(r)
  /\ Reply(r, "success", "unlock")
  /\ UNCHANGED <<mu, dbVars, cacheVars, loginVars, faults>>

\* Mutant of Unlock: it is no deferred call, an error returns without it.
UnlockOnSuccess(r) ==
  /\ pc[r] = "unlock" /\ Continue(r, "return")
  /\ mu' = IF result[r] = "success" THEN [mu EXCEPT ![node[r]][Shard(r)] = Nobody] ELSE mu
  /\ UNCHANGED <<dbVars, task, cacheVars, loginVars, faults>>

Unlock(r) ==
  /\ pc[r] = "unlock"
  /\ mu' = [mu EXCEPT ![node[r]][Shard(r)] = Nobody]
  /\ Continue(r, "return")
  /\ UNCHANGED <<dbVars, task, cacheVars, loginVars, faults>>

\* gRPC ends the context of a call when its handler has returned.
Return(r) ==
  /\ pc[r] = "return"
  /\ Goto(r, "done")
  /\ ctxDone' = [ctxDone EXCEPT ![r] = TRUE]
  /\ UNCHANGED <<mu, result, cancelled, dbVars, task, cacheVars, loginVars, faults>>

\* The client goes away, or its deadline passes.
Cancel(r) ==
  /\ pc[r] \notin {"new", "done"} /\ ~ctxDone[r]
  /\ Cardinality(cancelled) < MaxCancels
  /\ ctxDone' = [ctxDone EXCEPT ![r] = TRUE]
  /\ cancelled' = cancelled \cup {r}
  /\ UNCHANGED <<mu, pc, result, dbVars, task, cacheVars, loginVars, faults>>

-----------------------------------------------------------------------------
(* The cache task, and SetUserCache *)

\* The closure made by Submit looks at the context of the request.
StartTask(r) ==
  /\ Pool!Start(r)
  /\ write' = [write EXCEPT ![r] = IF ctxDone[r] THEN "skipped" ELSE "id"]
  /\ UNCHANGED <<mu, callVars, dbVars, idOf, emailOf, loginVars, faults>>

Written(r, l) ==
  /\ write' = [write EXCEPT ![r] = l]
  /\ UNCHANGED <<mu, callVars, dbVars, task, loginVars>>

\* The pipeline is no transaction: Redis runs its two SETs one by one.
SetID(r) ==
  /\ write[r] = "id" /\ Written(r, "email")
  /\ idOf' = [idOf EXCEPT ![email[r]] = r]
  /\ UNCHANGED <<emailOf, faults>>

\* Mutant of SetEmail: key and value of the second SET are swapped.
SetEmailSwapped(r) ==
  /\ write[r] = "email" /\ Written(r, "written")
  /\ emailOf' = [emailOf EXCEPT ![r] = r]
  /\ UNCHANGED <<idOf, faults>>

SetEmail(r) ==
  /\ write[r] = "email" /\ Written(r, "written")
  /\ emailOf' = [emailOf EXCEPT ![r] = email[r]]
  /\ UNCHANGED <<idOf, faults>>

\* The pipeline is not sent on a context that has ended; later it breaks off.
PipelineFails(r) ==
  /\ \/ write[r] = "id" /\ ctxDone[r] /\ UNCHANGED faults
     \/ write[r] \in {"id", "email"} /\ Fault
  /\ Written(r, "failed")
  /\ UNCHANGED <<idOf, emailOf>>

EndTask(r) ==
  /\ write[r] \in {"written", "failed", "skipped"}
  /\ Pool!Finish(r)
  /\ UNCHANGED <<mu, callVars, dbVars, cacheVars, loginVars, faults>>

\* A day has passed since the mappings of r were written.
Expire(r) ==
  /\ \/ /\ idOf[email[r]] = r
        /\ idOf' = [idOf EXCEPT ![email[r]] = Nobody] /\ UNCHANGED emailOf
     \/ /\ emailOf[r] # Nobody
        /\ emailOf' = [emailOf EXCEPT ![r] = Nobody] /\ UNCHANGED idOf
  /\ UNCHANGED <<mu, callVars, dbVars, task, write, loginVars, faults>>

-----------------------------------------------------------------------------
(* Login *)

BeginLogin(l) ==
  /\ login[l].code = "new"
  /\ login' = [login EXCEPT ![l].code = "begun"]
  /\ before' = [before EXCEPT ![l] = {r \in Requests : result[r] = "success"}]
  /\ UNCHANGED <<mu, callVars, dbVars, task, cacheVars, faults>>

Answered(l, code, u) ==
  /\ login[l].code = "begun"
  /\ login' = [login EXCEPT ![l] = [code |-> code, user |-> u]]
  /\ UNCHANGED <<mu, callVars, before, dbVars, task, cacheVars>>

\* Mutant of Login: the user is looked up in the cache, a miss is a refusal.
LoginCached(l) ==
  /\ LET u == idOf[email[l]]
     IN  IF u # Nobody /\ password[u] = password[l]
         THEN Answered(l, "success", u) ELSE Answered(l, "password", Nobody)
  /\ UNCHANGED faults

\* A query that fails is taken for a user that does not exist.
Login(l) ==
  \/ \E u \in Rows(l) :
       /\ password[u] = password[l]
       /\ \/ Answered(l, "success", u) /\ UNCHANGED faults
          \/ Answered(l, "system", Nobody) /\ Fault
  \/ /\ \A u \in Rows(l) : password[u] # password[l]
     /\ Answered(l, "password", Nobody) /\ UNCHANGED faults
  \/ Answered(l, "password", Nobody) /\ Fault

-----------------------------------------------------------------------------
Register(r) ==
  Begin(r) \/ Lock(r) \/ Check(r) \/ Hash(r) \/ Create(r) \/ Submit(r) \/ Unlock(r) \/ Return(r)

CacheTask(r) == StartTask(r) \/ SetID(r) \/ SetEmail(r) \/ PipelineFails(r) \/ EndTask(r)

\* Every call has been answered and every task has ended.
AllDone ==
  /\ \A r \in Requests : pc[r] = "done" /\ task[r] \in {"unsubmitted", "refused", "finished"}
  /\ doubtful = {}
  /\ \A l \in Logins : login[l].code \notin {"new", "begun"}
  /\ UNCHANGED vars

Next ==
  \/ \E r \in Requests : Register(r) \/ CacheTask(r) \/ Cancel(r) \/ Resolve(r) \/ Expire(r)
  \/ \E l \in Logins : BeginLogin(l) \/ Login(l)
  \/ AllDone

Spec == Init /\ [][Next]_vars

\* A call that has begun goes on: queries end within their timeout, MySQL ends
\* its commits, and a mutex that is free is taken by one of those that wait.
Fairness ==
  \A r \in Requests : WF_vars(pc[r] # "new" /\ Register(r)) /\ WF_vars(Resolve(r))

FairSpec == Spec /\ Fairness

-----------------------------------------------------------------------------
(* Properties *)

\* Emails are unique in the user table, whatever the interleaving of calls on
\* several processes, however a commit in doubt ends, and for MySQL's idea of
\* equal; and the user of a registration that was reported stays in the table.
OneUserPerEmail ==
  /\ \A u, v \in users : same[email[u]] = same[email[v]] => u = v
  /\ \A r \in Requests : result[r] = "success" => r \in users

\* What the shard lock is for: in one process two registrations of one email
\* never meet in the index, unless the commit of the first was in doubt.
LockPreventsConflicts ==
  \A r \in conflicts : \A u \in Rows(r) :
    node[u] = node[r] /\ email[u] = email[r] => result[u] = "system"

\* The cache is never ahead of the table: both mappings, whenever and however
\* partially they were written, name a stored user and that user's email.
CacheSound ==
  /\ \A e \in Emails : idOf[e] # Nobody => idOf[e] \in users /\ email[idOf[e]] = e
  /\ \A u \in Requests : emailOf[u] # Nobody => u \in users /\ emailOf[u] = email[u]

\* A login with the email and password of a registration that was reported
\* before it began succeeds as that user, unless the database fails.
LoginFindsUser ==
  [][\A l \in Logins : \A r \in before[l] :
       login'[l] # login[l] /\ email[r] = email[l] /\ password[r] = password[l]
         => faults' # faults \/ login'[l] = [code |-> "success", user |-> r]]_vars

\* Every call of Register that has begun returns and lets the lock go, also when
\* the database fails and the client is gone.
RegisterReturns == \A r \in Requests : pc[r] = "lock" ~> pc[r] = "done"

=============================================================================
