-------------------------------- MODULE HotReload --------------------------------
(***************************************************************************)
(* The configuration of one process: Init of utils/config/viper.go, which  *)
(* leaves a goroutine decoding the file, whenever it changes, into the one *)
(* Config that all readers share; NewRedisLock, which copies its section   *)
(* of it at any time; and the JWT functions, which copy theirs at start.   *)
(* The file's contents are a version number, and the value of a field is   *)
(* the version it comes from.                                              *)
(***************************************************************************)

EXTENDS Naturals, FiniteSetsExt

CONSTANTS
  MaxVersion,   \* bound of the model: changes of the file
  Unusable,     \* Unusable[v]: fields missing or of a wrong type in version v
  TokenLife,    \* jwtExpire, in ticks
  Zero,         \* the zero value of a field
  Partial,      \* the file while it is being written
  Empty         \* what viper may hold when it has read it so

LockFields == {"LockExpire", "LockRenew"}
Field == LockFields \cup {"Secret"}
Version == 0 .. MaxVersion

ASSUME ReloadAssumption ==
  /\ MaxVersion \in Nat /\ TokenLife \in Nat \ {0}
  /\ Unusable \in [Version -> SUBSET Field] /\ Unusable[0] = {}
  /\ {Zero, Partial, Empty} \cap Version = {}
  /\ Zero # Partial /\ Partial # Empty /\ Empty # Zero

VARIABLES
  file,      \* its version, or Partial
  writes,    \* the last version somebody has begun to write
  boot,      \* the start: "read", "decode", "watch", "register", "jwt", then "done"
  stored,    \* what viper holds
  event,     \* fsnotify has something for viper's goroutine
  watcher,   \* that goroutine: "off", "wait", "notify" or "decode"
  todo,      \* fields that the Unmarshal under way has not come to
  live,      \* live[f]: the field f of Config
  applied,   \* versions whose decoding has begun
  missed,    \* the file has changed since it was read, and before OnConfigChange
  lock,      \* lock[f]: what NewRedisLock has copied
  toCopy,    \* fields it has still to copy
  torn,      \* an Unmarshal has been under way in the meantime
  jwtSecret,
  token      \* token.secret, and token.left: ticks until it expires

configVars == <<stored, watcher, todo, live, applied, missed>>
lockVars == <<lock, toCopy, torn>>
jwtVars == <<jwtSecret, token>>
vars == <<file, writes, boot, event, configVars, lockVars, jwtVars>>

TypeOK ==
  /\ file \in Version \cup {Partial} /\ writes \in Version
  /\ boot \in {"read", "decode", "watch", "register", "jwt", "done"}
  /\ stored \in Version \cup {Zero, Empty}
  /\ event \in BOOLEAN /\ missed \in BOOLEAN /\ torn \in BOOLEAN
  /\ watcher \in {"off", "wait", "notify", "decode"}
  /\ watcher = "off" <=> boot \in {"read", "decode", "watch"}
  /\ todo \subseteq Field /\ (todo # {} => watcher = "decode")
  /\ live \in [Field -> Version \cup {Zero}]
  /\ applied \subseteq Version
  /\ lock \in [LockFields -> Version \cup {Zero}] /\ toCopy \subseteq LockFields
  /\ jwtSecret \in Version \cup {Zero}
  /\ token \in [secret : Version \cup {Zero}, left : 0 .. TokenLife]

Init ==
  /\ file = 0 /\ writes = 0 /\ boot = "read" /\ event = FALSE
  /\ stored = Zero /\ watcher = "off" /\ todo = {} /\ applied = {} /\ missed = FALSE
  /\ live = [f \in Field |-> Zero]
  /\ lock = [f \in LockFields |-> Zero] /\ toCopy = {} /\ torn = FALSE
  /\ jwtSecret = Zero /\ token = [secret |-> Zero, left |-> 0]

Usable(v) == IF v \in Version THEN Field \ Unusable[v] ELSE {}

-----------------------------------------------------------------------------
(* The file *)

\* Somebody truncates the file, and writes a new version.  The start reads it whole.
Truncate ==
  /\ boot # "read" /\ file # Partial /\ writes < MaxVersion
  /\ file' = Partial /\ writes' = writes + 1
  /\ event' = (event \/ watcher # "off")
  /\ UNCHANGED <<boot, configVars, lockVars, jwtVars>>

Write ==
  /\ file = Partial /\ file' = writes
  /\ event' = (event \/ watcher # "off")
  /\ missed' = (boot \in {"decode", "watch", "register"})
  /\ UNCHANGED <<writes, boot, stored, watcher, todo, live, applied, lockVars, jwtVars>>

-----------------------------------------------------------------------------
(* Init, up to jwt.Init *)

ReadInConfig ==
  /\ boot = "read" /\ boot' = "decode" /\ stored' = file
  /\ UNCHANGED <<file, writes, event, watcher, todo, live, applied, missed, lockVars, jwtVars>>

Unmarshal ==
  /\ boot = "decode" /\ boot' = "watch"
  /\ live' = [f \in Field |-> stored] /\ applied' = {stored}
  /\ UNCHANGED <<file, writes, event, stored, watcher, todo, missed, lockVars, jwtVars>>

WatchConfig ==
  /\ boot = "watch" /\ boot' = "register" /\ watcher' = "wait"
  /\ UNCHANGED <<file, writes, event, stored, todo, live, applied, missed, lockVars, jwtVars>>

OnConfigChange ==
  /\ boot = "register" /\ boot' = "jwt"
  /\ UNCHANGED <<file, writes, event, configVars, lockVars, jwtVars>>

JWTInit ==
  /\ boot = "jwt" /\ boot' = "done" /\ jwtSecret' = live["Secret"]
  /\ UNCHANGED <<file, writes, event, configVars, lockVars, token>>

-----------------------------------------------------------------------------
(* viper's goroutine *)

\* It reads the file again.  Of one being written it makes an empty one, or an
\* error that leaves things as they are.
Reread ==
  /\ watcher = "wait" /\ event /\ event' = FALSE
  /\ stored' \in IF file = Partial THEN {stored, Empty} ELSE {file}
  /\ watcher' = "notify"
  /\ UNCHANGED <<file, writes, boot, todo, live, applied, missed, lockVars, jwtVars>>

\* Mutant of Notify: the callback decodes into a Config that it has emptied.
NotifyEmptied ==
  /\ watcher = "notify" /\ boot \in {"jwt", "done"} /\ watcher' = "decode"
  /\ todo' = Usable(stored) /\ applied' = applied \cup ({stored} \cap Version)
  /\ live' = [f \in Field |-> Zero]
  /\ torn' = (torn \/ toCopy # {})
  /\ UNCHANGED <<file, writes, boot, event, stored, missed, lock, toCopy, jwtVars>>

\* It calls the callback, once there is one.
Notify ==
  /\ watcher = "notify"
  /\ \/ /\ boot = "register" /\ watcher' = "wait"
        /\ UNCHANGED <<todo, applied, torn>>
     \/ /\ boot \in {"jwt", "done"} /\ watcher' = "decode"
        /\ todo' = Usable(stored) /\ applied' = applied \cup ({stored} \cap Version)
        /\ torn' = (torn \/ toCopy # {})
  /\ UNCHANGED <<file, writes, boot, event, stored, live, missed, lock, toCopy, jwtVars>>

\* Mutant of DecodeField: the callback decodes into a Config of its own.
DecodeElsewhere(f) ==
  /\ f \in todo /\ todo' = todo \ {f}
  /\ UNCHANGED <<file, writes, boot, event, stored, watcher, live, applied, missed, lockVars, jwtVars>>

\* Mutant of DecodeField: an error ends the decoding.
DecodeUntilError(f) ==
  /\ f \in todo /\ live' = [live EXCEPT ![f] = stored]
  /\ todo' = IF Unusable[stored] = {} THEN todo \ {f} ELSE {}
  /\ UNCHANGED <<file, writes, boot, event, stored, watcher, applied, missed, lockVars, jwtVars>>

\* One field is decoded in place; the fields that are missing or wrong are kept.
DecodeField(f) ==
  /\ f \in todo /\ todo' = todo \ {f}
  /\ live' = [live EXCEPT ![f] = stored]
  /\ UNCHANGED <<file, writes, boot, event, stored, watcher, applied, missed, lockVars, jwtVars>>

Decoded ==
  /\ watcher = "decode" /\ todo = {} /\ watcher' = "wait"
  /\ UNCHANGED <<file, writes, boot, event, stored, todo, live, applied, missed, lockVars, jwtVars>>

-----------------------------------------------------------------------------
(* NewRedisLock *)

NewRedisLock ==
  /\ boot = "done" /\ toCopy = {} /\ toCopy' = LockFields
  /\ torn' = (watcher = "decode")
  /\ UNCHANGED <<file, writes, boot, event, configVars, lock, jwtVars>>

\* The section is copied without a lock, word by word.
CopyField(f) ==
  /\ f \in toCopy /\ toCopy' = toCopy \ {f}
  /\ lock' = [lock EXCEPT ![f] = live[f]]
  /\ UNCHANGED <<file, writes, boot, event, configVars, torn, jwtVars>>

-----------------------------------------------------------------------------
(* JWT *)

GenerateToken ==
  /\ boot = "done" /\ token' = [secret |-> jwtSecret, left |-> TokenLife]
  /\ UNCHANGED <<file, writes, boot, event, configVars, lockVars, jwtSecret>>

Tick ==
  /\ token.left > 0 /\ token' = [token EXCEPT !.left = @ - 1]
  /\ UNCHANGED <<file, writes, boot, event, configVars, lockVars, jwtSecret>>

\* Mutant of ParseToken: the secret is the one in Config now.
ParseTokenLive == token.left > 0 /\ token.secret = live["Secret"]

ParseToken == token.left > 0 /\ token.secret = jwtSecret

Next ==
  \/ Truncate \/ Write \/ ReadInConfig \/ Unmarshal \/ WatchConfig \/ OnConfigChange \/ JWTInit
  \/ Reread \/ Notify \/ Decoded \/ NewRedisLock \/ GenerateToken \/ Tick
  \/ (\E f \in Field : DecodeField(f)) \/ \E f \in LockFields : CopyField(f)

\* The goroutine runs.
Fairness == WF_vars(Reread) /\ WF_vars(Notify) /\ WF_vars(Decoded) /\ \A f \in Field : WF_vars(DecodeField(f))

Spec == Init /\ [][Next]_vars
FairSpec == Spec /\ Fairness

-----------------------------------------------------------------------------
(* Properties *)

\* A change of the file reaches the structure that the readers share, with every
\* field it has, unless it falls between the first reading and OnConfigChange.
Applied ==
  boot = "done" /\ ~missed
    ~> file = Partial \/ missed \/ \A f \in Usable(file) : live[f] = file

\* The settings after version v: of each field, the last usable value up to it.
AsOf(v) == [f \in LockFields |-> Max({u \in applied : u <= v /\ f \in Usable(u)})]

\* A lock has the expiry and the renewal interval of one state of the file, unless
\* NewRedisLock has copied them while they were being decoded.
LockSettingsFit ==
  boot = "done" /\ toCopy = {} /\ ~torn /\ lock["LockExpire"] # Zero
    => \E v \in applied : lock = AsOf(v)

\* At no moment, in the middle of a reload and while the file is being written too,
\* does a reader find a field empty: a renewal interval of zero makes
\* time.NewTicker panic, and an expiry of zero gives the lock a key without one.
NeverEmpty == boot = "done" => \A f \in Field : live[f] # Zero

\* A token is honoured until it expires by the process that has issued it, however
\* often the file changes.
TokenHonoured == token.left > 0 => ParseToken
==================================================================================
