----------------------------- MODULE HotReloadProofs -----------------------------
(***************************************************************************)
(* The safety of HotReload for any number of versions of the file and any  *)
(* fields that are unusable in them.                                       *)
(***************************************************************************)

EXTENDS HotReload, TLAPS

-----------------------------------------------------------------------------
(* The inductive invariant *)

\* A file that is whole is the last one written; the start reads version 0.
Files ==
  /\ file \in Version => file = writes
  /\ boot = "read" => file = 0
  /\ boot = "decode" => stored = 0
  /\ boot # "read" => stored # Zero
  /\ stored \in Version => stored <= writes
  /\ \A u \in applied : u <= writes

Loaded == boot \notin {"read", "decode"}

\* What is being decoded is the latest version applied.
Decoding ==
  /\ todo # {} => stored \in applied /\ todo \subseteq Usable(stored)
  /\ stored \in Version => \A u \in applied : u <= stored
  /\ Loaded => \E v \in applied : \A u \in applied : u <= v
  /\ ~Loaded => applied = {}

\* x is, up to version v, the latest version applied in which f can be used.
Latest(x, f, v) ==
  /\ x \in applied /\ x <= v /\ f \in Usable(x)
  /\ \A u \in applied : u <= v /\ f \in Usable(u) => u <= x

\* A field that is not about to be decoded has its latest value.
LiveFields ==
  Loaded => /\ \A f \in Field : live[f] \in Version
            /\ \A f \in Field \ todo : Latest(live[f], f, MaxVersion)

\* A copy that no reload disturbs is a copy of what the structure holds.
Copying ==
  toCopy # {} /\ ~torn =>
    /\ watcher # "decode" /\ Loaded
    /\ \A f \in LockFields \ toCopy : lock[f] = live[f]

Copied ==
  toCopy = {} /\ ~torn /\ lock["LockExpire"] # Zero =>
    \E v \in applied : \A f \in LockFields : Latest(lock[f], f, v)

\* Tokens are signed with the secret that jwt.Init has copied.
Tokens == /\ token.left > 0 => boot = "done"
          /\ TokenHonoured

IInv == TypeOK /\ Files /\ Decoding /\ LiveFields /\ Copying /\ Copied /\ Tokens

-----------------------------------------------------------------------------
(* The initial state, and the kinds of steps *)

\* TypeOK has two parts, which need different provers: the flags, and the rest.
Flags == event \in BOOLEAN /\ missed \in BOOLEAN /\ torn \in BOOLEAN

Types ==
  /\ file \in Version \cup {Partial} /\ writes \in Version
  /\ boot \in {"read", "decode", "watch", "register", "jwt", "done"}
  /\ stored \in Version \cup {Zero, Empty}
  /\ watcher \in {"off", "wait", "notify", "decode"}
  /\ watcher = "off" <=> boot \in {"read", "decode", "watch"}
  /\ todo \subseteq Field /\ (todo # {} => watcher = "decode")
  /\ live \in [Field -> Version \cup {Zero}]
  /\ applied \subseteq Version
  /\ lock \in [LockFields -> Version \cup {Zero}] /\ toCopy \subseteq LockFields
  /\ jwtSecret \in Version \cup {Zero}
  /\ token \in [secret : Version \cup {Zero}, left : 0 .. TokenLife]


LEMMA InitIInv == Init => IInv
<1> USE ReloadAssumption DEF ReloadAssumption, Version
<1> SUFFICES ASSUME Init
             PROVE  IInv
  OBVIOUS
<1>1. TypeOK
  <2>1. Types
    BY DEF Init, Types, Field, LockFields
  <2>2. Flags
    BY Zenon DEF Init, Flags
  <2> QED
    BY <2>1, <2>2 DEF TypeOK, Types, Flags
<1>2. Files /\ Decoding /\ LiveFields
  BY DEF Init, Files, Decoding, LiveFields, Loaded
<1>3. Copying /\ Copied
  BY DEF Init, Copying, Copied, LockFields
<1>4. Tokens
  BY DEF Init, Tokens, TokenHonoured
<1> QED
  BY <1>1, <1>2, <1>3, <1>4 DEF IInv

FileStep == Truncate \/ Write
StartStep == ReadInConfig \/ Unmarshal \/ WatchConfig \/ OnConfigChange \/ JWTInit
WatchStep == Reread \/ Notify \/ Decoded \/ \E f \in Field : DecodeField(f)
LockStep == NewRedisLock \/ \E f \in LockFields : CopyField(f)
TokenStep == GenerateToken \/ Tick

LEMMA Steps == [Next]_vars => FileStep \/ StartStep \/ WatchStep \/ LockStep \/ TokenStep \/ UNCHANGED vars
BY DEF Next, FileStep, StartStep, WatchStep, LockStep, TokenStep

-----------------------------------------------------------------------------
(* The file *)

LEMMA FileKeeps == IInv /\ FileStep => IInv'
<1> USE ReloadAssumption DEF ReloadAssumption, Version
<1> SUFFICES ASSUME IInv, FileStep
             PROVE  IInv'
  OBVIOUS
<1>1. UNCHANGED <<boot, lockVars, jwtVars, stored, watcher, todo, live, applied>>
  BY DEF FileStep, Truncate, Write, configVars
<1>2. TypeOK'
  <2>1. Types'
    BY <1>1 DEF IInv, TypeOK, Types, FileStep, Truncate, Write, lockVars, jwtVars
  <2>2. event' \in BOOLEAN /\ torn' = torn
    BY <1>1, Zenon DEF FileStep, Truncate, Write, lockVars
  <2>3. missed' \in BOOLEAN
    <3>1. CASE Truncate
      BY <3>1 DEF IInv, TypeOK, Truncate, configVars
    <3>2. CASE Write
      BY <3>2 DEF Write
    <3> QED
      BY <3>1, <3>2 DEF FileStep
  <2> QED
    BY <2>1, <2>2, <2>3 DEF IInv, TypeOK, Flags, Types
<1>3. Files'
  BY <1>1 DEF IInv, TypeOK, Files, FileStep, Truncate, Write
<1>4. Decoding' /\ LiveFields' /\ Copying' /\ Copied' /\ Tokens'
  BY <1>1 DEF IInv, Decoding, LiveFields, Loaded, Latest, Usable, Copying, Copied, Tokens,
              TokenHonoured, ParseToken, lockVars, jwtVars
<1> QED
  BY <1>2, <1>3, <1>4 DEF IInv

-----------------------------------------------------------------------------
(* The start *)

LEMMA StartKeeps == IInv /\ StartStep => IInv'
<1> USE ReloadAssumption DEF ReloadAssumption, Version
<1> SUFFICES ASSUME IInv, StartStep
             PROVE  IInv'
  OBVIOUS
<1>1. TypeOK'
  <2>1. UNCHANGED <<event, missed, torn>>
    BY DEF StartStep, ReadInConfig, Unmarshal, WatchConfig, OnConfigChange, JWTInit, configVars, lockVars
  <2>2. CASE ReadInConfig
    BY <2>1, <2>2 DEF IInv, TypeOK, Files, ReadInConfig, lockVars, jwtVars
  <2>5. CASE WatchConfig
    BY <2>1, <2>5 DEF IInv, TypeOK, WatchConfig, lockVars, jwtVars
  <2>6. CASE OnConfigChange
    BY <2>1, <2>6 DEF IInv, TypeOK, OnConfigChange, configVars, lockVars, jwtVars
  <2>3. CASE Unmarshal
    BY <2>1, <2>3 DEF IInv, TypeOK, Files, Unmarshal, lockVars, jwtVars
  <2>4. CASE JWTInit
    BY <2>1, <2>4 DEF IInv, TypeOK, JWTInit, configVars, lockVars, Field
  <2> QED
    BY <2>2, <2>3, <2>4, <2>5, <2>6 DEF StartStep
<1>2. Files'
  <2>1. CASE ReadInConfig
    BY <2>1 DEF IInv, TypeOK, Files, ReadInConfig
  <2>2. CASE Unmarshal
    BY <2>2 DEF IInv, TypeOK, Files, Unmarshal
  <2>3. CASE WatchConfig
    BY <2>3 DEF IInv, Files, WatchConfig
  <2>4. CASE OnConfigChange
    BY <2>4 DEF IInv, Files, OnConfigChange, configVars
  <2>5. CASE JWTInit
    BY <2>5 DEF IInv, Files, JWTInit, configVars
  <2> QED
    BY <2>1, <2>2, <2>3, <2>4, <2>5 DEF StartStep
<1>3. Decoding' /\ LiveFields'
  <2>1. CASE Unmarshal
    BY <2>1 DEF IInv, TypeOK, Files, Decoding, LiveFields, Loaded, Latest, Usable, Unmarshal, Field
  <2>2. CASE ~Unmarshal
    <3>1. Loaded' = Loaded /\ UNCHANGED <<todo, live, applied>> /\ (Loaded => stored' = stored)
      BY <2>2 DEF StartStep, ReadInConfig, WatchConfig, OnConfigChange, JWTInit, configVars, Loaded
    <3> QED
      BY <3>1 DEF IInv, TypeOK, Decoding, LiveFields, Latest, Usable, StartStep, ReadInConfig
  <2> QED
    BY <2>1, <2>2
<1>4. Copying' /\ Copied'
  <2>1. UNCHANGED lockVars
    BY DEF StartStep, ReadInConfig, Unmarshal, WatchConfig, OnConfigChange, JWTInit
  <2>2. CASE Unmarshal
    <3>1. ~Loaded /\ applied = {}
      BY <2>2 DEF IInv, Decoding, Loaded, Unmarshal
    <3> QED
      BY <2>1, <3>1 DEF IInv, Copying, Copied, lockVars
  <2>3. CASE ~Unmarshal
    <3>1. /\ UNCHANGED <<live, applied>> /\ (Loaded => Loaded')
          /\ watcher' = watcher \/ watcher' = "wait"
      BY <2>3 DEF StartStep, ReadInConfig, WatchConfig, OnConfigChange, JWTInit, configVars, Loaded
    <3> QED
      BY <2>1, <3>1 DEF IInv, Copying, Copied, Latest, Usable, lockVars
  <2> QED
    BY <2>2, <2>3
<1>5. Tokens'
  BY DEF IInv, Tokens, TokenHonoured, ParseToken, StartStep, ReadInConfig, Unmarshal, WatchConfig,
         OnConfigChange, JWTInit, jwtVars
<1> QED
  BY <1>1, <1>2, <1>3, <1>4, <1>5 DEF IInv

-----------------------------------------------------------------------------
(* viper's goroutine *)

\* A version that is applied after all others is the latest for the fields it has,
\* and changes nothing for those it has not.
LEMMA LatestKept ==
  ASSUME TypeOK, NEW s \in Version \ applied, \A u \in applied : u <= s,
         applied' = applied \cup {s}, NEW x, NEW f, NEW v \in applied, Latest(x, f, v)
  PROVE  Latest(x, f, v)'
BY ReloadAssumption DEF ReloadAssumption, Version, TypeOK, Latest, Usable

LEMMA WatchTypes == IInv /\ WatchStep => TypeOK' /\ Files'
<1> USE ReloadAssumption DEF ReloadAssumption, Version
<1> SUFFICES ASSUME IInv, WatchStep
             PROVE  TypeOK' /\ Files'
  OBVIOUS
<1>1. UNCHANGED <<file, writes, boot, missed, lock, toCopy, jwtVars>>
  BY DEF WatchStep, Reread, Notify, Decoded, DecodeField, lockVars, jwtVars
<1>2. CASE Reread
  <2>1. stored' \in {stored, Empty} \/ (file \in Version /\ stored' = file)
    BY <1>2 DEF IInv, TypeOK, Reread
  <2>2. Types'
    BY <1>1, <1>2, <2>1 DEF IInv, TypeOK, Types, Files, Reread, lockVars, jwtVars
  <2>3. Flags'
    BY <1>2, Zenon DEF IInv, TypeOK, Flags, Reread, lockVars
  <2>4. Files'
    <3>1. boot \notin {"read", "decode"} /\ applied' = applied
      BY <1>2 DEF IInv, TypeOK, Reread
    <3> QED
      BY <1>1, <2>1, <3>1 DEF IInv, TypeOK, Files
  <2> QED
    BY <2>2, <2>3, <2>4 DEF TypeOK, Types, Flags
<1>3. CASE Notify
  <2>1. Types'
    BY <1>1, <1>3 DEF IInv, TypeOK, Types, Notify, Usable, Field, jwtVars
  <2>2. Flags'
    <3>1. torn' \in BOOLEAN
      BY <1>3, Zenon DEF IInv, TypeOK, Notify
    <3> QED
      BY <1>3, <3>1 DEF IInv, TypeOK, Flags, Notify
  <2>3. Files'
    <3>1. stored' = stored /\ \A u \in applied' : u \in applied \/ (u = stored /\ u \in Version)
      BY <1>3 DEF Notify
    <3> QED
      BY <1>1, <3>1 DEF IInv, TypeOK, Files
  <2> QED
    BY <2>1, <2>2, <2>3 DEF TypeOK, Types, Flags
<1>4. ASSUME NEW f \in Field, DecodeField(f)
      PROVE  TypeOK' /\ Files'
  <2>1. stored \in Version
    BY <1>4 DEF IInv, TypeOK, Decoding, DecodeField
  <2> QED
    BY <1>1, <1>4, <2>1 DEF IInv, TypeOK, Files, DecodeField, lockVars, jwtVars
<1>5. CASE Decoded
  BY <1>1, <1>5 DEF IInv, TypeOK, Files, Decoded, lockVars, jwtVars
<1> QED
  BY <1>2, <1>3, <1>4, <1>5 DEF WatchStep

\* The callback begins: nothing is lost for the fields that it will not decode.
LEMMA NotifyKeeps ==
  ASSUME IInv, Notify
  PROVE  Decoding' /\ LiveFields' /\ Copying' /\ Copied'
<1> USE ReloadAssumption DEF ReloadAssumption, Version
<1>1. UNCHANGED <<stored, live, lock, toCopy, boot>> /\ todo = {} /\ Loaded' = Loaded
  BY DEF IInv, TypeOK, Notify, Loaded
<1>2. CASE boot = "register" \/ stored \notin Version \/ stored \in applied
  <2>1. applied' = applied
    BY <1>2 DEF Notify
  <2>2. todo' = {} \/ (stored \in Version /\ todo' = Usable(stored))
    BY <1>1, <1>2 DEF Notify, Usable
  <2>3. Decoding'
    BY <1>1, <1>2, <2>1, <2>2 DEF IInv, Decoding, Notify, Usable
  <2>4. LiveFields'
    BY <1>1, <2>1, <2>2 DEF IInv, LiveFields, Latest, Usable
  <2>5. Copying'
    BY <1>1 DEF IInv, Copying, Notify
  <2>6. Copied'
    BY <1>1, <2>1 DEF IInv, Copied, Latest, Usable, Notify
  <2> QED
    BY <2>3, <2>4, <2>5, <2>6
<1>3. CASE boot # "register" /\ stored \in Version \ applied
  <2>1. applied' = applied \cup {stored} /\ todo' = Usable(stored) /\ torn' = (torn \/ toCopy # {})
    BY <1>3 DEF Notify
  <2>2. \A u \in applied : u <= stored
    BY <1>3 DEF IInv, Decoding
  <2>3. Loaded
    BY <1>3 DEF IInv, TypeOK, Loaded, Notify
  <2>4. Decoding'
    BY <1>1, <1>3, <2>1, <2>2, <2>3 DEF IInv, TypeOK, Decoding, Usable
  <2>5. LiveFields'
    BY <1>1, <1>3, <2>1 DEF IInv, LiveFields, Latest, Usable
  <2>6. Copying'
    BY <1>1, <2>1 DEF IInv, Copying
  <2>7. Copied'
    <3> SUFFICES ASSUME toCopy = {}, ~torn, lock["LockExpire"] # Zero
                 PROVE  \E v \in applied' : \A f \in LockFields : Latest(lock[f], f, v)'
      BY <1>1, <2>1 DEF Copied
    <3>1. PICK v \in applied : \A f \in LockFields : Latest(lock[f], f, v)
      BY DEF IInv, Copied
    <3>2. v \in applied' /\ \A f \in LockFields : Latest(lock[f], f, v)'
      BY <1>1, <1>3, <2>1, <2>2, <3>1, LatestKept DEF IInv
    <3> QED
      BY <3>2
  <2> QED
    BY <2>4, <2>5, <2>6, <2>7
<1> QED
  BY <1>2, <1>3 DEF IInv, TypeOK, Notify

\* A field that is decoded has the latest version applied.
LEMMA DecodeKeeps ==
  ASSUME IInv, NEW f \in Field, DecodeField(f)
  PROVE  Decoding' /\ LiveFields' /\ Copying' /\ Copied'
<1> USE ReloadAssumption DEF ReloadAssumption, Version
<1>1. /\ UNCHANGED <<boot, stored, watcher, applied, lockVars>> /\ watcher = "decode"
      /\ f \in todo /\ todo' = todo \ {f} /\ live' = [live EXCEPT ![f] = stored]
  BY DEF IInv, TypeOK, DecodeField
<1>2. stored \in applied /\ stored \in Version /\ f \in Usable(stored) /\ \A u \in applied : u <= stored
  BY <1>1 DEF IInv, TypeOK, Decoding
<1>3. Decoding'
  BY <1>1 DEF IInv, Decoding, Loaded, Usable
<1>4. LiveFields'
  BY <1>1, <1>2 DEF IInv, TypeOK, LiveFields, Loaded, Latest, Usable
<1>5. Copying' /\ Copied'
  BY <1>1 DEF IInv, Copying, Copied, Latest, Usable, lockVars
<1> QED
  BY <1>3, <1>4, <1>5

LEMMA WatchKeeps == IInv /\ WatchStep => IInv'
<1> USE ReloadAssumption DEF ReloadAssumption, Version
<1> SUFFICES ASSUME IInv, WatchStep
             PROVE  IInv'
  OBVIOUS
<1>1. Decoding' /\ LiveFields' /\ Copying' /\ Copied'
  <2>1. CASE Reread
    <3>1. UNCHANGED <<boot, live, applied, todo, lockVars>> /\ todo = {} /\ watcher' = "notify"
      BY <2>1 DEF IInv, TypeOK, Reread
    <3>2. stored' \in Version => \A u \in applied : u <= stored'
      BY <2>1 DEF IInv, TypeOK, Files, Decoding, Reread
    <3> QED
      BY <3>1, <3>2 DEF IInv, Decoding, LiveFields, Loaded, Latest, Usable, Copying, Copied, lockVars
  <2>2. CASE Decoded
    BY <2>2 DEF IInv, Decoding, LiveFields, Loaded, Latest, Usable, Copying, Copied, Decoded, lockVars
  <2> QED
    BY <2>1, <2>2, NotifyKeeps, DecodeKeeps DEF WatchStep
<1>2. Tokens'
  BY DEF IInv, Tokens, TokenHonoured, ParseToken, WatchStep, Reread, Notify, DecodeField, Decoded, jwtVars
<1> QED
  BY <1>1, <1>2, WatchTypes DEF IInv

-----------------------------------------------------------------------------
(* NewRedisLock, and the tokens *)

LEMMA LockKeeps == IInv /\ LockStep => IInv'
<1> USE ReloadAssumption DEF ReloadAssumption, Version
<1> SUFFICES ASSUME IInv, LockStep
             PROVE  IInv'
  OBVIOUS
<1>1. UNCHANGED <<file, writes, boot, event, configVars, jwtVars>>
  BY DEF LockStep, NewRedisLock, CopyField
<1>2. Files' /\ Decoding' /\ LiveFields' /\ Tokens'
  BY <1>1 DEF IInv, Files, Decoding, LiveFields, Loaded, Latest, Usable, Tokens, TokenHonoured,
              ParseToken, configVars, jwtVars
<1>3. CASE NewRedisLock
  <2>1. torn' \in BOOLEAN
    BY <1>3 DEF NewRedisLock
  <2>2. TypeOK'
    BY <1>1, <1>3, <2>1 DEF IInv, TypeOK, NewRedisLock, configVars, jwtVars
  <2>3. Copying' /\ Copied'
    BY <1>1, <1>3 DEF IInv, Copying, Copied, Loaded, LockFields, NewRedisLock, configVars
  <2> QED
    BY <1>2, <2>2, <2>3 DEF IInv
<1>4. ASSUME NEW f \in LockFields, CopyField(f)
      PROVE  IInv'
  <2>1. f \in toCopy /\ toCopy' = toCopy \ {f} /\ lock' = [lock EXCEPT ![f] = live[f]] /\ torn' = torn
    BY <1>4 DEF CopyField
  <2>2. TypeOK'
    BY <1>1, <2>1 DEF IInv, TypeOK, Field, configVars, jwtVars
  <2>3. Copying'
    BY <1>1, <2>1 DEF IInv, TypeOK, Copying, Loaded, configVars
  <2>4. Copied'
    <3> SUFFICES ASSUME toCopy' = {}, ~torn
                 PROVE  \E v \in applied : \A g \in LockFields : Latest(lock'[g], g, v)
      BY <1>1, <2>1 DEF Copied, Latest, Usable, configVars
    <3>1. Loaded /\ watcher # "decode" /\ \A g \in LockFields : lock'[g] = live[g]
      BY <2>1 DEF IInv, TypeOK, Copying
    <3>2. \A g \in LockFields : Latest(live[g], g, MaxVersion)
      <4>1. \A g \in LockFields : g \in Field \ todo
        BY <3>1 DEF IInv, TypeOK, Field
      <4> QED
        BY <3>1, <4>1 DEF IInv, LiveFields
    <3>3. PICK v \in applied : \A u \in applied : u <= v
      BY <3>1 DEF IInv, Decoding
    <3>4. \A g \in LockFields : Latest(live[g], g, v)
      <4>1. \A u \in applied : u <= MaxVersion
        BY DEF IInv, TypeOK
      <4> QED
        BY <3>2, <3>3, <4>1 DEF Latest
    <3> QED
      BY <3>1, <3>3, <3>4
  <2> QED
    BY <1>2, <2>2, <2>3, <2>4 DEF IInv
<1> QED
  BY <1>3, <1>4 DEF LockStep

LEMMA TokenKeeps == IInv /\ TokenStep => IInv'
<1> USE ReloadAssumption DEF ReloadAssumption, Version
<1> SUFFICES ASSUME IInv, TokenStep
             PROVE  IInv'
  OBVIOUS
<1>1. UNCHANGED <<file, writes, boot, event, configVars, lockVars, jwtSecret>>
  BY DEF TokenStep, GenerateToken, Tick
<1>2. Files' /\ Decoding' /\ LiveFields' /\ Copying' /\ Copied'
  BY <1>1 DEF IInv, Files, Decoding, LiveFields, Loaded, Latest, Usable, Copying, Copied,
              configVars, lockVars
<1>3. TypeOK'
  BY <1>1 DEF IInv, TypeOK, TokenStep, GenerateToken, Tick, configVars, lockVars
<1>4. Tokens'
  BY <1>1 DEF IInv, TypeOK, Tokens, TokenHonoured, ParseToken, TokenStep, GenerateToken, Tick
<1> QED
  BY <1>2, <1>3, <1>4 DEF IInv

LEMMA NextIInv == IInv /\ [Next]_vars => IInv'
<1>1. IInv /\ UNCHANGED vars => IInv'
  BY DEF IInv, TypeOK, Files, Decoding, LiveFields, Loaded, Latest, Usable, Copying, Copied, Tokens,
         TokenHonoured, ParseToken, vars, configVars, lockVars, jwtVars
<1> QED
  BY <1>1, Steps, FileKeeps, StartKeeps, WatchKeeps, LockKeeps, TokenKeeps

-----------------------------------------------------------------------------
(* Theorems *)

THEOREM Invariance == Spec => []IInv
BY InitIInv, NextIInv, PTL DEF Spec

\* Every variable keeps its type; viper's goroutine is there from WatchConfig on.
THEOREM TypeCorrect == Spec => []TypeOK
BY Invariance, PTL DEF IInv

\* No reader finds a field empty, however the file is written and reloaded.
THEOREM ReadersFindValues == Spec => []NeverEmpty
<1>1. IInv => NeverEmpty
  BY ReloadAssumption DEF ReloadAssumption, IInv, LiveFields, Loaded, NeverEmpty
<1> QED
  BY <1>1, Invariance, PTL

\* A lock whose settings were copied while nothing was decoded has those of one
\* state of the file.
THEOREM LocksFit == Spec => []LockSettingsFit
<1>1. ASSUME IInv, NEW v \in applied, NEW x, NEW f, Latest(x, f, v)
      PROVE  Max({u \in applied : u <= v /\ f \in Usable(u)}) = x
  <2> DEFINE S == {u \in applied : u <= v /\ f \in Usable(u)}
  <2>1. x \in S /\ \A y \in S : x >= y
    BY <1>1 DEF Latest, IInv, TypeOK, Version
  <2>2. \A z \in S : (\A y \in S : z >= y) => z = x
    BY <1>1, <2>1, ReloadAssumption DEF ReloadAssumption, IInv, TypeOK, Version
  <2> QED
    BY <2>1, <2>2 DEF Max
<1>2. IInv => LockSettingsFit
  <2> SUFFICES ASSUME IInv, toCopy = {}, ~torn, lock["LockExpire"] # Zero
               PROVE  \E v \in applied : lock = AsOf(v)
    BY DEF LockSettingsFit
  <2>1. PICK v \in applied : \A f \in LockFields : Latest(lock[f], f, v)
    BY DEF IInv, Copied
  <2>2. \A f \in LockFields : AsOf(v)[f] = lock[f]
    BY <1>1, <2>1 DEF AsOf
  <2>3. lock = AsOf(v)
    BY <2>2 DEF AsOf, IInv, TypeOK
  <2> QED
    BY <2>3
<1> QED
  BY <1>2, Invariance, PTL

\* The process that has issued a token honours it until it expires.
THEOREM TokensHonoured == Spec => []TokenHonoured
BY Invariance, PTL DEF IInv, Tokens
==================================================================================
