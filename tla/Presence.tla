-------------------------------- MODULE Presence --------------------------------
(***************************************************************************)
(* The online status of one user, utils/redis/online.go: a key with a TTL  *)
(* that the user's connections set, refresh and delete.  The callers, a    *)
(* hub on each node, are not in the repository: a connection sets the key  *)
(* when it opens, refreshes it at each Pong and deletes it when it closes, *)
(* as the comments on the functions and constants say.  Connections of one *)
(* user overlap, since a new one takes the place of an old one.            *)
(***************************************************************************)

EXTENDS Naturals, FiniteSets

CONSTANTS
  Connections,
  OnlineTTL,   \* onlineTTL, in ticks
  Beat,        \* ticks between two Pings
  MaxDelay,    \* ticks that a Pong and a command may take
  MaxFailures  \* bound of the model: crashes, failed commands, lost Pongs and keys

\* 90 s and 54 s: a command has 36 s.
ASSUME PresenceAssumption ==
  /\ {OnlineTTL, Beat} \subseteq Nat \ {0} /\ {MaxDelay, MaxFailures} \subseteq Nat
  /\ Beat + MaxDelay < OnlineTTL /\ MaxDelay < Beat

VARIABLES
  phase,      \* phase[s]: "new", "setting", "up", "refreshing", "closing" or "gone"
  since,      \* since[s]: ticks since the last Ping, or since SET or DEL was sent
  left,       \* ticks until the key expires, 0 when there is none
  disturbed,  \* the key was deleted while another connection was up, and not set since
  quiet,      \* ticks since there was a connection
  failures

presenceVars == <<phase, since, left, disturbed, quiet, failures>>

Up == {s \in Connections : phase[s] \in {"up", "refreshing"}}
Pending == {s \in Connections : phase[s] \in {"setting", "refreshing", "closing"}}

\* Also what BatchGetOnline answers for the user.
IsOnline == left > 0

PresenceTypeOK ==
  /\ phase \in [Connections -> {"new", "setting", "up", "refreshing", "closing", "gone"}]
  /\ since \in [Connections -> 0 .. Beat]
  /\ \A s \in Pending : since[s] <= MaxDelay
  /\ left \in 0 .. OnlineTTL
  /\ disturbed \in BOOLEAN
  /\ quiet \in 0 .. OnlineTTL
  /\ failures \in 0 .. MaxFailures

PresenceInit ==
  /\ phase = [s \in Connections |-> "new"] /\ since = [s \in Connections |-> 0]
  /\ left = 0 /\ disturbed = FALSE /\ quiet = 0 /\ failures = 0

Move(s, p) == phase' = [phase EXCEPT ![s] = p] /\ since' = [since EXCEPT ![s] = 0]
Failure == failures < MaxFailures /\ failures' = failures + 1

-----------------------------------------------------------------------------
(* The hub: what each connection sends *)

Open(s) == phase[s] = "new" /\ Move(s, "setting") /\ quiet' = 0 /\ UNCHANGED <<left, disturbed, failures>>

Pong(s) ==
  /\ phase[s] = "up" /\ since[s] = Beat /\ Move(s, "refreshing")
  /\ UNCHANGED <<left, disturbed, quiet, failures>>

\* The client leaves, is silent for too long, or is replaced.
Close(s) == phase[s] = "up" /\ Move(s, "closing") /\ UNCHANGED <<left, disturbed, quiet, failures>>

-----------------------------------------------------------------------------
(* What Redis executes *)

\* Mutant of SetOnline: the TTL in the wrong unit.
SetOnlineLong(s) ==
  /\ phase[s] = "setting" /\ Move(s, "up")
  /\ left' = 2 * OnlineTTL /\ disturbed' = FALSE /\ UNCHANGED <<quiet, failures>>

\* SET key 1 EX 90
SetOnline(s) ==
  /\ phase[s] = "setting" /\ Move(s, "up")
  /\ left' = OnlineTTL /\ disturbed' = FALSE /\ UNCHANGED <<quiet, failures>>

\* Mutant of RefreshOnline: the key is given the interval of the Pings to live.
RefreshOnlineShort(s) ==
  /\ phase[s] = "refreshing" /\ phase' = [phase EXCEPT ![s] = "up"]
  /\ left' = IF left > 0 THEN Beat ELSE 0
  /\ UNCHANGED <<since, disturbed, quiet, failures>>

\* EXPIRE key 90, which does not create a key that is gone.
RefreshOnline(s) ==
  /\ phase[s] = "refreshing" /\ phase' = [phase EXCEPT ![s] = "up"]
  /\ left' = IF left > 0 THEN OnlineTTL ELSE 0
  /\ UNCHANGED <<since, disturbed, quiet, failures>>

\* DEL key, whichever connection has set it.
SetOffline(s) ==
  /\ phase[s] = "closing" /\ Move(s, "gone")
  /\ left' = 0 /\ disturbed' = (disturbed \/ Up # {}) /\ UNCHANGED <<quiet, failures>>

\* A command fails: the functions return the error, and nothing is tried again.
Fails(s) ==
  /\ s \in Pending /\ Failure
  /\ \/ phase[s] = "setting" /\ Move(s, "up")
     \/ phase[s] = "refreshing" /\ phase' = [phase EXCEPT ![s] = "up"] /\ UNCHANGED since
     \/ phase[s] = "closing" /\ Move(s, "gone")
  /\ UNCHANGED <<left, disturbed, quiet>>

\* The node of a connection dies; a Pong is lost; Redis loses the key.
Crash(s) ==
  /\ phase[s] \notin {"new", "gone"} /\ Failure /\ Move(s, "gone")
  /\ UNCHANGED <<left, disturbed, quiet>>

PongLost(s) ==
  /\ phase[s] = "up" /\ since[s] = Beat /\ Failure /\ Move(s, "up")
  /\ UNCHANGED <<left, disturbed, quiet>>

KeyLost == left > 0 /\ Failure /\ left' = 0 /\ UNCHANGED <<phase, since, disturbed, quiet>>

\* A tick passes; Pings are sent and commands executed in time.
Elapse ==
  /\ \A s \in Pending : since[s] < MaxDelay
  /\ \A s \in Up : since[s] < Beat
  /\ since' = [s \in Connections |-> IF s \in Up \cup Pending THEN since[s] + 1 ELSE 0]
  /\ left' = IF left > 0 THEN left - 1 ELSE 0
  /\ quiet' = IF Up \cup Pending # {} THEN 0 ELSE IF quiet < OnlineTTL THEN quiet + 1 ELSE quiet
  /\ UNCHANGED <<phase, disturbed, failures>>

PresenceNext ==
  \/ \E s \in Connections : \/ Open(s) \/ Pong(s) \/ Close(s) \/ Fails(s) \/ Crash(s) \/ PongLost(s)
                            \/ SetOnline(s) \/ RefreshOnline(s) \/ SetOffline(s)
  \/ KeyLost \/ Elapse

PresenceSpec == PresenceInit /\ [][PresenceNext]_presenceVars

-----------------------------------------------------------------------------
(* Properties *)

\* A connected user is online, for as long as the connection lasts, unless
\* something fails or the DEL of an old connection comes after the SET of a new
\* one: the Pongs of the new one then refresh a key that is not there.
StaysOnline == Up # {} /\ failures = 0 /\ ~disturbed => IsOnline

\* A user without a connection is offline at once, or, after a crash or an error,
\* when the last life the key was given has run out.
GhostGone ==
  Up \cup Pending = {} => /\ failures = 0 => ~IsOnline
                          /\ IsOnline => left + quiet <= OnlineTTL
===============================================================================
