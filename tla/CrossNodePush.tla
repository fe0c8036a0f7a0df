------------------------------ MODULE CrossNodePush ------------------------------
(***************************************************************************)
(* PublishCrossNode and SubscribeCrossNode of utils/redis/pubsub.go: what  *)
(* is published on the one Redis channel reaches each subscribed node over *)
(* its socket, waits in the Go channel of go-redis, and is handed to       *)
(* onMessage.  A message on its way is named by its place among those that *)
(* Redis has accepted.                                                     *)
(***************************************************************************)

EXTENDS Naturals, Sequences, SequencesExt

CONSTANTS
  Messages,
  Nodes,
  Buffer,      \* messages the Go channel holds, 100 in go-redis
  MaxFaults    \* bound of the model: lost replies and connections, failed
               \* subscriptions, messages dropped

ASSUME PushAssumption == Buffer \in Nat \ {0} /\ MaxFaults \in Nat

VARIABLES
  bus,        \* what Redis has accepted, in order
  pub,        \* pub[m]: "new", "sent" (accepted, no reply yet) or "done"
  pc,         \* pc[n]: "down", "receive" (for the confirmation), "select",
              \* "message" (inside onMessage) or "stopped"
  linked,     \* nodes that Redis has as subscribers
  socket,     \* socket[n]: places of messages on the way to n
  ch,         \* ch[n]: those in the Go channel
  at,         \* at[n]: the place of the message onMessage is given
  handled,    \* handled[n]: places of the messages it has been given, in order
  since,      \* since[n]: what was accepted before the subscription of n
  lost,       \* lost[n]: places lost to a broken connection or a full channel
  cancelled,  \* nodes whose ctx has ended
  faults

nodeVars == <<pc, linked, socket, ch, at, handled, since, lost, cancelled>>
vars == <<bus, pub, nodeVars, faults>>

Place == 1 .. Len(bus)

TypeOK ==
  /\ bus \in Seq(Messages)
  /\ pub \in [Messages -> {"new", "sent", "done"}]
  /\ \A m \in Messages : pub[m] = "new" <=> m \notin ToSet(bus)
  /\ pc \in [Nodes -> {"down", "receive", "select", "message", "stopped"}]
  /\ linked \subseteq Nodes /\ cancelled \subseteq Nodes
  /\ {socket, handled} \subseteq [Nodes -> Seq(Place)]
  /\ ch \in [Nodes -> {q \in Seq(Place) : Len(q) <= Buffer}]
  /\ at \in [Nodes -> Place \cup {0}]
  /\ \A n \in Nodes : at[n] # 0 <=> pc[n] = "message"
  /\ since \in [Nodes -> 0 .. Len(bus)]
  /\ lost \in [Nodes -> SUBSET Place]
  /\ faults \in 0 .. MaxFaults

Init ==
  /\ bus = <<>> /\ pub = [m \in Messages |-> "new"]
  /\ pc = [n \in Nodes |-> "down"] /\ linked = {}
  /\ socket = [n \in Nodes |-> <<>>] /\ ch = [n \in Nodes |-> <<>>]
  /\ at = [n \in Nodes |-> 0] /\ handled = [n \in Nodes |-> <<>>]
  /\ since = [n \in Nodes |-> 0] /\ lost = [n \in Nodes |-> {}]
  /\ cancelled = {} /\ faults = 0

Goto(n, p) == pc' = [pc EXCEPT ![n] = p]
Fault == faults < MaxFaults /\ faults' = faults + 1
Live == {n \in Nodes : pc[n] \in {"receive", "select", "message"}}

-----------------------------------------------------------------------------
(* PublishCrossNode *)

\* Redis accepts m and writes it to every subscriber.
Accept(m) ==
  /\ bus' = Append(bus, m)
  /\ socket' = [n \in Nodes |-> IF n \in linked THEN Append(socket[n], Len(bus) + 1) ELSE socket[n]]
  /\ lost' = [n \in Nodes |-> IF n \in Live \ linked THEN lost[n] \cup {Len(bus) + 1} ELSE lost[n]]
  /\ since' = [n \in Nodes |-> IF n \in Live THEN since[n] ELSE Len(bus) + 1]
  /\ UNCHANGED <<pc, linked, ch, at, handled, cancelled>>

Publish(m) ==
  /\ pub[m] = "new" /\ pub' = [pub EXCEPT ![m] = "sent"]
  /\ Accept(m) /\ UNCHANGED faults

\* The reply is lost, and go-redis sends PUBLISH again.
Resend(m) == pub[m] = "sent" /\ Fault /\ Accept(m) /\ UNCHANGED pub

Reply(m) ==
  /\ pub[m] = "sent" /\ pub' = [pub EXCEPT ![m] = "done"]
  /\ UNCHANGED <<bus, nodeVars, faults>>

-----------------------------------------------------------------------------
(* SubscribeCrossNode *)

\* The connection of the subscription breaks, and what is on it is lost.
Break(n) ==
  /\ n \in linked /\ Fault /\ linked' = linked \ {n}
  /\ socket' = [socket EXCEPT ![n] = <<>>]
  /\ lost' = [lost EXCEPT ![n] = @ \cup ToSet(socket[n])]

\* SUBSCRIBE is sent and Redis knows the subscriber.
Subscribe(n) ==
  /\ pc[n] = "down" /\ Goto(n, "receive")
  /\ linked' = linked \cup {n}
  /\ UNCHANGED <<bus, pub, socket, ch, at, handled, since, lost, cancelled, faults>>

\* Receive returns the confirmation.  An error ends the function for good, and
\* leaves the subscription open, unless the error was that of the connection.
Receive(n) ==
  /\ pc[n] = "receive"
  /\ \/ n \in linked /\ Goto(n, "select") /\ UNCHANGED <<linked, socket, lost, faults>>
     \/ Goto(n, "stopped") /\ Fault /\ UNCHANGED <<linked, socket, lost>>
     \/ Goto(n, "stopped") /\ Break(n)
  /\ UNCHANGED <<bus, pub, ch, at, handled, since, cancelled>>

\* go-redis moves a message from the socket to the Go channel, and drops it when
\* the channel stays full for a minute.
Relay(n) ==
  /\ pc[n] \in {"select", "message"} /\ socket[n] # <<>>
  /\ socket' = [socket EXCEPT ![n] = Tail(@)]
  /\ \/ /\ Len(ch[n]) < Buffer /\ ch' = [ch EXCEPT ![n] = Append(@, Head(socket[n]))]
        /\ UNCHANGED <<lost, faults>>
     \/ /\ Len(ch[n]) = Buffer /\ Fault
        /\ lost' = [lost EXCEPT ![n] = @ \cup {Head(socket[n])}]
        /\ UNCHANGED ch
  /\ UNCHANGED <<bus, pub, pc, linked, at, handled, since, cancelled>>

\* Mutant of Take: the select of the next turn runs before onMessage returns.
TakeConcurrently(n) ==
  /\ pc[n] \in {"select", "message"} /\ ch[n] # <<>> /\ Goto(n, "message")
  /\ at' = [at EXCEPT ![n] = Head(ch[n])] /\ ch' = [ch EXCEPT ![n] = Tail(@)]
  /\ UNCHANGED <<bus, pub, linked, socket, handled, since, lost, cancelled, faults>>

\* The select takes a message, even when ctx has ended too.
Take(n) ==
  /\ pc[n] = "select" /\ ch[n] # <<>> /\ Goto(n, "message")
  /\ at' = [at EXCEPT ![n] = Head(ch[n])] /\ ch' = [ch EXCEPT ![n] = Tail(@)]
  /\ UNCHANGED <<bus, pub, linked, socket, handled, since, lost, cancelled, faults>>

\* Mutant of Handled: a message may be put back, to be tried again.
HandledAgain(n) ==
  /\ pc[n] = "message" /\ Goto(n, "select")
  /\ handled' = [handled EXCEPT ![n] = Append(@, at[n])]
  /\ ch' \in {ch, [ch EXCEPT ![n] = <<at[n]>> \o @]}
  /\ at' = [at EXCEPT ![n] = 0]
  /\ UNCHANGED <<bus, pub, linked, socket, since, lost, cancelled, faults>>

\* onMessage returns.
Handled(n) ==
  /\ pc[n] = "message" /\ Goto(n, "select")
  /\ handled' = [handled EXCEPT ![n] = Append(@, at[n])]
  /\ at' = [at EXCEPT ![n] = 0]
  /\ UNCHANGED <<bus, pub, linked, socket, ch, since, lost, cancelled, faults>>

\* Mutant of Done: the loop returns and leaves the subscription open.
DoneUnclosed(n) ==
  /\ pc[n] = "select" /\ n \in cancelled /\ Goto(n, "stopped")
  /\ UNCHANGED <<bus, pub, linked, socket, ch, at, handled, since, lost, cancelled, faults>>

\* The select takes ctx.Done: what has not been handled is discarded.
Done(n) ==
  /\ pc[n] = "select" /\ n \in cancelled /\ Goto(n, "stopped")
  /\ linked' = linked \ {n}
  /\ socket' = [socket EXCEPT ![n] = <<>>] /\ ch' = [ch EXCEPT ![n] = <<>>]
  /\ UNCHANGED <<bus, pub, at, handled, since, lost, cancelled, faults>>

Cancel(n) ==
  /\ n \in Live \ cancelled /\ cancelled' = cancelled \cup {n}
  /\ UNCHANGED <<bus, pub, pc, linked, socket, ch, at, handled, since, lost, faults>>

Disconnect(n) == Break(n) /\ UNCHANGED <<bus, pub, pc, ch, at, handled, since, cancelled>>

\* go-redis makes another connection and subscribes again.
Reconnect(n) ==
  /\ n \in Live \ linked /\ linked' = linked \cup {n}
  /\ UNCHANGED <<bus, pub, pc, socket, ch, at, handled, since, lost, cancelled, faults>>

Next ==
  \/ \E m \in Messages : Publish(m) \/ Resend(m) \/ Reply(m)
  \/ \E n \in Nodes : \/ Subscribe(n) \/ Receive(n) \/ Relay(n) \/ Take(n) \/ Handled(n)
                      \/ Done(n) \/ Cancel(n) \/ Disconnect(n) \/ Reconnect(n)

\* onMessage returns, go-redis reads its socket, and a select in which ctx.Done is
\* ready time and again takes it.
Fairness ==
  \A n \in Nodes : /\ WF_vars(Receive(n)) /\ WF_vars(Relay(n)) /\ WF_vars(Reconnect(n))
                   /\ WF_vars(Take(n)) /\ WF_vars(Handled(n)) /\ SF_vars(Done(n))

Spec == Init /\ [][Next]_vars
FairSpec == Spec /\ Fairness

-----------------------------------------------------------------------------
(* Properties *)

\* Each node is given the messages in the order in which Redis accepted them, none
\* of them twice; only a PUBLISH that was sent again comes again, as a later one.
InOrder ==
  \A n \in Nodes : \A i, j \in DOMAIN handled[n] : i < j => handled[n][i] < handled[n][j]

\* What was accepted since n subscribed and is neither handled nor lost.
Outstanding(n) == (since[n] + 1 .. Len(bus)) \ (ToSet(handled[n]) \cup lost[n])

\* Whatever is accepted while a node subscribes is handled there, unless it is lost
\* on a broken connection or in a full channel, or the subscription ends.
Delivered ==
  \A n \in Nodes : n \in Live ~> Outstanding(n) = {} \/ n \in cancelled \/ pc[n] = "stopped"

\* A node whose context ends leaves the channel, however many messages wait.
Stops ==
  \A n \in Nodes : n \in cancelled /\ pc[n] \in {"select", "message"}
                     ~> pc[n] = "stopped" /\ n \notin linked
===================================================================================
