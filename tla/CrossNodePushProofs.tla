--------------------------- MODULE CrossNodePushProofs ---------------------------
(***************************************************************************)
(* The order in which CrossNodePush hands out messages, for any messages,  *)
(* nodes, size of the channels and number of faults.                       *)
(***************************************************************************)

EXTENDS CrossNodePush, TLAPS

-----------------------------------------------------------------------------
(* The inductive invariant *)

Ascending(q) == \A i, j \in DOMAIN q : i < j => q[i] < q[j]
Before(q, r) == \A i \in DOMAIN q : \A j \in DOMAIN r : q[i] < r[j]

\* What a node has been given comes before what onMessage has, that before what is
\* in the channel, and that before what is on the socket; each is in order.
Queues ==
  \A n \in Nodes : /\ Ascending(handled[n]) /\ Ascending(ch[n]) /\ Ascending(socket[n])
                   /\ Before(handled[n], ch[n]) /\ Before(handled[n], socket[n])
                   /\ Before(ch[n], socket[n])

Current ==
  \A n \in Nodes : at[n] # 0 => /\ \A i \in DOMAIN handled[n] : handled[n][i] < at[n]
                                /\ \A i \in DOMAIN ch[n] : at[n] < ch[n][i]
                                /\ \A i \in DOMAIN socket[n] : at[n] < socket[n][i]

IInv == TypeOK /\ Queues /\ Current

-----------------------------------------------------------------------------
(* Sequences *)

LEMMA AppendElements ==
  ASSUME NEW q \in Seq(Nat), NEW x \in Nat
  PROVE  /\ Append(q, x) \in Seq(Nat)
         /\ \A i \in DOMAIN Append(q, x) : (i \in DOMAIN q /\ Append(q, x)[i] = q[i]) \/ Append(q, x)[i] = x
OBVIOUS

LEMMA AppendAscending ==
  ASSUME NEW q \in Seq(Nat), NEW x \in Nat, Ascending(q), \A i \in DOMAIN q : q[i] < x
  PROVE  Ascending(Append(q, x))
BY DEF Ascending

LEMMA TailElements ==
  ASSUME NEW q \in Seq(Nat), q # <<>>
  PROVE  /\ 1 \in DOMAIN q /\ Head(q) = q[1] /\ Tail(q) \in Seq(Nat)
         /\ \A i \in DOMAIN Tail(q) : i + 1 \in DOMAIN q /\ Tail(q)[i] = q[i + 1]
OBVIOUS

LEMMA TailAscending ==
  ASSUME NEW q \in Seq(Nat), q # <<>>, Ascending(q)
  PROVE  /\ Ascending(Tail(q))
         /\ \A i \in DOMAIN Tail(q) : Head(q) < Tail(q)[i]
<1>1. ASSUME NEW i \in DOMAIN Tail(q), NEW j \in DOMAIN Tail(q), i < j
      PROVE  Tail(q)[i] < Tail(q)[j]
  <2>1. i + 1 \in DOMAIN q /\ j + 1 \in DOMAIN q /\ i + 1 < j + 1
    BY <1>1, TailElements
  <2> QED
    BY <2>1, TailElements DEF Ascending
<1>2. ASSUME NEW i \in DOMAIN Tail(q)
      PROVE  Head(q) < Tail(q)[i]
  <2>1. i + 1 \in DOMAIN q /\ 1 < i + 1
    OBVIOUS
  <2> QED
    BY <2>1, TailElements DEF Ascending
<1> QED
  BY <1>1, <1>2 DEF Ascending

LEMMA BeforeAppend ==
  ASSUME NEW q \in Seq(Nat), NEW r \in Seq(Nat), NEW x \in Nat, Before(q, r)
  PROVE  /\ (\A i \in DOMAIN q : q[i] < x) => Before(q, Append(r, x))
         /\ (\A i \in DOMAIN r : x < r[i]) => Before(Append(q, x), r)
<1>1. ASSUME \A i \in DOMAIN q : q[i] < x
      PROVE  Before(q, Append(r, x))
  BY <1>1, AppendElements DEF Before
<1>2. ASSUME \A i \in DOMAIN r : x < r[i]
      PROVE  Before(Append(q, x), r)
  BY <1>2, AppendElements DEF Before
<1> QED
  BY <1>1, <1>2

LEMMA BeforeTail ==
  ASSUME NEW q \in Seq(Nat), NEW r \in Seq(Nat), Before(q, r)
  PROVE  /\ r # <<>> => Before(q, Tail(r)) /\ \A i \in DOMAIN q : q[i] < Head(r)
         /\ q # <<>> => Before(Tail(q), r) /\ \A i \in DOMAIN r : Head(q) < r[i]
<1>1. ASSUME r # <<>>
      PROVE  Before(q, Tail(r)) /\ \A i \in DOMAIN q : q[i] < Head(r)
  BY <1>1, TailElements DEF Before
<1>2. ASSUME q # <<>>
      PROVE  Before(Tail(q), r) /\ \A i \in DOMAIN r : Head(q) < r[i]
  BY <1>2, TailElements DEF Before
<1> QED
  BY <1>1, <1>2

\* A longer bus has the places of a shorter one.
LEMMA MorePlaces ==
  ASSUME NEW k \in Nat, NEW q \in Seq(1 .. k)
  PROVE  q \in Seq(1 .. (k + 1)) /\ q \in Seq(Nat)
OBVIOUS

-----------------------------------------------------------------------------
(* Types *)

\* In a state that is typed, every queue of a node is a sequence of numbers.
LEMMA Numbers ==
  ASSUME TypeOK, NEW n \in Nodes
  PROVE  /\ Len(bus) \in Nat
         /\ {handled[n], ch[n], socket[n]} \subseteq Seq(Place)
         /\ {handled[n], ch[n], socket[n]} \subseteq Seq(Nat)
         /\ at[n] \in Nat
<1>1. Len(bus) \in Nat
  BY DEF TypeOK
<1>2. {handled[n], ch[n], socket[n]} \subseteq Seq(Place)
  BY DEF TypeOK
<1>3. {handled[n], ch[n], socket[n]} \subseteq Seq(Nat)
  BY <1>1, <1>2 DEF Place
<1>4. at[n] \in Nat
  BY <1>1 DEF TypeOK, Place
<1> QED
  BY <1>1, <1>2, <1>3, <1>4

LEMMA InitIInv == Init => IInv
<1> USE PushAssumption DEF PushAssumption
<1> SUFFICES ASSUME Init
             PROVE  IInv
  OBVIOUS
<1>1. TypeOK
  BY DEF Init, TypeOK, Place, ToSet
<1>2. Queues /\ Current
  BY DEF Init, Queues, Current, Ascending, Before
<1> QED
  BY <1>1, <1>2 DEF IInv

Sends(m) == Publish(m) \/ Resend(m)
Subscriber(n) ==
  \/ Subscribe(n) \/ Receive(n) \/ Relay(n) \/ Take(n) \/ Handled(n)
  \/ Done(n) \/ Cancel(n) \/ Disconnect(n) \/ Reconnect(n)

LEMMA Steps ==
  [Next]_vars => \/ \E m \in Messages : Sends(m) \/ Reply(m)
                 \/ \E n \in Nodes : Subscriber(n)
                 \/ UNCHANGED vars
BY DEF Next, Sends, Subscriber

LEMMA SendTypes ==
  ASSUME TypeOK, NEW m \in Messages, Sends(m)
  PROVE  TypeOK'
<1> USE PushAssumption DEF PushAssumption
<1>1. /\ bus' = Append(bus, m) /\ bus' \in Seq(Messages) /\ Len(bus') = Len(bus) + 1
      /\ Len(bus) \in Nat
  <2>1. bus \in Seq(Messages)
    BY DEF TypeOK
  <2>2. bus' = Append(bus, m)
    BY DEF Sends, Publish, Resend, Accept
  <2> QED
    BY <2>1, <2>2
<1>2. Place \subseteq Place' /\ Place' = 1 .. (Len(bus) + 1)
  BY <1>1 DEF Place
<1>3. /\ pub' \in [Messages -> {"new", "sent", "done"}] /\ pub'[m] # "new"
      /\ \A k \in Messages \ {m} : pub'[k] = pub[k]
  BY DEF TypeOK, Sends, Publish, Resend
<1>4. \A k \in Messages : pub'[k] = "new" <=> k \notin ToSet(bus')
  <2>1. ToSet(bus') = ToSet(bus) \cup {m}
    <3>1. /\ DOMAIN bus' = DOMAIN bus \cup {Len(bus) + 1} /\ bus'[Len(bus) + 1] = m
          /\ \A i \in DOMAIN bus : bus'[i] = bus[i]
      BY <1>1 DEF TypeOK
    <3> QED
      BY <3>1 DEF ToSet
  <2> QED
    BY <1>3, <2>1 DEF TypeOK
<1>5. /\ UNCHANGED <<pc, linked, ch, at, handled, cancelled>>
      /\ socket' = [n \in Nodes |-> IF n \in linked THEN Append(socket[n], Len(bus) + 1) ELSE socket[n]]
      /\ lost' = [n \in Nodes |-> IF n \in Live \ linked THEN lost[n] \cup {Len(bus) + 1} ELSE lost[n]]
      /\ since' = [n \in Nodes |-> IF n \in Live THEN since[n] ELSE Len(bus) + 1]
  BY DEF Sends, Publish, Resend, Accept
<1>6. socket' \in [Nodes -> Seq(Place')] /\ handled' \in [Nodes -> Seq(Place')]
  <2>1. \A n \in Nodes : socket[n] \in Seq(Place') /\ handled[n] \in Seq(Place')
    BY <1>1, <1>2, Numbers, MorePlaces DEF Place
  <2> QED
    <3>1. Len(bus) + 1 \in Place'
      BY <1>1, <1>2
    <3>2. \A n \in Nodes : Append(socket[n], Len(bus) + 1) \in Seq(Place')
      BY <2>1, <3>1
    <3>3. handled = [n \in Nodes |-> handled[n]]
      BY DEF TypeOK
    <3> QED
      BY <1>5, <2>1, <3>2, <3>3
<1>7. ch' \in [Nodes -> {q \in Seq(Place') : Len(q) <= Buffer}]
  <2>1. \A n \in Nodes : ch[n] \in Seq(Place')
    BY <1>1, <1>2, Numbers, MorePlaces DEF Place
  <2>2. \A n \in Nodes : Len(ch[n]) <= Buffer
    BY DEF TypeOK
  <2>3. ch = [n \in Nodes |-> ch[n]]
    BY DEF TypeOK
  <2> QED
    BY <1>5, <2>1, <2>2, <2>3
<1>8. /\ since' \in [Nodes -> 0 .. Len(bus')] /\ lost' \in [Nodes -> SUBSET Place']
      /\ at' \in [Nodes -> Place' \cup {0}]
  BY <1>1, <1>2, <1>5 DEF TypeOK
<1>9. faults' \in 0 .. MaxFaults
  BY DEF TypeOK, Sends, Publish, Resend, Fault
<1> QED
  BY <1>1, <1>3, <1>4, <1>5, <1>6, <1>7, <1>8, <1>9 DEF TypeOK

LEMMA SubscriberTypes ==
  ASSUME TypeOK, NEW n \in Nodes, Subscriber(n)
  PROVE  TypeOK'
<1> USE PushAssumption DEF PushAssumption
<1>1. bus' = bus /\ pub' = pub /\ Place' = Place /\ since' = since
  BY DEF Subscriber, Subscribe, Receive, Relay, Take, Handled, Done, Cancel, Disconnect, Reconnect, Place
<1>2. /\ socket[n] \in Seq(Place) /\ ToSet(socket[n]) \subseteq Place
      /\ socket[n] # <<>> => Head(socket[n]) \in Place /\ Tail(socket[n]) \in Seq(Place)
  BY Numbers DEF ToSet
<1>3. socket \in [Nodes -> Seq(Place)] /\ lost \in [Nodes -> SUBSET Place] /\ linked \subseteq Nodes
  BY DEF TypeOK
<1>4. CASE Subscribe(n) \/ Cancel(n) \/ Reconnect(n)
  BY <1>1, <1>4 DEF TypeOK, Subscribe, Cancel, Reconnect, Goto, Live
<1>5. CASE Receive(n)
  <2>1. /\ pc' \in [Nodes -> {"down", "receive", "select", "message", "stopped"}]
        /\ \A k \in Nodes : at[k] # 0 <=> pc'[k] = "message"
    BY <1>5 DEF TypeOK, Receive, Goto
  <2>2. linked' \subseteq Nodes /\ socket' \in [Nodes -> Seq(Place)] /\ lost' \in [Nodes -> SUBSET Place]
    <3>1. CASE Break(n)
      BY <1>2, <1>3, <3>1 DEF Break
    <3> QED
      BY <1>5, <1>3, <3>1 DEF Receive
  <2>3. faults' \in 0 .. MaxFaults
    BY <1>5 DEF TypeOK, Receive, Break, Fault
  <2> QED
    BY <1>1, <1>5, <2>1, <2>2, <2>3 DEF TypeOK, Receive
<1>6. CASE Relay(n)
  <2>1. socket' \in [Nodes -> Seq(Place)] /\ lost' \in [Nodes -> SUBSET Place]
    <3>1. /\ socket[n] # <<>> /\ socket' = [socket EXCEPT ![n] = Tail(@)]
          /\ lost' = lost \/ lost' = [lost EXCEPT ![n] = @ \cup {Head(socket[n])}]
      BY <1>6 DEF Relay
    <3> QED
      BY <1>2, <1>3, <3>1
  <2>2. ch' \in [Nodes -> {q \in Seq(Place) : Len(q) <= Buffer}]
    <3>1. ASSUME Len(ch[n]) < Buffer, ch' = [ch EXCEPT ![n] = Append(@, Head(socket[n]))]
          PROVE  ch' \in [Nodes -> {q \in Seq(Place) : Len(q) <= Buffer}]
      <4>1. ch[n] \in Seq(Place) /\ Len(ch[n]) \in Nat /\ Head(socket[n]) \in Place
        BY <1>6, <1>2 DEF TypeOK, Relay
      <4>2. /\ Append(ch[n], Head(socket[n])) \in Seq(Place)
            /\ Len(Append(ch[n], Head(socket[n]))) <= Buffer
        BY <3>1, <4>1
      <4> QED
        BY <3>1, <4>2 DEF TypeOK
    <3> QED
      BY <1>6, <3>1 DEF TypeOK, Relay
  <2>3. faults' \in 0 .. MaxFaults
    BY <1>6 DEF TypeOK, Relay, Fault
  <2>4. UNCHANGED <<pc, linked, at, handled, cancelled>>
    BY <1>6 DEF Relay
  <2> QED
    BY <1>1, <2>1, <2>2, <2>3, <2>4 DEF TypeOK
<1>7. CASE Take(n)
  BY <1>1, <1>7 DEF TypeOK, Take, Goto, Place
<1>8. CASE Handled(n)
  BY <1>1, <1>8 DEF TypeOK, Handled, Goto
<1>9. CASE Done(n)
  BY <1>1, <1>9 DEF TypeOK, Done, Goto
<1>10. CASE Disconnect(n)
  BY <1>1, <1>10 DEF TypeOK, Disconnect, Break, Fault, ToSet
<1> QED
  BY <1>4, <1>5, <1>6, <1>7, <1>8, <1>9, <1>10 DEF Subscriber

-----------------------------------------------------------------------------
(* Order *)

\* A message that Redis accepts comes after all others.
LEMMA SendOrder ==
  ASSUME TypeOK, Queues, Current, NEW m \in Messages, Sends(m)
  PROVE  Queues' /\ Current'
<1>1. UNCHANGED <<ch, at, handled>>
  BY DEF Sends, Publish, Resend, Accept
<1>2. ASSUME NEW n \in Nodes
      PROVE  /\ Ascending(socket'[n]) /\ Before(handled[n], socket'[n]) /\ Before(ch[n], socket'[n])
             /\ at[n] # 0 => \A i \in DOMAIN socket'[n] : at[n] < socket'[n][i]
  <2>1. socket'[n] \in {socket[n], Append(socket[n], Len(bus) + 1)}
    BY DEF Sends, Publish, Resend, Accept
  <2>2. /\ \A i \in DOMAIN handled[n] : handled[n][i] < Len(bus) + 1
        /\ \A i \in DOMAIN ch[n] : ch[n][i] < Len(bus) + 1
        /\ \A i \in DOMAIN socket[n] : socket[n][i] < Len(bus) + 1
        /\ at[n] < Len(bus) + 1
    <3>1. \A q \in Seq(Place) : \A i \in DOMAIN q : q[i] < Len(bus) + 1
      BY Numbers DEF Place
    <3>2. at[n] < Len(bus) + 1
      <4>1. at[n] \in Place \cup {0} /\ Len(bus) \in Nat
        BY Numbers DEF TypeOK
      <4> QED
        BY <4>1 DEF Place
    <3> QED
      BY <3>1, <3>2, Numbers
  <2>3. CASE socket'[n] = socket[n]
    BY <2>3 DEF Queues, Current
  <2>4. CASE socket'[n] = Append(socket[n], Len(bus) + 1)
    <3>1. Len(bus) + 1 \in Nat /\ {handled[n], ch[n], socket[n]} \subseteq Seq(Nat) /\ at[n] \in Nat
      BY Numbers
    <3>2. Ascending(socket'[n])
      BY <2>2, <2>4, <3>1, AppendAscending DEF Queues
    <3>3. Before(handled[n], socket'[n]) /\ Before(ch[n], socket'[n])
      BY <2>2, <2>4, <3>1, BeforeAppend DEF Queues
    <3>4. at[n] # 0 => \A i \in DOMAIN socket'[n] : at[n] < socket'[n][i]
      BY <2>2, <2>4, <3>1 DEF Current
    <3> QED
      BY <3>2, <3>3, <3>4
  <2> QED
    BY <2>1, <2>3, <2>4
<1> QED
  BY <1>1, <1>2 DEF Queues, Current

LEMMA SubscriberOrder ==
  ASSUME TypeOK, Queues, Current, NEW n \in Nodes, Subscriber(n)
  PROVE  Queues' /\ Current'
<1>1. {handled[n], ch[n], socket[n]} \subseteq Seq(Nat) /\ at[n] \in Nat
  BY Numbers
<1>2. /\ handled \in [Nodes -> Seq(Place)] /\ ch \in [Nodes -> Seq(Place)]
      /\ socket \in [Nodes -> Seq(Place)] /\ at \in [Nodes -> Place \cup {0}]
  BY DEF TypeOK
<1>3. CASE UNCHANGED <<handled, ch, at>> /\ (socket' = socket \/ socket' = [socket EXCEPT ![n] = <<>>])
  <2>1. \A k \in Nodes : socket'[k] = socket[k] \/ socket'[k] = <<>>
    BY <1>2, <1>3
  <2>2. Queues'
    BY <1>3, <2>1 DEF Queues, Ascending, Before
  <2>3. Current'
    BY <1>3, <2>1 DEF Current
  <2> QED
    BY <2>2, <2>3
<1>4. CASE Relay(n)
  <2>1. /\ UNCHANGED <<handled, at>> /\ socket[n] # <<>> /\ socket' = [socket EXCEPT ![n] = Tail(@)]
        /\ ch' = ch \/ ch' = [ch EXCEPT ![n] = Append(@, Head(socket[n]))]
    BY <1>4 DEF Relay
  <2>2. /\ Ascending(Tail(socket[n])) /\ Before(handled[n], Tail(socket[n])) /\ Before(ch[n], Tail(socket[n]))
        /\ \A i \in DOMAIN Tail(socket[n]) : Head(socket[n]) < Tail(socket[n])[i]
        /\ \A i \in DOMAIN handled[n] : handled[n][i] < Head(socket[n])
        /\ \A i \in DOMAIN ch[n] : ch[n][i] < Head(socket[n])
    BY <1>1, <2>1, TailAscending, BeforeTail DEF Queues
  <2>3. Head(socket[n]) \in Nat /\ Tail(socket[n]) \in Seq(Nat)
    BY <1>1, <2>1
  <2>4. /\ Ascending(Append(ch[n], Head(socket[n]))) /\ Before(handled[n], Append(ch[n], Head(socket[n])))
        /\ Before(Append(ch[n], Head(socket[n])), Tail(socket[n]))
    BY <1>1, <2>2, <2>3, AppendAscending, BeforeAppend DEF Queues
  <2>5. Queues'
    BY <1>2, <2>1, <2>2, <2>4 DEF Queues
  <2>6. at[n] # 0 => /\ \A i \in DOMAIN Tail(socket[n]) : at[n] < Tail(socket[n])[i]
                     /\ \A i \in DOMAIN Append(ch[n], Head(socket[n])) : at[n] < Append(ch[n], Head(socket[n]))[i]
    <3> SUFFICES ASSUME at[n] # 0
                 PROVE  /\ \A i \in DOMAIN Tail(socket[n]) : at[n] < Tail(socket[n])[i]
                        /\ \A i \in DOMAIN Append(ch[n], Head(socket[n])) : at[n] < Append(ch[n], Head(socket[n]))[i]
      OBVIOUS
    <3>1. /\ \A i \in DOMAIN socket[n] : at[n] < socket[n][i]
          /\ \A i \in DOMAIN ch[n] : at[n] < ch[n][i]
      BY DEF Current
    <3>2. \A i \in DOMAIN Tail(socket[n]) : at[n] < Tail(socket[n])[i]
      BY <1>1, <2>1, <3>1, TailElements
    <3>3. at[n] < Head(socket[n])
      BY <1>1, <2>1, <3>1, TailElements
    <3>4. \A i \in DOMAIN Append(ch[n], Head(socket[n])) : at[n] < Append(ch[n], Head(socket[n]))[i]
      BY <1>1, <2>3, <3>1, <3>3, AppendElements
    <3> QED
      BY <3>2, <3>4
  <2>7. Current'
    BY <1>2, <2>1, <2>6 DEF Current
  <2> QED
    BY <2>5, <2>7
<1>5. CASE Take(n)
  <2>1. /\ UNCHANGED <<handled, socket>> /\ ch[n] # <<>> /\ ch' = [ch EXCEPT ![n] = Tail(@)]
        /\ at' = [at EXCEPT ![n] = Head(ch[n])]
    BY <1>5 DEF Take
  <2>2. /\ Ascending(Tail(ch[n])) /\ Before(handled[n], Tail(ch[n])) /\ Before(Tail(ch[n]), socket[n])
        /\ \A i \in DOMAIN Tail(ch[n]) : Head(ch[n]) < Tail(ch[n])[i]
        /\ \A i \in DOMAIN handled[n] : handled[n][i] < Head(ch[n])
        /\ \A i \in DOMAIN socket[n] : Head(ch[n]) < socket[n][i]
    BY <1>1, <2>1, TailAscending, BeforeTail DEF Queues
  <2>3. Queues'
    BY <1>2, <2>1, <2>2 DEF Queues
  <2>4. Current'
    BY <1>2, <2>1, <2>2 DEF Current
  <2> QED
    BY <2>3, <2>4
<1>6. CASE Handled(n)
  <2>1. /\ UNCHANGED <<ch, socket>> /\ handled' = [handled EXCEPT ![n] = Append(@, at[n])]
        /\ at' = [at EXCEPT ![n] = 0] /\ at[n] # 0
    BY <1>6 DEF TypeOK, Handled
  <2>2. /\ Ascending(Append(handled[n], at[n])) /\ Before(Append(handled[n], at[n]), ch[n])
        /\ Before(Append(handled[n], at[n]), socket[n])
    BY <1>1, <2>1, AppendAscending, BeforeAppend DEF Queues, Current
  <2>3. Queues'
    BY <1>2, <2>1, <2>2 DEF Queues
  <2>4. Current'
    BY <1>2, <2>1 DEF Current
  <2> QED
    BY <2>3, <2>4
<1>7. CASE Done(n)
  <2>1. UNCHANGED <<handled, at>> /\ socket' = [socket EXCEPT ![n] = <<>>] /\ ch' = [ch EXCEPT ![n] = <<>>]
    BY <1>7 DEF Done
  <2> QED
    BY <1>2, <2>1 DEF Queues, Current, Ascending, Before
<1> QED
  BY <1>3, <1>4, <1>5, <1>6, <1>7
     DEF Subscriber, Subscribe, Receive, Cancel, Disconnect, Break, Reconnect

LEMMA NextIInv == IInv /\ [Next]_vars => IInv'
<1> SUFFICES ASSUME IInv, [Next]_vars
             PROVE  IInv'
  OBVIOUS
<1>1. ASSUME NEW m \in Messages, Sends(m)
      PROVE  IInv'
  BY <1>1, SendTypes, SendOrder DEF IInv
<1>2. ASSUME NEW n \in Nodes, Subscriber(n)
      PROVE  IInv'
  BY <1>2, SubscriberTypes, SubscriberOrder DEF IInv
<1>3. ASSUME NEW m \in Messages, Reply(m)
      PROVE  IInv'
  BY <1>3 DEF IInv, TypeOK, Queues, Current, Reply, nodeVars, Place
<1>4. CASE UNCHANGED vars
  BY <1>4 DEF IInv, TypeOK, Queues, Current, vars, nodeVars, Place
<1> QED
  BY <1>1, <1>2, <1>3, <1>4, Steps

-----------------------------------------------------------------------------
(* Theorems *)

THEOREM Invariance == Spec => []IInv
BY InitIInv, NextIInv, PTL DEF Spec

\* Every variable keeps its type; in particular the channel never holds more than
\* it has room for.
THEOREM TypeCorrect == Spec => []TypeOK
BY Invariance, PTL DEF IInv

\* Every node is given the messages in the order of Redis, none of them twice.
THEOREM HandedOutInOrder == Spec => []InOrder
<1>1. IInv => InOrder
  BY DEF IInv, Queues, Ascending, InOrder
<1> QED
  BY <1>1, Invariance, PTL
==================================================================================
