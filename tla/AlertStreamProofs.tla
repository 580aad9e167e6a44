-------------------------- MODULE AlertStreamProofs --------------------------
(***************************************************************************)
(* Theorems about AlertStream, for every set of connections, clients,      *)
(* devices and dispatchers, every buffer size and every number of alerts.  *)
(***************************************************************************)
EXTENDS AlertStream, FiniteSetTheorems, TLAPS

(***************************************************************************)
(* Type correctness.                                                       *)
(***************************************************************************)
LEMMA TypeInit == Init => TypeOK
BY DEF Init, TypeOK, Filter, HandlerStates, PCs

LEMMA TypeHandler ==
    ASSUME TypeOK, NEW s \in SubIds,
           \/ \E c \in Clients, f \in Devices \cup {NoDevice} : Subscribe(s, c, f)
           \/ Cancel(s) \/ HandlerStep(s)
    PROVE  TypeOK'
<1>1. CASE \E c \in Clients, f \in Devices \cup {NoDevice} : Subscribe(s, c, f)
  BY <1>1 DEF TypeOK, Subscribe, dispatchVars, Filter, HandlerStates
<1>2. CASE Cancel(s)
  BY <1>2 DEF TypeOK, Cancel, dispatchVars, HandlerStates
<1>3. CASE WriteAlert(s)
  BY <1>3 DEF TypeOK, WriteAlert, dispatchVars
<1>4. CASE Unsubscribe(s)
  BY <1>4 DEF TypeOK, Unsubscribe, dispatchVars, HandlerStates
<1>. QED  BY <1>1, <1>2, <1>3, <1>4 DEF HandlerStep

LEMMA TypeDispatch ==
    ASSUME TypeOK, NEW d \in Dispatchers,
           (\E dev \in Devices : Dispatch(d, dev)) \/ DispatchStep(d)
    PROVE  TypeOK'
<1>1. CASE \E dev \in Devices : Dispatch(d, dev)
  BY <1>1 DEF TypeOK, Dispatch, PCs
<1>2. CASE Return(d)
  BY <1>2 DEF TypeOK, Return, PCs
<1>3. ASSUME NEW s \in SubIds, Skip(d, s)  PROVE TypeOK'
  BY <1>3 DEF TypeOK, Skip
<1>4. ASSUME NEW s \in SubIds, TrySend(d, s)  PROVE TypeOK'
  BY <1>4 DEF TypeOK, TrySend
<1>5. ASSUME NEW s \in SubIds, FindFull(d, s)  PROVE TypeOK'
  BY <1>5 DEF TypeOK, FindFull, PCs
<1>6. ASSUME NEW s \in SubIds, DropOldest(d, s)  PROVE TypeOK'
  BY <1>6 DEF TypeOK, DropOldest, PCs
<1>7. ASSUME NEW s \in SubIds, BlockingSend(d, s)  PROVE TypeOK'
  BY <1>7 DEF TypeOK, BlockingSend, PCs
<1>. QED  BY <1>1, <1>2, <1>3, <1>4, <1>5, <1>6, <1>7 DEF DispatchStep

LEMMA TypeStep == TypeOK /\ [Next]_vars => TypeOK'
<1>. SUFFICES ASSUME TypeOK, [Next]_vars  PROVE TypeOK'
  OBVIOUS
<1>1. CASE UNCHANGED vars
  BY <1>1 DEF TypeOK, vars, dispatchVars
<1>2. CASE Next
  BY <1>2, TypeHandler, TypeDispatch DEF Next
<1>. QED  BY <1>1, <1>2

\* Every variable keeps its type.
THEOREM TypeCorrect == Spec => []TypeOK
BY TypeInit, TypeStep, PTL DEF Spec

(***************************************************************************)
(* The blocking send never blocks.                                         *)
(*                                                                         *)
(* A channel never holds more than BufferSize alerts, and a dispatcher has *)
(* at most one subscriber in hand.  Between its receive and its send the   *)
(* handler can only make more room, and a second dispatcher, which could   *)
(* take the room away, does not exist.                                     *)
(***************************************************************************)
QueueBound == \A s \in SubIds : Len(queue[s]) <= BufferSize

InHand ==
    \A d \in Dispatchers :
        IF pc[d] \in {"drop", "send"} THEN \E s \in SubIds : cur[d] = {s} ELSE cur[d] = {}

RoomInv == QueueBound /\ InHand /\ NeverBlocks

LEMMA RoomStep == TypeOK /\ RoomInv /\ [Next]_vars => RoomInv'
<1>. SUFFICES ASSUME TypeOK, RoomInv, [Next]_vars  PROVE RoomInv'
  OBVIOUS
<1>. USE BufferAssumption DEF RoomInv, QueueBound, InHand, NeverBlocks, OneDispatcher, TypeOK
<1>1. CASE UNCHANGED vars
  BY <1>1 DEF vars, dispatchVars
<1>2. ASSUME NEW s \in SubIds, NEW c, NEW f, Subscribe(s, c, f)  PROVE RoomInv'
  BY <1>2 DEF Subscribe, dispatchVars
<1>3. ASSUME NEW s \in SubIds, WriteAlert(s)  PROVE RoomInv'
  <2>1. Len(queue'[s]) < Len(queue[s]) /\ \A t \in SubIds \ {s} : queue'[t] = queue[t]
    BY <1>3 DEF WriteAlert
  <2>. QED  BY <2>1, <1>3 DEF WriteAlert, dispatchVars
<1>4. ASSUME NEW s \in SubIds, Cancel(s) \/ Unsubscribe(s)  PROVE RoomInv'
  BY <1>4 DEF Cancel, Unsubscribe, dispatchVars
<1>5. ASSUME NEW d \in Dispatchers, NEW dev, Dispatch(d, dev)  PROVE RoomInv'
  BY <1>5 DEF Dispatch
<1>6. ASSUME NEW d \in Dispatchers, Return(d)  PROVE RoomInv'
  BY <1>6 DEF Return
<1>7. ASSUME NEW d \in Dispatchers, NEW s \in SubIds, Skip(d, s)  PROVE RoomInv'
  BY <1>7 DEF Skip
<1>8. ASSUME NEW d \in Dispatchers, NEW s \in SubIds, TrySend(d, s)  PROVE RoomInv'
  <2>1. Len(queue'[s]) <= BufferSize /\ \A t \in SubIds \ {s} : queue'[t] = queue[t]
    BY <1>8 DEF TrySend
  <2>. QED  BY <2>1, <1>8 DEF TrySend
<1>9. ASSUME NEW d \in Dispatchers, NEW s \in SubIds, FindFull(d, s)  PROVE RoomInv'
  BY <1>9 DEF FindFull
<1>10. ASSUME NEW d \in Dispatchers, NEW s \in SubIds, DropOldest(d, s)  PROVE RoomInv'
  <2>1. Len(queue'[s]) < BufferSize /\ \A t \in SubIds \ {s} : queue'[t] = queue[t]
    BY <1>10 DEF DropOldest
  <2>2. \A t \in SubIds : Len(queue'[t]) <= Len(queue[t])
    BY <1>10 DEF DropOldest
  <2>. QED  BY <2>1, <2>2, <1>10 DEF DropOldest
<1>11. ASSUME NEW d \in Dispatchers, NEW s \in SubIds, BlockingSend(d, s)  PROVE RoomInv'
  <2>1. Len(queue'[s]) <= BufferSize /\ \A t \in SubIds \ {s} : queue'[t] = queue[t]
    BY <1>11 DEF BlockingSend
  <2>. QED  BY <2>1, <1>11 DEF BlockingSend
<1>. QED
  BY <1>1, <1>2, <1>3, <1>4, <1>5, <1>6, <1>7, <1>8, <1>9, <1>10, <1>11
  DEF Next, HandlerStep, DispatchStep

\* With the one dispatching goroutine the program has, the last send of
\* Dispatch always finds room, for any number of connections doing anything.
THEOREM BlockingSendFindsRoom == Spec => []NeverBlocks
<1>1. Init => RoomInv
  BY BufferAssumption DEF Init, RoomInv, QueueBound, InHand, NeverBlocks
<1>2. RoomInv => NeverBlocks
  BY DEF RoomInv
<1>. QED  BY <1>1, <1>2, TypeCorrect, RoomStep, PTL DEF Spec

(***************************************************************************)
(* Isolation.                                                              *)
(*                                                                         *)
(* Whatever is in a channel, was written to a response, or is about to be  *)
(* sent is an alert the subscriber is entitled to.  A subscriber that a    *)
(* dispatcher has in its copy was in the map when that alert was           *)
(* dispatched, so a later Unsubscribe comes with a later until.            *)
(***************************************************************************)
\* Alert n was dispatched while s was subscribed.
InTime(s, n) ==
    /\ n \in since[s] + 1 .. Len(log)
    /\ handler[s] = "left" => n <= until[s]

Entitled(s, n) == InTime(s, n) /\ Matches(s, n)

MapInv ==
    \A s \in SubIds :
        /\ s \in subscribers <=> handler[s] \in {"streaming", "cancelled"}
        /\ since[s] <= Len(log)
        /\ handler[s] = "idle" => /\ queue[s] = << >> /\ written[s] = << >>
                                  /\ \A d \in Dispatchers : s \notin todo[d] \cup cur[d]

ChannelInv ==
    \A s \in SubIds :
        /\ \A i \in 1 .. Len(queue[s]) : Entitled(s, queue[s][i])
        /\ \A i \in 1 .. Len(written[s]) : Entitled(s, written[s][i])

DispatchInv ==
    \A d \in Dispatchers :
        /\ \A s \in todo[d] : InTime(s, alert[d])
        /\ \A s \in cur[d] : Entitled(s, alert[d])

EntitledInv == MapInv /\ ChannelInv /\ DispatchInv

LEMMA TailElements ==
    ASSUME NEW q \in Seq(Nat), q # << >>
    PROVE  /\ Len(q) \in Nat \ {0}
           /\ Len(Tail(q)) = Len(q) - 1
           /\ \A i \in 1 .. Len(Tail(q)) : Tail(q)[i] = q[i + 1]
           /\ Head(q) = q[1]
OBVIOUS

LEMMA AppendElements ==
    ASSUME NEW q \in Seq(Nat), NEW n \in Nat
    PROVE  /\ Len(q) \in Nat
           /\ Len(Append(q, n)) = Len(q) + 1
           /\ \A i \in 1 .. Len(q) : Append(q, n)[i] = q[i]
           /\ Append(q, n)[Len(q) + 1] = n
OBVIOUS

LEMMA ConcatElements ==
    ASSUME NEW p \in Seq(Nat), NEW q \in Seq(Nat), NEW i \in DOMAIN (p \o q)
    PROVE  /\ Len(p) \in Nat /\ Len(q) \in Nat /\ i \in Nat
           /\ \/ i \in 1 .. Len(p) /\ (p \o q)[i] = p[i]
              \/ i - Len(p) \in 1 .. Len(q) /\ (p \o q)[i] = q[i - Len(p)]
<1>1. Len(p) \in Nat /\ Len(q) \in Nat /\ p \o q \in Seq(Nat)
  OBVIOUS
<1>2. Len(p \o q) = Len(p) + Len(q)
  OBVIOUS
<1>3. i \in 1 .. Len(p) + Len(q)
  BY <1>1, <1>2
<1>. QED  BY <1>1, <1>3

LEMMA ElementTypes ==
    ASSUME TypeOK, NEW s \in SubIds
    PROVE  /\ queue[s] \in Seq(Nat) /\ written[s] \in Seq(Nat)
           /\ \A i \in 1 .. Len(queue[s]) : queue[s][i] \in Nat
           /\ \A i \in 1 .. Len(written[s]) : written[s][i] \in Nat
<1>1. queue[s] \in Seq(Nat) /\ written[s] \in Seq(Nat)
  BY DEF TypeOK
<1>. QED  BY <1>1

LEMMA EntitledInit == Init => EntitledInv
BY DEF Init, EntitledInv, MapInv, ChannelInv, DispatchInv

\* A step that touches neither channels nor responses, nor takes from anybody
\* what he is entitled to.
LEMMA SameChannels ==
    ASSUME TypeOK, ChannelInv, queue' = queue, written' = written,
           \A t \in SubIds, n \in Nat : Entitled(t, n) => Entitled(t, n)'
    PROVE  ChannelInv'
<1>1. ASSUME NEW t \in SubIds, NEW i \in 1 .. Len(queue[t])
      PROVE  Entitled(t, queue[t][i])'
  <2>1. queue[t][i] \in Nat /\ Entitled(t, queue[t][i])
    BY ElementTypes DEF ChannelInv
  <2>. QED  BY <2>1
<1>2. ASSUME NEW t \in SubIds, NEW i \in 1 .. Len(written[t])
      PROVE  Entitled(t, written[t][i])'
  <2>1. written[t][i] \in Nat /\ Entitled(t, written[t][i])
    BY ElementTypes DEF ChannelInv
  <2>. QED  BY <2>1
<1>. QED  BY <1>1, <1>2 DEF ChannelInv

\* The same of a step that touches no call of Dispatch.
LEMMA SameCalls ==
    ASSUME TypeOK, DispatchInv, todo' = todo, cur' = cur, alert' = alert,
           \A t \in SubIds, n \in Nat :
               (InTime(t, n) => InTime(t, n)') /\ (Entitled(t, n) => Entitled(t, n)')
    PROVE  DispatchInv'
<1>1. \A d \in Dispatchers : todo[d] \cup cur[d] \subseteq SubIds /\ alert[d] \in Nat
  BY DEF TypeOK
<1>. QED  BY <1>1 DEF DispatchInv

LEMMA EntitledHandler ==
    ASSUME TypeOK, TypeOK', EntitledInv, NEW s \in SubIds,
           \/ \E c \in Clients, f \in Devices \cup {NoDevice} : Subscribe(s, c, f)
           \/ Cancel(s) \/ HandlerStep(s)
    PROVE  EntitledInv'
<1>1. CASE \E c \in Clients, f \in Devices \cup {NoDevice} : Subscribe(s, c, f)
  <2>1. handler[s] = "idle" /\ queue[s] = << >> /\ written[s] = << >>
    BY <1>1 DEF Subscribe, EntitledInv, MapInv
  <2>2. \A t \in SubIds \ {s}, n \in Nat :
          (InTime(t, n) => InTime(t, n)') /\ (Entitled(t, n) => Entitled(t, n)')
    BY <1>1 DEF TypeOK, Subscribe, InTime, Entitled, Matches
  <2>3. MapInv'
    BY <1>1 DEF TypeOK, Subscribe, EntitledInv, MapInv, dispatchVars
  <2>4. ChannelInv'
    <3>1. queue' = queue /\ written' = written
      BY <1>1 DEF Subscribe
    <3>2. ASSUME NEW t \in SubIds \ {s}, NEW i \in 1 .. Len(queue[t])
          PROVE  Entitled(t, queue[t][i])'
      <4>1. queue[t][i] \in Nat /\ Entitled(t, queue[t][i])
        BY ElementTypes DEF EntitledInv, ChannelInv
      <4>. QED  BY <2>2, <3>1, <4>1
    <3>3. ASSUME NEW t \in SubIds \ {s}, NEW i \in 1 .. Len(written[t])
          PROVE  Entitled(t, written[t][i])'
      <4>1. written[t][i] \in Nat /\ Entitled(t, written[t][i])
        BY ElementTypes DEF EntitledInv, ChannelInv
      <4>. QED  BY <2>2, <3>1, <4>1
    <3>. QED  BY <2>1, <3>1, <3>2, <3>3 DEF ChannelInv
  <2>5. DispatchInv'
    <3>1. todo' = todo /\ cur' = cur /\ alert' = alert
      BY <1>1 DEF Subscribe, dispatchVars
    <3>2. \A d \in Dispatchers :
            s \notin todo[d] \cup cur[d] /\ todo[d] \cup cur[d] \subseteq SubIds /\ alert[d] \in Nat
      BY <2>1 DEF TypeOK, EntitledInv, MapInv
    <3>. QED  BY <2>2, <3>1, <3>2 DEF EntitledInv, DispatchInv
  <2>. QED  BY <2>3, <2>4, <2>5 DEF EntitledInv
<1>2. CASE Cancel(s)
  <2>1. \A t \in SubIds, n \in Nat :
          (InTime(t, n) => InTime(t, n)') /\ (Entitled(t, n) => Entitled(t, n)')
    BY <1>2 DEF TypeOK, Cancel, InTime, Entitled, Matches
  <2>2. MapInv'
    BY <1>2 DEF TypeOK, Cancel, EntitledInv, MapInv, dispatchVars
  <2>3. ChannelInv'
    <3>1. queue' = queue /\ written' = written
      BY <1>2 DEF Cancel
    <3>. QED  BY <2>1, <3>1, SameChannels DEF EntitledInv
  <2>4. DispatchInv'
    <3>1. todo' = todo /\ cur' = cur /\ alert' = alert
      BY <1>2 DEF Cancel, dispatchVars
    <3>. QED  BY <2>1, <3>1, SameCalls DEF EntitledInv
  <2>. QED  BY <2>2, <2>3, <2>4 DEF EntitledInv
<1>3. CASE Unsubscribe(s)
  <2>1. \A t \in SubIds, n \in Nat :
          (InTime(t, n) => InTime(t, n)') /\ (Entitled(t, n) => Entitled(t, n)')
    BY <1>3 DEF TypeOK, Unsubscribe, InTime, Entitled, Matches
  <2>2. MapInv'
    BY <1>3 DEF TypeOK, Unsubscribe, EntitledInv, MapInv, dispatchVars
  <2>3. ChannelInv'
    <3>1. queue' = queue /\ written' = written
      BY <1>3 DEF Unsubscribe
    <3>. QED  BY <2>1, <3>1, SameChannels DEF EntitledInv
  <2>4. DispatchInv'
    <3>1. todo' = todo /\ cur' = cur /\ alert' = alert
      BY <1>3 DEF Unsubscribe, dispatchVars
    <3>. QED  BY <2>1, <3>1, SameCalls DEF EntitledInv
  <2>. QED  BY <2>2, <2>3, <2>4 DEF EntitledInv
<1>4. CASE WriteAlert(s)
  <2>1. \A t \in SubIds, n \in Nat :
          (InTime(t, n) => InTime(t, n)') /\ (Entitled(t, n) => Entitled(t, n)')
    BY <1>4 DEF TypeOK, WriteAlert, InTime, Entitled, Matches
  <2>2. MapInv'
    BY <1>4 DEF TypeOK, WriteAlert, EntitledInv, MapInv, dispatchVars
  <2>3. ChannelInv'
    <3>1. \A t \in SubIds \ {s} : queue'[t] = queue[t] /\ written'[t] = written[t]
      BY <1>4 DEF TypeOK, WriteAlert
    <3>2. /\ queue[s] # << >>
          /\ queue'[s] = Tail(queue[s])
          /\ written'[s] = Append(written[s], queue[s][1])
      BY <1>4, ElementTypes, TailElements DEF TypeOK, WriteAlert
    <3>3. /\ Len(queue[s]) \in Nat \ {0}
          /\ Len(queue'[s]) = Len(queue[s]) - 1
          /\ \A i \in 1 .. Len(queue'[s]) : queue'[s][i] = queue[s][i + 1]
      BY <3>2, ElementTypes, TailElements
    <3>4. /\ Len(written[s]) \in Nat
          /\ Len(written'[s]) = Len(written[s]) + 1
          /\ \A i \in 1 .. Len(written[s]) : written'[s][i] = written[s][i]
          /\ written'[s][Len(written[s]) + 1] = queue[s][1]
      BY <3>2, <3>3, ElementTypes, AppendElements
    <3>5. ASSUME NEW i \in 1 .. Len(queue'[s])  PROVE Entitled(s, queue[s][i])'
      <4>1. \E j \in 1 .. Len(queue[s]) : queue'[s][i] = queue[s][j]
        BY <3>3
      <4>2. queue'[s][i] \in Nat /\ Entitled(s, queue'[s][i])
        BY <4>1, ElementTypes DEF EntitledInv, ChannelInv
      <4>. QED  BY <2>1, <4>2
    <3>6. ASSUME NEW i \in 1 .. Len(written'[s])  PROVE Entitled(s, written[s][i])'
      <4>1. \/ \E j \in 1 .. Len(written[s]) : written'[s][i] = written[s][j]
            \/ written'[s][i] = queue[s][1] /\ 1 \in 1 .. Len(queue[s])
        BY <3>3, <3>4
      <4>2. written'[s][i] \in Nat /\ Entitled(s, written'[s][i])
        BY <4>1, ElementTypes DEF EntitledInv, ChannelInv
      <4>. QED  BY <2>1, <4>2
    <3>7. ASSUME NEW t \in SubIds \ {s}, NEW i \in 1 .. Len(queue'[t])
          PROVE  Entitled(t, queue[t][i])'
      <4>1. queue'[t][i] \in Nat /\ Entitled(t, queue'[t][i])
        BY <3>1, ElementTypes DEF EntitledInv, ChannelInv
      <4>. QED  BY <2>1, <4>1
    <3>8. ASSUME NEW t \in SubIds \ {s}, NEW i \in 1 .. Len(written'[t])
          PROVE  Entitled(t, written[t][i])'
      <4>1. written'[t][i] \in Nat /\ Entitled(t, written'[t][i])
        BY <3>1, ElementTypes DEF EntitledInv, ChannelInv
      <4>. QED  BY <2>1, <4>1
    <3>. QED  BY <3>5, <3>6, <3>7, <3>8 DEF ChannelInv
  <2>4. DispatchInv'
    BY <1>4, <2>1 DEF TypeOK, WriteAlert, EntitledInv, DispatchInv, dispatchVars
  <2>. QED  BY <2>2, <2>3, <2>4 DEF EntitledInv
<1>. QED  BY <1>1, <1>2, <1>3, <1>4 DEF HandlerStep

LEMMA EntitledDispatch ==
    ASSUME TypeOK, TypeOK', InHand, EntitledInv, NEW d \in Dispatchers,
           (\E dev \in Devices : Dispatch(d, dev)) \/ DispatchStep(d)
    PROVE  EntitledInv'
<1>1. CASE \E dev \in Devices : Dispatch(d, dev)
  <2>1. /\ Len(log') = Len(log) + 1 /\ Len(log) \in Nat
        /\ \A n \in 1 .. Len(log) : log'[n] = log[n]
    BY <1>1 DEF TypeOK, Dispatch
  <2>2. \A t \in SubIds, n \in Nat :
          (InTime(t, n) => InTime(t, n)') /\ (Entitled(t, n) => Entitled(t, n)')
    BY <1>1, <2>1 DEF TypeOK, Dispatch, InTime, Entitled, Matches
  <2>3. MapInv'
    <3>1. \A t \in SubIds : since[t] \in Nat /\ since[t] <= Len(log')
      BY <2>1 DEF TypeOK, EntitledInv, MapInv
    <3>2. \A t \in SubIds, e \in Dispatchers : t \in todo'[e] => t \in subscribers \cup todo[e]
      BY <1>1 DEF TypeOK, Dispatch
    <3>. QED  BY <1>1, <3>1, <3>2 DEF Dispatch, EntitledInv, MapInv
  <2>4. ChannelInv'
    BY <1>1, <2>2, ElementTypes DEF Dispatch, EntitledInv, ChannelInv
  <2>5. ASSUME NEW t \in todo'[d]  PROVE InTime(t, alert[d])'
    <3>1. t \in subscribers /\ t \in SubIds /\ alert'[d] = Len(log) + 1 /\ handler' = handler /\ since' = since
      BY <1>1 DEF TypeOK, Dispatch
    <3>2. handler[t] # "left" /\ since[t] \in Nat /\ since[t] <= Len(log)
      BY <3>1 DEF TypeOK, EntitledInv, MapInv
    <3>. QED  BY <2>1, <3>1, <3>2 DEF InTime
  <2>6. DispatchInv'
    <3>1. \A e \in Dispatchers \ {d} : todo'[e] = todo[e] /\ cur'[e] = cur[e] /\ alert'[e] = alert[e]
      BY <1>1 DEF TypeOK, Dispatch
    <3>2. cur'[d] = {}
      BY <1>1 DEF Dispatch, InHand
    <3>3. ASSUME NEW e \in Dispatchers \ {d}, NEW t \in todo'[e]  PROVE InTime(t, alert[e])'
      <4>1. t \in SubIds /\ alert[e] \in Nat /\ InTime(t, alert[e])
        BY <3>1 DEF TypeOK, EntitledInv, DispatchInv
      <4>. QED  BY <2>2, <3>1, <4>1
    <3>4. ASSUME NEW e \in Dispatchers \ {d}, NEW t \in cur'[e]  PROVE Entitled(t, alert[e])'
      <4>1. t \in SubIds /\ alert[e] \in Nat /\ Entitled(t, alert[e])
        BY <3>1 DEF TypeOK, EntitledInv, DispatchInv
      <4>. QED  BY <2>2, <3>1, <4>1
    <3>. QED  BY <2>5, <3>2, <3>3, <3>4 DEF DispatchInv
  <2>. QED  BY <2>3, <2>4, <2>6 DEF EntitledInv
<1>2. CASE DispatchStep(d)
  <2>1. UNCHANGED <<subscribers, sub, handler, written, log, alert, since, until>>
    BY <1>2 DEF DispatchStep, Return, Skip, TrySend, FindFull, DropOldest, BlockingSend
  <2>2. \A t \in SubIds, n \in Nat :
          (InTime(t, n) <=> InTime(t, n)') /\ (Entitled(t, n) <=> Entitled(t, n)')
    BY <2>1 DEF InTime, Entitled, Matches
  \* What d has in hand was in its copy, and FindFull has compared it.
  <2>. DEFINE InHandSteps ==
        /\ \A e \in Dispatchers : todo'[e] \subseteq todo[e]
        /\ \A e \in Dispatchers : cur'[e] \subseteq cur[e] \cup todo[e]
        /\ \A e \in Dispatchers : \A t \in cur'[e] \ cur[e] : Matches(t, alert[e])
  <2>3. InHandSteps
    <3>1. CASE Return(d)
      BY <3>1 DEF TypeOK, Return
    <3>2. ASSUME NEW s \in SubIds, Skip(d, s) \/ TrySend(d, s)
          PROVE  InHandSteps
      BY <3>2 DEF TypeOK, Skip, TrySend
    <3>3. ASSUME NEW s \in SubIds, FindFull(d, s)
          PROVE  InHandSteps
      BY <3>3 DEF TypeOK, FindFull
    <3>4. ASSUME NEW s \in SubIds, DropOldest(d, s) \/ BlockingSend(d, s)
          PROVE  InHandSteps
      BY <3>4 DEF TypeOK, DropOldest, BlockingSend
    <3>. QED  BY <1>2, <3>1, <3>2, <3>3, <3>4 DEF DispatchStep
  \* A channel loses its head, or gains the alert in hand, or neither.
  <2>. DEFINE ChannelSteps ==
        \A t \in SubIds :
          \/ queue'[t] = queue[t]
          \/ queue[t] # << >> /\ queue'[t] = Tail(queue[t])
          \/ queue'[t] = Append(queue[t], alert[d]) /\ Entitled(t, alert[d])
  <2>4. ChannelSteps
    <3>1. ASSUME NEW s \in SubIds, TrySend(d, s)
          PROVE  ChannelSteps
      BY <3>1 DEF TypeOK, TrySend, EntitledInv, DispatchInv, Entitled
    <3>2. ASSUME NEW s \in SubIds, BlockingSend(d, s)
          PROVE  ChannelSteps
      BY <3>2 DEF TypeOK, BlockingSend, EntitledInv, DispatchInv
    <3>3. ASSUME NEW s \in SubIds, DropOldest(d, s)
          PROVE  ChannelSteps
      BY <3>3 DEF TypeOK, DropOldest
    <3>. QED  BY <1>2, <3>1, <3>2, <3>3 DEF DispatchStep, Return, Skip, FindFull
  <2>5. MapInv'
    \* Nobody in a copy is still idle, so no idle channel is touched.
    <3>1. ASSUME NEW t \in SubIds, handler[t] = "idle"
          PROVE  /\ queue'[t] = << >>
                 /\ \A e \in Dispatchers : t \notin todo'[e] \cup cur'[e]
      <4>1. queue[t] = << >> /\ \A e \in Dispatchers : t \notin todo[e] \cup cur[e]
        BY <3>1 DEF EntitledInv, MapInv
      <4>2. queue'[t] = queue[t]
        BY <1>2, <4>1 DEF DispatchStep, Return, Skip, TrySend, FindFull, DropOldest,
                          BlockingSend, TypeOK
      <4>. QED  BY <2>3, <4>1, <4>2
    <3>. QED  BY <2>1, <3>1 DEF EntitledInv, MapInv
  <2>6. ASSUME NEW t \in SubIds, NEW i \in 1 .. Len(queue'[t])  PROVE Entitled(t, queue[t][i])'
    <3>1. queue[t] \in Seq(Nat) /\ alert[d] \in Nat
      BY DEF TypeOK
    <3>2. \/ \E j \in 1 .. Len(queue[t]) : queue'[t][i] = queue[t][j]
          \/ queue'[t][i] = alert[d] /\ Entitled(t, alert[d])
      <4>1. CASE queue'[t] = queue[t]
        BY <4>1
      <4>2. CASE queue[t] # << >> /\ queue'[t] = Tail(queue[t])
        <5>1. /\ Len(queue[t]) \in Nat \ {0} /\ Len(queue'[t]) = Len(queue[t]) - 1
              /\ \A j \in 1 .. Len(queue'[t]) : queue'[t][j] = queue[t][j + 1]
          BY <3>1, <4>2, TailElements
        <5>2. i + 1 \in 1 .. Len(queue[t]) /\ queue'[t][i] = queue[t][i + 1]
          BY <5>1
        <5>. QED  BY <5>2
      <4>3. CASE queue'[t] = Append(queue[t], alert[d]) /\ Entitled(t, alert[d])
        BY <3>1, <4>3, AppendElements
      <4>. QED  BY <2>4, <4>1, <4>2, <4>3
    <3>3. queue'[t][i] \in Nat /\ Entitled(t, queue'[t][i])
      BY <3>1, <3>2, ElementTypes DEF EntitledInv, ChannelInv
    <3>. QED  BY <2>2, <3>3
  <2>7. ChannelInv'
    <3>1. ASSUME NEW t \in SubIds, NEW i \in 1 .. Len(written'[t])  PROVE Entitled(t, written[t][i])'
      <4>1. written'[t][i] \in Nat /\ Entitled(t, written'[t][i])
        BY <2>1, ElementTypes DEF EntitledInv, ChannelInv
      <4>. QED  BY <2>2, <4>1
    <3>. QED  BY <2>6, <3>1 DEF ChannelInv
  <2>8. DispatchInv'
    <3>1. ASSUME NEW e \in Dispatchers, NEW t \in todo'[e]  PROVE InTime(t, alert[e])'
      <4>1. t \in SubIds /\ alert'[e] \in Nat /\ InTime(t, alert'[e])
        BY <2>1, <2>3 DEF TypeOK, EntitledInv, DispatchInv
      <4>. QED  BY <2>2, <4>1
    <3>2. ASSUME NEW e \in Dispatchers, NEW t \in cur'[e]  PROVE Entitled(t, alert[e])'
      <4>1. t \in SubIds /\ alert'[e] \in Nat /\ Entitled(t, alert'[e])
        BY <2>1, <2>3 DEF TypeOK, EntitledInv, DispatchInv, Entitled
      <4>. QED  BY <2>2, <4>1
    <3>. QED  BY <3>1, <3>2 DEF DispatchInv
  <2>. QED  BY <2>5, <2>7, <2>8 DEF EntitledInv
<1>. QED  BY <1>1, <1>2

LEMMA EntitledStep ==
    TypeOK /\ TypeOK' /\ RoomInv /\ EntitledInv /\ [Next]_vars => EntitledInv'
<1>. SUFFICES ASSUME TypeOK, TypeOK', RoomInv, EntitledInv, [Next]_vars  PROVE EntitledInv'
  OBVIOUS
<1>1. CASE UNCHANGED vars
  BY <1>1 DEF vars, dispatchVars, EntitledInv, MapInv, ChannelInv, DispatchInv,
              Entitled, InTime, Matches
<1>2. CASE Next
  BY <1>2, EntitledHandler, EntitledDispatch DEF Next, RoomInv
<1>. QED  BY <1>1, <1>2

\* The two invariants so far, with the types they rest on.
THEOREM StreamInvariant == Spec => [](TypeOK /\ RoomInv /\ EntitledInv)
<1>1. Init => RoomInv
  BY BufferAssumption DEF Init, RoomInv, QueueBound, InHand, NeverBlocks
<1>. QED  BY <1>1, TypeInit, TypeStep, RoomStep, EntitledInit, EntitledStep, PTL DEF Spec

\* No connection is handed an alert of another client or device, or one
\* dispatched outside its subscription, for any number of dispatchers.
THEOREM StreamIsolation == Spec => []Isolation
<1>1. TypeOK /\ EntitledInv => Isolation
  <2>. SUFFICES ASSUME TypeOK, EntitledInv, NEW s \in SubIds, NEW i \in DOMAIN Reached(s)
                PROVE  Entitled(s, Reached(s)[i])
    BY DEF Isolation, Entitled, InTime, Owed
  <2>1. queue[s] \in Seq(Nat) /\ written[s] \in Seq(Nat)
    BY DEF TypeOK
  <2>2. \/ i \in 1 .. Len(written[s]) /\ Reached(s)[i] = written[s][i]
        \/ i - Len(written[s]) \in 1 .. Len(queue[s]) /\ Reached(s)[i] = queue[s][i - Len(written[s])]
    BY <2>1, ConcatElements DEF Reached
  <2>. QED  BY <2>2 DEF EntitledInv, ChannelInv
<1>. QED  BY <1>1, StreamInvariant, PTL

(***************************************************************************)
(* Order.                                                                  *)
(*                                                                         *)
(* What a connection has been written comes before what its channel holds, *)
(* and both before the alert that a dispatcher is about to send it.        *)
(***************************************************************************)
Below(s, n) ==
    /\ \A i \in 1 .. Len(queue[s]) : queue[s][i] < n
    /\ \A i \in 1 .. Len(written[s]) : written[s][i] < n

Sorted(s) ==
    /\ \A i, j \in 1 .. Len(queue[s]) : i < j => queue[s][i] < queue[s][j]
    /\ \A i, j \in 1 .. Len(written[s]) : i < j => written[s][i] < written[s][j]
    /\ \A i \in 1 .. Len(written[s]), j \in 1 .. Len(queue[s]) : written[s][i] < queue[s][j]

AheadInv ==
    \A d \in Dispatchers :
        /\ todo[d] \cap cur[d] = {}
        /\ \A s \in todo[d] \cup cur[d] : Below(s, alert[d])

OrderInv == OneDispatcher => AheadInv /\ \A s \in SubIds : Sorted(s)

LEMMA OrderWrite ==
    ASSUME TypeOK, OrderInv, NEW s \in SubIds, WriteAlert(s)
    PROVE  OrderInv'
<1>. SUFFICES ASSUME OneDispatcher  PROVE AheadInv' /\ \A t \in SubIds : Sorted(t)'
  BY DEF OrderInv, OneDispatcher
<1>. DEFINE q == queue[s]
            w == written[s]
<1>1. \A t \in SubIds \ {s} : queue'[t] = queue[t] /\ written'[t] = written[t]
  BY DEF TypeOK, WriteAlert
<1>2. q # << >> /\ queue'[s] = Tail(q) /\ written'[s] = Append(w, q[1])
  BY ElementTypes, TailElements DEF TypeOK, WriteAlert
<1>3. /\ Len(q) \in Nat \ {0}
      /\ Len(queue'[s]) = Len(q) - 1
      /\ \A i \in 1 .. Len(queue'[s]) : i + 1 \in 1 .. Len(q) /\ queue'[s][i] = q[i + 1]
  BY <1>2, ElementTypes, TailElements
<1>4. /\ Len(w) \in Nat
      /\ Len(written'[s]) = Len(w) + 1
      /\ \A i \in 1 .. Len(w) : written'[s][i] = w[i]
      /\ written'[s][Len(w) + 1] = q[1]
  BY <1>2, <1>3, ElementTypes, AppendElements
<1>5. (\A i \in 1 .. Len(q) : q[i] \in Nat) /\ \A i \in 1 .. Len(w) : w[i] \in Nat
  BY ElementTypes
<1>6. Sorted(s)'
  <2>. HIDE DEF q, w
  <2>1. /\ \A i, j \in 1 .. Len(q) : i < j => q[i] < q[j]
        /\ \A i, j \in 1 .. Len(w) : i < j => w[i] < w[j]
        /\ \A i \in 1 .. Len(w), j \in 1 .. Len(q) : w[i] < q[j]
    BY DEF OrderInv, Sorted, q, w
  <2>2. \A i, j \in 1 .. Len(queue'[s]) : i < j => queue'[s][i] < queue'[s][j]
    BY <1>3, <2>1
  <2>3. \A i, j \in 1 .. Len(written'[s]) : i < j => written'[s][i] < written'[s][j]
    BY <1>3, <1>4, <2>1
  <2>4. ASSUME NEW i \in 1 .. Len(written'[s]), NEW j \in 1 .. Len(queue'[s])
        PROVE  written'[s][i] < queue'[s][j]
    <3>1. j + 1 \in 1 .. Len(q) /\ queue'[s][j] = q[j + 1] /\ 1 \in 1 .. Len(q) /\ 1 < j + 1
      BY <1>3
    <3>2. CASE i \in 1 .. Len(w)
      BY <1>4, <2>1, <3>1, <3>2
    <3>3. CASE i = Len(w) + 1
      BY <1>4, <2>1, <3>1, <3>3
    <3>. QED  BY <1>4, <3>2, <3>3
  <2>. QED  BY <2>2, <2>3, <2>4 DEF Sorted
<1>7. ASSUME NEW n \in Nat, Below(s, n)  PROVE Below(s, n)'
  <2>1. (\A i \in 1 .. Len(q) : q[i] < n) /\ \A i \in 1 .. Len(w) : w[i] < n
    BY <1>7 DEF Below
  <2>. HIDE DEF q, w
  <2>2. \A i \in 1 .. Len(queue'[s]) : queue'[s][i] < n
    BY <1>3, <2>1
  <2>3. \A i \in 1 .. Len(written'[s]) : i \in 1 .. Len(w) \/ i = Len(w) + 1
    BY <1>4
  <2>4. \A i \in 1 .. Len(written'[s]) : written'[s][i] < n
    BY <1>3, <1>4, <2>1, <2>3
  <2>. QED  BY <2>2, <2>4 DEF Below
<1>8. \A t \in SubIds, n \in Nat : Below(t, n) => Below(t, n)'
  BY <1>1, <1>7 DEF Below
<1>9. AheadInv'
  <2>1. todo' = todo /\ cur' = cur /\ alert' = alert
    BY DEF WriteAlert, dispatchVars
  <2>2. ASSUME NEW d \in Dispatchers, NEW t \in todo'[d] \cup cur'[d]  PROVE Below(t, alert[d])'
    <3>1. t \in SubIds /\ alert'[d] \in Nat /\ Below(t, alert'[d])
      BY <2>1 DEF TypeOK, OrderInv, AheadInv
    <3>. QED  BY <1>8, <3>1
  <2>. QED  BY <2>1, <2>2 DEF OrderInv, AheadInv
<1>. QED  BY <1>1, <1>6, <1>9 DEF OrderInv, Sorted

LEMMA OrderDispatch ==
    ASSUME TypeOK, TypeOK', InHand, EntitledInv, OrderInv,
           NEW d \in Dispatchers, NEW dev \in Devices, Dispatch(d, dev)
    PROVE  OrderInv'
<1>. SUFFICES ASSUME OneDispatcher  PROVE AheadInv' /\ \A t \in SubIds : Sorted(t)'
  BY DEF OrderInv, OneDispatcher
<1>1. queue' = queue /\ written' = written /\ cur'[d] = {} /\ alert'[d] = Len(log) + 1
  BY DEF TypeOK, Dispatch, InHand
<1>2. \A t \in SubIds : Below(t, Len(log) + 1)
  <2>1. Len(log) \in Nat
    BY DEF TypeOK
  <2>2. ASSUME NEW t \in SubIds, NEW i \in 1 .. Len(queue[t])  PROVE queue[t][i] < Len(log) + 1
    <3>1. queue[t][i] \in since[t] + 1 .. Len(log)
      BY DEF EntitledInv, ChannelInv, Entitled, InTime
    <3>2. since[t] \in Nat
      BY DEF TypeOK
    <3>. QED  BY <2>1, <3>1, <3>2
  <2>3. ASSUME NEW t \in SubIds, NEW i \in 1 .. Len(written[t])  PROVE written[t][i] < Len(log) + 1
    <3>1. written[t][i] \in since[t] + 1 .. Len(log)
      BY DEF EntitledInv, ChannelInv, Entitled, InTime
    <3>2. since[t] \in Nat
      BY DEF TypeOK
    <3>. QED  BY <2>1, <3>1, <3>2
  <2>. QED  BY <2>2, <2>3 DEF Below
<1>3. AheadInv'
  <2>1. Dispatchers = {d}
    BY DEF OneDispatcher
  <2>2. ASSUME NEW t \in todo'[d] \cup cur'[d]  PROVE Below(t, alert[d])'
    <3>1. t \in SubIds
      BY DEF TypeOK
    <3>. QED  BY <1>1, <1>2, <3>1 DEF Below
  <2>. QED  BY <1>1, <2>1, <2>2 DEF AheadInv
<1>. QED  BY <1>1, <1>3 DEF OrderInv, Sorted

LEMMA OrderDispatchStep ==
    ASSUME TypeOK, TypeOK', InHand, OrderInv, NEW d \in Dispatchers, DispatchStep(d)
    PROVE  OrderInv'
<1>. SUFFICES ASSUME OneDispatcher  PROVE AheadInv' /\ \A t \in SubIds : Sorted(t)'
  BY DEF OrderInv, OneDispatcher
<1>1. Dispatchers = {d} /\ written' = written /\ alert' = alert
  BY DEF OneDispatcher, DispatchStep, Return, Skip, TrySend, FindFull, DropOldest, BlockingSend
\* A channel stays as it is, loses its head, or gains the alert in hand from
\* the dispatcher that thereby is done with it.
<1>. DEFINE Moves ==
       /\ todo'[d] \cup cur'[d] \subseteq todo[d] \cup cur[d]
       /\ todo'[d] \cap cur'[d] = {}
       /\ \A t \in SubIds :
            \/ queue'[t] = queue[t]
            \/ queue[t] # << >> /\ queue'[t] = Tail(queue[t])
            \/ /\ queue'[t] = Append(queue[t], alert[d])
               /\ t \in todo[d] \cup cur[d]
               /\ t \notin todo'[d] \cup cur'[d]
<1>2. Moves
  <2>. USE DEF TypeOK, OrderInv, AheadInv, InHand
  <2>1. CASE Return(d)
    BY <2>1 DEF Return
  <2>2. ASSUME NEW s \in SubIds, Skip(d, s)  PROVE Moves
    BY <2>2 DEF Skip
  <2>3. ASSUME NEW s \in SubIds, TrySend(d, s)  PROVE Moves
    BY <2>3 DEF TrySend
  <2>4. ASSUME NEW s \in SubIds, FindFull(d, s)  PROVE Moves
    BY <2>4 DEF FindFull
  <2>5. ASSUME NEW s \in SubIds, DropOldest(d, s)  PROVE Moves
    BY <2>5 DEF DropOldest
  <2>6. ASSUME NEW s \in SubIds, BlockingSend(d, s)  PROVE Moves
    BY <2>6 DEF BlockingSend
  <2>. QED  BY <2>1, <2>2, <2>3, <2>4, <2>5, <2>6 DEF DispatchStep
<1>3. ASSUME NEW t \in SubIds
      PROVE  /\ Sorted(t)'
             /\ t \in todo'[d] \cup cur'[d] => Below(t, alert[d])'
  <2>. DEFINE q == queue[t]
              w == written[t]
              n == alert[d]
  <2>1. /\ q \in Seq(Nat) /\ n \in Nat /\ Len(q) \in Nat
        /\ \A i \in 1 .. Len(q) : q[i] \in Nat
        /\ \A i \in 1 .. Len(w) : w[i] \in Nat
    <3>1. q \in Seq(Nat) /\ w \in Seq(Nat) /\ n \in Nat
      BY DEF TypeOK
    <3>. QED  BY <3>1
  <2>2. /\ \A i, j \in 1 .. Len(q) : i < j => q[i] < q[j]
        /\ \A i, j \in 1 .. Len(w) : i < j => w[i] < w[j]
        /\ \A i \in 1 .. Len(w), j \in 1 .. Len(q) : w[i] < q[j]
    BY DEF OrderInv, Sorted
  <2>3. t \in todo[d] \cup cur[d] =>
          (\A i \in 1 .. Len(q) : q[i] < n) /\ \A i \in 1 .. Len(w) : w[i] < n
    BY DEF OrderInv, AheadInv, Below
  <2>4. CASE queue'[t] = q
    BY <1>1, <1>2, <2>2, <2>3, <2>4 DEF Sorted, Below
  <2>5. CASE q # << >> /\ queue'[t] = Tail(q)
    <3>1. /\ Len(queue'[t]) = Len(q) - 1
          /\ \A i \in 1 .. Len(queue'[t]) : i + 1 \in 1 .. Len(q) /\ queue'[t][i] = q[i + 1]
      BY <2>1, <2>5, TailElements
    <3>. QED  BY <1>1, <1>2, <2>1, <2>2, <2>3, <3>1 DEF Sorted, Below
  <2>6. CASE /\ queue'[t] = Append(q, n)
             /\ t \in todo[d] \cup cur[d] /\ t \notin todo'[d] \cup cur'[d]
    <3>1. /\ Len(queue'[t]) = Len(q) + 1
          /\ \A i \in 1 .. Len(q) : queue'[t][i] = q[i]
          /\ queue'[t][Len(q) + 1] = n
      BY <2>1, <2>6, AppendElements
    <3>2. \A i \in 1 .. Len(queue'[t]) : i \in 1 .. Len(q) \/ i = Len(q) + 1
      BY <2>1, <3>1
    <3>3. (\A i \in 1 .. Len(q) : q[i] < n) /\ \A i \in 1 .. Len(w) : w[i] < n
      BY <2>3, <2>6
    <3>. HIDE DEF q, w, n
    <3>4. \A i, j \in 1 .. Len(queue'[t]) : i < j => queue'[t][i] < queue'[t][j]
      BY <2>1, <2>2, <3>1, <3>2, <3>3
    <3>5. \A i \in 1 .. Len(w), j \in 1 .. Len(queue'[t]) : w[i] < queue'[t][j]
      BY <2>1, <2>2, <3>1, <3>2, <3>3
    <3>6. Sorted(t)'
      BY <1>1, <2>2, <3>4, <3>5 DEF Sorted, w
    <3>. QED  BY <2>6, <3>6
  <2>. QED  BY <1>2, <2>4, <2>5, <2>6
<1>4. AheadInv'
  <2>1. todo'[d] \cup cur'[d] \subseteq SubIds
    BY DEF TypeOK
  <2>. QED  BY <1>1, <1>2, <1>3, <2>1 DEF AheadInv
<1>. QED  BY <1>3, <1>4

LEMMA OrderStep ==
    TypeOK /\ TypeOK' /\ RoomInv /\ EntitledInv /\ OrderInv /\ [Next]_vars => OrderInv'
<1>. SUFFICES ASSUME TypeOK, TypeOK', RoomInv, EntitledInv, OrderInv, [Next]_vars
              PROVE  OrderInv'
  OBVIOUS
<1>1. ASSUME UNCHANGED <<queue, written, alert, todo, cur>>  PROVE OrderInv'
  BY <1>1 DEF OrderInv, OneDispatcher, AheadInv, Sorted, Below
<1>2. CASE UNCHANGED vars
  BY <1>1, <1>2 DEF vars, dispatchVars
<1>3. ASSUME NEW s \in SubIds, NEW c, NEW f, Subscribe(s, c, f)  PROVE OrderInv'
  BY <1>1, <1>3 DEF Subscribe, dispatchVars
<1>4. ASSUME NEW s \in SubIds, Cancel(s) \/ Unsubscribe(s)  PROVE OrderInv'
  BY <1>1, <1>4 DEF Cancel, Unsubscribe, dispatchVars
<1>. QED
  BY <1>2, <1>3, <1>4, OrderWrite, OrderDispatch, OrderDispatchStep
  DEF Next, HandlerStep, RoomInv

\* All the invariants together.
THEOREM StreamInvariants == Spec => [](TypeOK /\ RoomInv /\ EntitledInv /\ OrderInv)
<1>1. Init => OrderInv
  BY DEF Init, OrderInv, AheadInv, Sorted, Below
<1>. QED  BY <1>1, StreamInvariant, OrderStep, PTL DEF Spec

\* With one dispatcher, a connection gets its alerts in dispatch order and none
\* twice, whatever overflows and whoever drains.
THEOREM StreamOrder == Spec => []InOrder
<1>2. TypeOK /\ OrderInv => InOrder
  <2>. SUFFICES ASSUME TypeOK, OrderInv, OneDispatcher, NEW s \in SubIds,
                       NEW i \in DOMAIN Reached(s), NEW j \in DOMAIN Reached(s), i < j
                PROVE  Reached(s)[i] < Reached(s)[j]
    BY DEF InOrder
  <2>1. queue[s] \in Seq(Nat) /\ written[s] \in Seq(Nat)
    BY DEF TypeOK
  <2>2. Sorted(s)
    BY DEF OrderInv
  <2>3. ASSUME NEW k \in DOMAIN Reached(s)
        PROVE  /\ Len(written[s]) \in Nat /\ Len(queue[s]) \in Nat /\ k \in Nat
               /\ \/ k \in 1 .. Len(written[s]) /\ Reached(s)[k] = written[s][k]
                  \/ /\ k - Len(written[s]) \in 1 .. Len(queue[s])
                     /\ Reached(s)[k] = queue[s][k - Len(written[s])]
    BY <2>1, ConcatElements DEF Reached
  <2>4. CASE j \in 1 .. Len(written[s])
    BY <2>2, <2>3, <2>4 DEF Sorted
  <2>5. CASE i \in 1 .. Len(written[s]) /\ j \notin 1 .. Len(written[s])
    BY <2>2, <2>3, <2>5 DEF Sorted
  <2>6. CASE i \notin 1 .. Len(written[s]) /\ j \notin 1 .. Len(written[s])
    <3>. DEFINE a == i - Len(written[s])
                b == j - Len(written[s])
    <3>1. /\ a \in 1 .. Len(queue[s]) /\ b \in 1 .. Len(queue[s]) /\ a < b
          /\ Reached(s)[i] = queue[s][a] /\ Reached(s)[j] = queue[s][b]
      BY <2>3, <2>6
    <3>. HIDE DEF a, b
    <3>. QED  BY <2>2, <3>1 DEF Sorted
  <2>. QED  BY <2>3, <2>4, <2>5, <2>6
<1>. QED  BY <1>2, StreamInvariants, PTL

(***************************************************************************)
(* The stream implements the safety part of AlertFeed.                     *)
(***************************************************************************)
LEMMA FeedInit == Init => Feed!Init
<1>. SUFFICES ASSUME Init  PROVE Feed!Init
  OBVIOUS
<1>1. feedState = [s \in SubIds |-> "new"]
  BY DEF Init, feedState
<1>. QED  BY <1>1 DEF Init, Feed!Init

LEMMA FeedStep ==
    ASSUME OneDispatcher, TypeOK, RoomInv, EntitledInv, OrderInv, [Next]_vars
    PROVE  [Feed!Next]_(Feed!vars)
<1>. DEFINE feedVars == <<log, sub, feedState, since, written>>
<1>1. ASSUME UNCHANGED <<log, sub, handler, since, written>>
      PROVE  UNCHANGED feedVars
  BY <1>1 DEF feedState
<1>2. CASE UNCHANGED vars
  BY <1>1, <1>2 DEF vars, Feed!vars
<1>3. ASSUME NEW s \in SubIds, NEW c \in Clients, NEW f \in Devices \cup {NoDevice},
             Subscribe(s, c, f)
      PROVE  Feed!Join(s, c, f)
  <2>1. feedState[s] = "new" /\ feedState' = [feedState EXCEPT ![s] = "open"]
    BY <1>3 DEF Subscribe, TypeOK, feedState
  <2>. QED  BY <1>3, <2>1 DEF Subscribe, Feed!Join
<1>4. ASSUME NEW s \in SubIds, WriteAlert(s)  PROVE Feed!Deliver(s)
  <2>. DEFINE n == Head(queue[s])
  <2>1. feedState[s] = "open" /\ feedState' = feedState
    BY <1>4 DEF WriteAlert, feedState
  <2>2. n = queue[s][1] /\ 1 \in 1 .. Len(queue[s])
    BY <1>4, ElementTypes, TailElements DEF WriteAlert
  <2>3. n \in since[s] + 1 .. Len(log) /\ Matches(s, n)
    BY <2>2 DEF EntitledInv, ChannelInv, Entitled, InTime
  <2>4. \A i \in 1 .. Len(written[s]) : written[s][i] < n
    BY <2>2 DEF OrderInv, Sorted
  <2>5. n \in Feed!Fresh(s)
    <3>. HIDE DEF n
    <3>. QED  BY <2>3, <2>4 DEF Feed!Fresh, Feed!Wants, Matches
  <2>. QED  BY <1>4, <2>1, <2>5 DEF WriteAlert, Feed!Deliver
<1>5. ASSUME NEW s \in SubIds, Cancel(s)  PROVE UNCHANGED feedVars
  <2>1. feedState' = feedState
    BY <1>5 DEF Cancel, TypeOK, feedState
  <2>. QED  BY <1>5, <2>1 DEF Cancel
<1>6. ASSUME NEW s \in SubIds, Unsubscribe(s)  PROVE Feed!Leave(s)
  <2>1. feedState[s] = "open" /\ feedState' = [feedState EXCEPT ![s] = "closed"]
    BY <1>6 DEF Unsubscribe, TypeOK, feedState
  <2>. QED  BY <1>6, <2>1 DEF Unsubscribe, Feed!Leave
<1>7. ASSUME NEW d \in Dispatchers, NEW dev \in Devices, Dispatch(d, dev)
      PROVE  Feed!Publish(dev)
  <2>1. feedState' = feedState
    BY <1>7 DEF Dispatch, feedState
  <2>. QED  BY <1>7, <2>1 DEF Dispatch, Feed!Publish
<1>8. ASSUME NEW d \in Dispatchers, DispatchStep(d)  PROVE UNCHANGED feedVars
  BY <1>1, <1>8 DEF DispatchStep, Return, Skip, TrySend, FindFull, DropOldest, BlockingSend
<1>. QED
  BY <1>2, <1>3, <1>4, <1>5, <1>6, <1>7, <1>8 DEF Next, HandlerStep, Feed!Next, Feed!vars

\* For every number of connections and every buffer size, what the one
\* dispatcher and the handlers do to the responses is what AlertFeed allows.
THEOREM StreamImplementsFeed ==
    ASSUME OneDispatcher  PROVE Spec => ImplementsFeed
<1>1. TypeOK /\ RoomInv /\ EntitledInv /\ OrderInv /\ [Next]_vars => [Feed!Next]_(Feed!vars)
  BY FeedStep
<1>. QED  BY <1>1, FeedInit, StreamInvariants, PTL DEF Spec, ImplementsFeed, Feed!SafeSpec

(***************************************************************************)
(* Loss.                                                                   *)
(*                                                                         *)
(* No two calls of Dispatch carry the same alert, a channel never holds an *)
(* alert twice, and never one that a call has yet to send to it.           *)
(***************************************************************************)
Busy(d) == todo[d] \cup cur[d]

CallsApart ==
    \A d \in Dispatchers :
        /\ alert[d] <= Len(log)
        /\ todo[d] \cap cur[d] = {}
        /\ pc[d] = "idle" => todo[d] = {}
        /\ \A e \in Dispatchers \ {d} :
               pc[d] # "idle" /\ pc[e] # "idle" => alert[d] # alert[e]

QueuesApart ==
    \A s \in SubIds :
        /\ \A i, j \in 1 .. Len(queue[s]) : queue[s][i] = queue[s][j] => i = j
        /\ \A d \in Dispatchers : s \in Busy(d) =>
               \A i \in 1 .. Len(queue[s]) : queue[s][i] # alert[d]

ApartInv == CallsApart /\ QueuesApart

\* What a step of a call does to the channels: nothing, with a subscriber left
\* out only because it does not match; or it drops the oldest alert of the
\* subscriber in hand; or it sends the alert and is done with the subscriber.
Stays(d, s) ==
    /\ queue'[s] = queue[s]
    /\ s \in Busy(d) => s \in Busy(d)' \/ ~Matches(s, alert[d])

Loses(d, s) ==
    /\ queue[s] # << >> /\ queue'[s] = Tail(queue[s])
    /\ s \in cur[d] /\ cur'[d] = cur[d]

Gains(d, s) ==
    /\ queue'[s] = Append(queue[s], alert[d])
    /\ s \in Busy(d) /\ s \notin Busy(d)'

Moves(d) ==
    /\ Busy(d)' \subseteq Busy(d)
    /\ todo'[d] \cap cur'[d] = {}
    /\ pc[d] # "idle"
    /\ pc'[d] = "idle" => todo'[d] = {}
    /\ \A e \in Dispatchers \ {d} : todo'[e] = todo[e] /\ cur'[e] = cur[e] /\ pc'[e] = pc[e]
    /\ UNCHANGED <<subscribers, sub, handler, written, log, alert, since, until>>
    /\ \A s \in SubIds : Stays(d, s) \/ Loses(d, s) \/ Gains(d, s)

LEMMA DispatchMoves ==
    ASSUME TypeOK, InHand, CallsApart, NEW d \in Dispatchers, DispatchStep(d)
    PROVE  Moves(d)
<1>. USE DEF TypeOK, InHand, CallsApart, Moves, Stays, Loses, Gains, Busy
<1>1. CASE Return(d)
  BY <1>1 DEF Return
<1>2. ASSUME NEW s \in SubIds, Skip(d, s)  PROVE Moves(d)
  BY <1>2 DEF Skip
<1>3. ASSUME NEW s \in SubIds, TrySend(d, s)  PROVE Moves(d)
  BY <1>3 DEF TrySend
<1>4. ASSUME NEW s \in SubIds, FindFull(d, s)  PROVE Moves(d)
  BY <1>4 DEF FindFull
<1>5. ASSUME NEW s \in SubIds, DropOldest(d, s)  PROVE Moves(d)
  BY <1>5 DEF DropOldest
<1>6. ASSUME NEW s \in SubIds, BlockingSend(d, s)  PROVE Moves(d)
  BY <1>6 DEF BlockingSend
<1>. QED  BY <1>1, <1>2, <1>3, <1>4, <1>5, <1>6 DEF DispatchStep

\* A step of somebody else leaves calls and channels apart.
LEMMA ApartSame ==
    ASSUME ApartInv, UNCHANGED <<queue, log, dispatchVars>>
    PROVE  ApartInv'
BY DEF ApartInv, CallsApart, QueuesApart, Busy, dispatchVars

LEMMA ApartWrite ==
    ASSUME TypeOK, ApartInv, NEW s \in SubIds, WriteAlert(s)
    PROVE  ApartInv'
<1>1. UNCHANGED <<log, dispatchVars>> /\ \A t \in SubIds \ {s} : queue'[t] = queue[t]
  BY DEF TypeOK, WriteAlert
<1>2. /\ Len(queue[s]) \in Nat \ {0}
      /\ Len(queue'[s]) = Len(queue[s]) - 1
      /\ \A i \in 1 .. Len(queue'[s]) : i + 1 \in 1 .. Len(queue[s]) /\ queue'[s][i] = queue[s][i + 1]
  BY ElementTypes, TailElements DEF TypeOK, WriteAlert
<1>3. \A i, j \in 1 .. Len(queue'[s]) : queue'[s][i] = queue'[s][j] => i = j
  <2>1. \A i, j \in 1 .. Len(queue[s]) : queue[s][i] = queue[s][j] => i = j
    BY DEF ApartInv, QueuesApart
  <2>. QED  BY <1>2, <2>1
<1>4. \A d \in Dispatchers : s \in Busy(d) => \A i \in 1 .. Len(queue'[s]) : queue'[s][i] # alert[d]
  BY <1>2 DEF ApartInv, QueuesApart
<1>. QED  BY <1>1, <1>3, <1>4 DEF ApartInv, CallsApart, QueuesApart, Busy, dispatchVars

LEMMA ApartDispatch ==
    ASSUME TypeOK, InHand, EntitledInv, ApartInv,
           NEW d \in Dispatchers, NEW dev \in Devices, Dispatch(d, dev)
    PROVE  ApartInv'
<1>1. /\ Len(log) \in Nat /\ Len(log') = Len(log) + 1 /\ queue' = queue
      /\ alert'[d] = Len(log) + 1 /\ cur'[d] = {} /\ pc'[d] = "loop"
      /\ \A e \in Dispatchers \ {d} :
             pc'[e] = pc[e] /\ alert'[e] = alert[e] /\ todo'[e] = todo[e] /\ cur'[e] = cur[e]
  <2>1. Len(log) \in Nat /\ Len(log') = Len(log) + 1
    BY DEF TypeOK, Dispatch
  <2>2. cur' = cur /\ cur[d] = {}
    BY DEF Dispatch, InHand
  <2>. QED  BY <2>1, <2>2 DEF TypeOK, Dispatch
<1>2. \A e \in Dispatchers : alert[e] \in Nat /\ alert[e] <= Len(log)
  BY DEF TypeOK, ApartInv, CallsApart
<1>3. CallsApart'
  <2>1. ASSUME NEW e \in Dispatchers, e # d  PROVE alert'[e] <= Len(log') /\ alert'[e] # alert'[d]
    BY <1>1, <1>2, <2>1
  <2>. QED  BY <1>1, <2>1 DEF ApartInv, CallsApart
<1>4. \A t \in SubIds : \A i \in 1 .. Len(queue[t]) : queue[t][i] # Len(log) + 1
  <2>. SUFFICES ASSUME NEW t \in SubIds, NEW i \in 1 .. Len(queue[t])
                PROVE  queue[t][i] # Len(log) + 1
    OBVIOUS
  <2>1. queue[t][i] \in since[t] + 1 .. Len(log)
    BY DEF EntitledInv, ChannelInv, Entitled, InTime
  <2>2. since[t] \in Nat
    BY DEF TypeOK
  <2>. QED  BY <1>1, <2>1, <2>2
<1>5. QueuesApart'
  <2>1. ASSUME NEW t \in SubIds, NEW e \in Dispatchers, t \in Busy(e)', NEW i \in 1 .. Len(queue[t])
        PROVE  queue[t][i] # alert'[e]
    <3>1. CASE e = d
      BY <1>1, <1>4, <3>1
    <3>2. CASE e # d
      BY <1>1, <2>1, <3>2 DEF ApartInv, QueuesApart, Busy
    <3>. QED  BY <3>1, <3>2
  <2>. QED  BY <1>1, <2>1 DEF ApartInv, QueuesApart
<1>. QED  BY <1>3, <1>5 DEF ApartInv

LEMMA ApartMoves ==
    ASSUME TypeOK, InHand, ApartInv, NEW d \in Dispatchers, Moves(d)
    PROVE  ApartInv'
<1>1. CallsApart'
  BY DEF ApartInv, CallsApart, Moves
<1>2. \A e \in Dispatchers : alert'[e] = alert[e] /\ Busy(e)' \subseteq Busy(e)
  BY DEF Moves, Busy
\* A second call that is busy carries another alert.
<1>3. ASSUME NEW e \in Dispatchers \ {d}, NEW t \in Busy(e)  PROVE alert[e] # alert[d]
  BY <1>3 DEF ApartInv, CallsApart, InHand, Moves, Busy
<1>4. ASSUME NEW t \in SubIds
      PROVE  /\ \A i, j \in 1 .. Len(queue'[t]) : queue'[t][i] = queue'[t][j] => i = j
             /\ \A e \in Dispatchers : t \in Busy(e)' =>
                    \A i \in 1 .. Len(queue'[t]) : queue'[t][i] # alert[e]
  <2>. DEFINE q == queue[t]
  <2>1. /\ q \in Seq(Nat) /\ Len(q) \in Nat /\ alert[d] \in Nat
        /\ \A i, j \in 1 .. Len(q) : q[i] = q[j] => i = j
        /\ \A e \in Dispatchers : t \in Busy(e) => \A i \in 1 .. Len(q) : q[i] # alert[e]
    BY DEF TypeOK, ApartInv, QueuesApart
  <2>2. CASE Stays(d, t)
    BY <1>2, <2>1, <2>2 DEF Stays
  <2>3. CASE Loses(d, t)
    <3>1. /\ Len(queue'[t]) = Len(q) - 1
          /\ \A i \in 1 .. Len(queue'[t]) : i + 1 \in 1 .. Len(q) /\ queue'[t][i] = q[i + 1]
      BY <2>1, <2>3, TailElements DEF Loses
    <3>. HIDE DEF q
    <3>2. ASSUME NEW i \in 1 .. Len(queue'[t]), NEW j \in 1 .. Len(queue'[t]),
                 queue'[t][i] = queue'[t][j]
          PROVE  i = j
      <4>1. i + 1 = j + 1
        BY <2>1, <3>1, <3>2
      <4>. QED  BY <2>1, <3>1, <4>1
    <3>3. ASSUME NEW e \in Dispatchers, t \in Busy(e)', NEW i \in 1 .. Len(queue'[t])
          PROVE  queue'[t][i] # alert[e]
      <4>1. t \in Busy(e)
        BY <1>2, <3>3
      <4>. QED  BY <2>1, <3>1, <4>1
    <3>. QED  BY <3>2, <3>3
  <2>4. CASE Gains(d, t)
    <3>1. /\ Len(queue'[t]) = Len(q) + 1
          /\ \A i \in 1 .. Len(q) : queue'[t][i] = q[i]
          /\ queue'[t][Len(q) + 1] = alert[d]
      BY <2>1, <2>4, AppendElements DEF Gains
    <3>2. \A i \in 1 .. Len(queue'[t]) : i \in 1 .. Len(q) \/ i = Len(q) + 1
      BY <2>1, <3>1
    <3>3. \A i \in 1 .. Len(q) : q[i] # alert[d]
      BY <2>1, <2>4 DEF Gains
    <3>. HIDE DEF q
    <3>4. \A i, j \in 1 .. Len(queue'[t]) : queue'[t][i] = queue'[t][j] => i = j
      BY <2>1, <3>1, <3>2, <3>3
    <3>5. ASSUME NEW e \in Dispatchers, t \in Busy(e)', NEW i \in 1 .. Len(queue'[t])
          PROVE  queue'[t][i] # alert[e]
      <4>1. e # d /\ t \in Busy(e)
        BY <1>2, <2>4, <3>5 DEF Gains
      <4>. QED  BY <1>3, <2>1, <3>1, <3>2, <4>1
    <3>. QED  BY <3>4, <3>5
  <2>. QED  BY <2>2, <2>3, <2>4 DEF Moves
<1>5. QueuesApart'
  BY <1>2, <1>4 DEF QueuesApart
<1>. QED  BY <1>1, <1>5 DEF ApartInv

LEMMA ApartStep == TypeOK /\ RoomInv /\ EntitledInv /\ ApartInv /\ [Next]_vars => ApartInv'
<1>. SUFFICES ASSUME TypeOK, RoomInv, EntitledInv, ApartInv, [Next]_vars  PROVE ApartInv'
  OBVIOUS
<1>1. CASE UNCHANGED vars
  BY <1>1, ApartSame DEF vars
<1>2. ASSUME NEW s \in SubIds, NEW c, NEW f, Subscribe(s, c, f)  PROVE ApartInv'
  BY <1>2, ApartSame DEF Subscribe
<1>3. ASSUME NEW s \in SubIds, Cancel(s) \/ Unsubscribe(s)  PROVE ApartInv'
  BY <1>3, ApartSame DEF Cancel, Unsubscribe
<1>4. ASSUME NEW d \in Dispatchers, DispatchStep(d)  PROVE ApartInv'
  BY <1>4, DispatchMoves, ApartMoves DEF RoomInv, ApartInv
<1>. QED
  BY <1>1, <1>2, <1>3, <1>4, ApartWrite, ApartDispatch DEF Next, HandlerStep, RoomInv

\* Alert n has reached s.
Has(s, n) ==
    \/ \E i \in 1 .. Len(queue[s]) : queue[s][i] = n
    \/ \E i \in 1 .. Len(written[s]) : written[s][i] = n

LEMMA ConcatDomain ==
    ASSUME NEW p \in Seq(Nat), NEW q \in Seq(Nat)
    PROVE  /\ \A i \in 1 .. Len(p) : i \in DOMAIN (p \o q) /\ (p \o q)[i] = p[i]
           /\ \A i \in 1 .. Len(q) : Len(p) + i \in DOMAIN (p \o q) /\ (p \o q)[Len(p) + i] = q[i]
<1>1. /\ Len(p) \in Nat /\ Len(q) \in Nat /\ p \o q \in Seq(Nat)
      /\ Len(p \o q) = Len(p) + Len(q)
  OBVIOUS
<1>2. DOMAIN (p \o q) = 1 .. Len(p) + Len(q)
  BY <1>1
<1>3. ASSUME NEW i \in 1 .. Len(p)  PROVE i \in DOMAIN (p \o q) /\ (p \o q)[i] = p[i]
  <2>1. i \in 1 .. Len(p) + Len(q)
    BY <1>1
  <2>. QED  BY <1>1, <1>2, <2>1
<1>4. ASSUME NEW i \in 1 .. Len(q)
      PROVE  Len(p) + i \in DOMAIN (p \o q) /\ (p \o q)[Len(p) + i] = q[i]
  <2>1. Len(p) + i \in 1 .. Len(p) + Len(q)
    BY <1>1
  <2>. QED  BY <1>1, <1>2, <2>1
<1>. QED  BY <1>3, <1>4

LEMMA HasReached ==
    ASSUME TypeOK, NEW s \in SubIds, NEW n, Has(s, n)
    PROVE  \E i \in DOMAIN Reached(s) : Reached(s)[i] = n
<1>1. queue[s] \in Seq(Nat) /\ written[s] \in Seq(Nat)
  BY DEF TypeOK
<1>. DEFINE all == written[s] \o queue[s]
<1>2. /\ \A i \in 1 .. Len(written[s]) : i \in DOMAIN all /\ all[i] = written[s][i]
      /\ \A i \in 1 .. Len(queue[s]) :
             Len(written[s]) + i \in DOMAIN all /\ all[Len(written[s]) + i] = queue[s][i]
  BY <1>1, ConcatDomain
<1>3. Reached(s) = all
  BY DEF Reached
<1>. HIDE DEF all
<1>. QED  BY <1>2, <1>3 DEF Has

\* The handler's receive takes nothing away.
LEMMA HasWrite ==
    ASSUME TypeOK, NEW s \in SubIds, WriteAlert(s), NEW t \in SubIds, NEW n, Has(t, n)
    PROVE  Has(t, n)'
<1>1. CASE t # s
  <2>1. queue'[t] = queue[t] /\ written'[t] = written[t]
    BY <1>1 DEF TypeOK, WriteAlert
  <2>. QED  BY <2>1 DEF Has
<1>2. CASE t = s
  <2>1. queue[s] # << >> /\ queue'[s] = Tail(queue[s]) /\ written'[s] = Append(written[s], queue[s][1])
    BY ElementTypes, TailElements DEF TypeOK, WriteAlert
  <2>2. /\ Len(queue[s]) \in Nat \ {0}
        /\ Len(queue'[s]) = Len(queue[s]) - 1
        /\ \A i \in 1 .. Len(queue'[s]) : queue'[s][i] = queue[s][i + 1]
    BY <2>1, ElementTypes, TailElements
  <2>3. /\ Len(written[s]) \in Nat
        /\ Len(written'[s]) = Len(written[s]) + 1
        /\ \A i \in 1 .. Len(written[s]) : written'[s][i] = written[s][i]
        /\ written'[s][Len(written[s]) + 1] = queue[s][1]
    BY <2>1, <2>2, ElementTypes, AppendElements
  <2>4. ASSUME NEW i \in 1 .. Len(queue[s]), queue[s][i] = n  PROVE Has(s, n)'
    <3>1. CASE i = 1
      <4>1. Len(written[s]) + 1 \in 1 .. Len(written'[s])
        BY <2>3
      <4>. QED  BY <2>3, <2>4, <3>1, <4>1 DEF Has
    <3>2. CASE i # 1
      <4>1. i - 1 \in 1 .. Len(queue'[s]) /\ queue'[s][i - 1] = queue[s][i]
        BY <2>2, <3>2
      <4>. QED  BY <2>4, <4>1 DEF Has
    <3>. QED  BY <3>1, <3>2
  <2>5. ASSUME NEW i \in 1 .. Len(written[s]), written[s][i] = n  PROVE Has(s, n)'
    <3>1. i \in 1 .. Len(written'[s]) /\ written'[s][i] = written[s][i]
      BY <2>3
    <3>. QED  BY <2>5, <3>1 DEF Has
  <2>. QED  BY <1>2, <2>4, <2>5 DEF Has
<1>. QED  BY <1>1, <1>2

\* What a dispatcher's step does: only the head of a channel is ever lost.
LEMMA HasMoves ==
    ASSUME TypeOK, NEW d \in Dispatchers, Moves(d), NEW s \in SubIds
    PROVE  /\ Stays(d, s) => \A n : Has(s, n) => Has(s, n)'
           /\ Loses(d, s) => /\ 1 \in 1 .. Len(queue[s])
                             /\ \A n : Has(s, n) => n = queue[s][1] \/ Has(s, n)'
           /\ Gains(d, s) => \A n : Has(s, n) \/ n = alert[d] => Has(s, n)'
<1>1. queue[s] \in Seq(Nat) /\ alert[d] \in Nat /\ written'[s] = written[s]
  BY DEF TypeOK, Moves
<1>2. ASSUME Stays(d, s), NEW n, Has(s, n)  PROVE Has(s, n)'
  BY <1>1, <1>2 DEF Stays, Has
<1>3. ASSUME Loses(d, s)
      PROVE  /\ 1 \in 1 .. Len(queue[s])
             /\ \A n : Has(s, n) => n = queue[s][1] \/ Has(s, n)'
  <2>1. /\ Len(queue[s]) \in Nat \ {0}
        /\ Len(queue'[s]) = Len(queue[s]) - 1
        /\ \A i \in 1 .. Len(queue'[s]) : queue'[s][i] = queue[s][i + 1]
    BY <1>1, <1>3, TailElements DEF Loses
  <2>2. \A i \in 1 .. Len(queue[s]) :
          i # 1 => i - 1 \in 1 .. Len(queue'[s]) /\ queue'[s][i - 1] = queue[s][i]
    BY <2>1
  <2>3. ASSUME NEW n, Has(s, n), n # queue[s][1]  PROVE Has(s, n)'
    <3>1. CASE \E i \in 1 .. Len(queue[s]) : queue[s][i] = n
      BY <2>2, <2>3, <3>1 DEF Has
    <3>2. CASE \E i \in 1 .. Len(written[s]) : written[s][i] = n
      BY <1>1, <3>2 DEF Has
    <3>. QED  BY <2>3, <3>1, <3>2 DEF Has
  <2>4. 1 \in 1 .. Len(queue[s])
    BY <2>1
  <2>. QED  BY <2>3, <2>4
<1>4. ASSUME Gains(d, s), NEW n, Has(s, n) \/ n = alert[d]  PROVE Has(s, n)'
  <2>1. /\ Len(queue[s]) \in Nat
        /\ Len(queue'[s]) = Len(queue[s]) + 1
        /\ \A i \in 1 .. Len(queue[s]) : queue'[s][i] = queue[s][i]
        /\ queue'[s][Len(queue[s]) + 1] = alert[d]
    BY <1>1, <1>4, AppendElements DEF Gains
  <2>2. \A i \in 1 .. Len(queue[s]) : i \in 1 .. Len(queue'[s]) /\ queue'[s][i] = queue[s][i]
    BY <2>1
  <2>3. Len(queue[s]) + 1 \in 1 .. Len(queue'[s])
    BY <2>1
  <2>. QED  BY <1>1, <1>4, <2>1, <2>2, <2>3 DEF Has
<1>. QED  BY <1>2, <1>3, <1>4

LEMMA OwedSame ==
    ASSUME UNCHANGED <<since, sub, log>>, NEW s
    PROVE  Owed(s)' = Owed(s) /\ \A n : Matches(s, n)' <=> Matches(s, n)
BY DEF Owed, Matches

LEMMA OwedDispatch ==
    ASSUME TypeOK, NEW d \in Dispatchers, NEW dev \in Devices, Dispatch(d, dev),
           NEW s \in SubIds
    PROVE  /\ Owed(s) \subseteq Owed(s)'
           /\ Owed(s)' \subseteq Owed(s) \cup {Len(log) + 1}
           /\ \A n \in 1 .. Len(log) : Matches(s, n)' <=> Matches(s, n)
<1>1. /\ Len(log) \in Nat /\ Len(log') = Len(log) + 1
      /\ \A n \in 1 .. Len(log) : log'[n] = log[n]
      /\ since' = since /\ sub' = sub /\ since[s] \in Nat
  BY DEF TypeOK, Dispatch
<1>2. \A n \in 1 .. Len(log) : Matches(s, n)' <=> Matches(s, n)
  BY <1>1 DEF Matches
<1>3. ASSUME NEW n \in Owed(s)  PROVE n \in Owed(s)'
  <2>1. n \in since[s] + 1 .. Len(log) /\ Matches(s, n)
    BY DEF Owed
  <2>2. n \in 1 .. Len(log) /\ n \in since[s] + 1 .. Len(log) + 1
    BY <1>1, <2>1
  <2>. QED  BY <1>1, <1>2, <2>1, <2>2 DEF Owed
<1>4. ASSUME NEW n \in Owed(s)', n # Len(log) + 1  PROVE n \in Owed(s)
  <2>1. n \in since[s] + 1 .. Len(log) + 1 /\ Matches(s, n)'
    BY <1>1 DEF Owed
  <2>2. n \in 1 .. Len(log) /\ n \in since[s] + 1 .. Len(log)
    BY <1>1, <1>4, <2>1
  <2>. QED  BY <1>2, <2>1, <2>2 DEF Owed
<1>. QED  BY <1>2, <1>3, <1>4

LEMMA OwedSubscribe ==
    ASSUME TypeOK, NEW s \in SubIds, NEW c, NEW f, Subscribe(s, c, f)
    PROVE  /\ Owed(s)' = {}
           /\ \A t \in SubIds \ {s} :
                  Owed(t)' = Owed(t) /\ \A n : Matches(t, n)' <=> Matches(t, n)
<1>1. Len(log) \in Nat /\ log' = log /\ since'[s] = Len(log)
  BY DEF TypeOK, Subscribe
<1>2. Owed(s)' = {}
  BY <1>1 DEF Owed
<1>3. \A t \in SubIds \ {s} : since'[t] = since[t] /\ sub'[t] = sub[t]
  BY DEF TypeOK, Subscribe
<1>4. ASSUME NEW t \in SubIds \ {s}
      PROVE  Owed(t)' = Owed(t) /\ \A n : Matches(t, n)' <=> Matches(t, n)
  BY <1>1, <1>3 DEF Owed, Matches
<1>. QED  BY <1>2, <1>4

(***************************************************************************)
(* Of the alerts owed to a connection, the newest is never lost.           *)
(***************************************************************************)
KeptOrNewer(s, n) ==
    \/ \E m \in Nat : m >= n /\ Has(s, m)
    \/ \E d \in Dispatchers : s \in Busy(d) /\ alert[d] >= n /\ Matches(s, alert[d])

KeptInv == OneDispatcher => \A s \in subscribers : \A n \in Owed(s) : KeptOrNewer(s, n)

\* A step that takes nothing from a connection and owes it nothing new.
LEMMA KeptSame ==
    ASSUME TypeOK, NEW s \in SubIds, NEW n, KeptOrNewer(s, n),
           \A m : Has(s, m) => Has(s, m)',
           UNCHANGED <<alert, todo, cur>>,
           \A m : Matches(s, m)' <=> Matches(s, m)
    PROVE  KeptOrNewer(s, n)'
BY DEF KeptOrNewer, Busy

LEMMA KeptStep ==
    ASSUME TypeOK, RoomInv, EntitledInv, OrderInv, ApartInv, KeptInv, OneDispatcher, Next
    PROVE  KeptInv'
<1>. SUFFICES ASSUME NEW t \in subscribers', NEW n \in Owed(t)'  PROVE KeptOrNewer(t, n)'
  BY DEF KeptInv
<1>0. t \in subscribers /\ n \in Owed(t) => t \in SubIds /\ n \in Nat /\ KeptOrNewer(t, n)
  BY DEF KeptInv, TypeOK, Owed
<1>1. ASSUME NEW s \in SubIds, NEW c, NEW f, Subscribe(s, c, f)  PROVE KeptOrNewer(t, n)'
  <2>1. t # s /\ t \in subscribers /\ t \in SubIds
    BY <1>1, OwedSubscribe DEF Subscribe, TypeOK
  <2>2. n \in Owed(t) /\ \A m : Matches(t, m)' <=> Matches(t, m)
    BY <1>1, <2>1, OwedSubscribe
  <2>3. UNCHANGED <<alert, todo, cur>> /\ \A m : Has(t, m) => Has(t, m)'
    BY <1>1 DEF Subscribe, dispatchVars, Has
  <2>. QED  BY <1>0, <2>1, <2>2, <2>3, KeptSame
<1>2. ASSUME NEW s \in SubIds, Cancel(s) \/ Unsubscribe(s)  PROVE KeptOrNewer(t, n)'
  <2>1. t \in subscribers /\ UNCHANGED <<since, sub, log, alert, todo, cur, queue, written>>
    BY <1>2 DEF Cancel, Unsubscribe, dispatchVars
  <2>2. n \in Owed(t) /\ \A m : Matches(t, m)' <=> Matches(t, m)
    BY <2>1, OwedSame
  <2>3. \A m : Has(t, m) => Has(t, m)'
    BY <2>1 DEF Has
  <2>. QED  BY <1>0, <2>1, <2>2, <2>3, KeptSame
<1>3. ASSUME NEW s \in SubIds, WriteAlert(s)  PROVE KeptOrNewer(t, n)'
  <2>1. t \in subscribers /\ UNCHANGED <<since, sub, log, alert, todo, cur>>
    BY <1>3 DEF WriteAlert, dispatchVars
  <2>2. n \in Owed(t) /\ \A m : Matches(t, m)' <=> Matches(t, m)
    BY <2>1, OwedSame
  <2>3. \A m : Has(t, m) => Has(t, m)'
    BY <1>0, <1>3, <2>1, <2>2, HasWrite
  <2>. QED  BY <1>0, <2>1, <2>2, <2>3, KeptSame
<1>4. ASSUME NEW d \in Dispatchers, NEW dev \in Devices, Dispatch(d, dev)  PROVE KeptOrNewer(t, n)'
  <2>1. /\ t \in subscribers /\ t \in SubIds /\ t \in Busy(d)'
        /\ alert'[d] = Len(log) + 1 /\ UNCHANGED <<queue, written>>
    BY <1>4 DEF Dispatch, TypeOK, Busy
  <2>2. CASE n = Len(log) + 1
    <3>1. Matches(t, alert[d])' /\ alert'[d] >= n
      <4>1. Len(log) \in Nat
        BY DEF TypeOK
      <4>. QED  BY <2>1, <2>2, <4>1 DEF Owed, Matches
    <3>. QED  BY <2>1, <3>1 DEF KeptOrNewer
  \* The one dispatcher was idle and had nothing in hand.
  <2>3. CASE n # Len(log) + 1
    <3>1. n \in Owed(t)
      BY <1>4, <2>1, <2>3, OwedDispatch
    <3>2. \A e \in Dispatchers : Busy(e) = {}
      BY <1>4 DEF Dispatch, OneDispatcher, RoomInv, InHand, ApartInv, CallsApart, Busy
    <3>3. \E m \in Nat : m >= n /\ Has(t, m)
      BY <1>0, <2>1, <3>1, <3>2 DEF KeptOrNewer
    <3>. QED  BY <2>1, <3>3 DEF KeptOrNewer, Has
  <2>. QED  BY <2>2, <2>3
<1>5. ASSUME NEW d \in Dispatchers, DispatchStep(d)  PROVE KeptOrNewer(t, n)'
  <2>1. Moves(d)
    BY <1>5, DispatchMoves DEF RoomInv, ApartInv
  <2>2. /\ t \in subscribers /\ t \in SubIds /\ alert[d] \in Nat
        /\ UNCHANGED <<since, sub, log, alert>> /\ Dispatchers = {d}
    BY <2>1 DEF Moves, TypeOK, OneDispatcher
  <2>3. n \in Owed(t) /\ n \in Nat /\ KeptOrNewer(t, n) /\ \A m : Matches(t, m)' <=> Matches(t, m)
    BY <1>0, <2>2, OwedSame
  <2>4. CASE Stays(d, t)
    <3>1. \A m : Has(t, m) => Has(t, m)'
      BY <2>1, <2>2, <2>4, HasMoves
    <3>2. t \in Busy(d) /\ Matches(t, alert[d]) => t \in Busy(d)'
      BY <2>4 DEF Stays
    <3>. QED  BY <2>2, <2>3, <3>1, <3>2 DEF KeptOrNewer
  \* What is dropped is older than the alert in hand.
  <2>5. CASE Loses(d, t)
    <3>1. t \in Busy(d) /\ t \in Busy(d)' /\ Matches(t, alert[d])
      BY <2>1, <2>5 DEF Loses, Busy, EntitledInv, DispatchInv, Entitled
    <3>2. 1 \in 1 .. Len(queue[t]) /\ \A m : Has(t, m) => m = queue[t][1] \/ Has(t, m)'
      BY <2>1, <2>2, <2>5, HasMoves
    <3>3. queue[t][1] \in Nat /\ queue[t][1] < alert[d]
      BY <2>2, <3>1, <3>2, ElementTypes DEF OrderInv, AheadInv, Below, Busy
    <3>4. ASSUME NEW m \in Nat, m >= n, Has(t, m)  PROVE KeptOrNewer(t, n)'
      <4>1. CASE Has(t, m)'
        BY <3>4, <4>1 DEF KeptOrNewer
      <4>2. CASE m = queue[t][1]
        <5>1. alert'[d] >= n /\ Matches(t, alert[d])'
          BY <2>2, <2>3, <3>1, <3>3, <3>4, <4>2
        <5>. QED  BY <3>1, <5>1 DEF KeptOrNewer
      <4>. QED  BY <3>2, <3>4, <4>1, <4>2
    <3>. QED  BY <2>2, <2>3, <3>1, <3>4 DEF KeptOrNewer
  <2>6. CASE Gains(d, t)
    <3>1. \A m : Has(t, m) \/ m = alert[d] => Has(t, m)'
      BY <2>1, <2>2, <2>6, HasMoves
    <3>. QED  BY <2>2, <2>3, <3>1 DEF KeptOrNewer
  <2>. QED  BY <2>1, <2>2, <2>4, <2>5, <2>6 DEF Moves
<1>. QED  BY <1>1, <1>2, <1>3, <1>4, <1>5 DEF Next, HandlerStep

(***************************************************************************)
(* A connection loses an alert only to an overflow.                        *)
(***************************************************************************)
\* Whoever is in hand had a full channel, and so is owed more than it holds.
FullInv == \A d \in Dispatchers : \A s \in cur[d] : Cardinality(Owed(s)) > BufferSize

LossInv ==
    \A s \in subscribers :
        Cardinality(Owed(s)) <= BufferSize =>
            \A n \in Owed(s) : Has(s, n) \/ Pending(s, n)

LEMMA PartOfInterval ==
    ASSUME NEW a \in Nat, NEW b \in Nat, NEW S, S \subseteq a + 1 .. b
    PROVE  IsFiniteSet(S) /\ Cardinality(S) \in Nat
<1>1. a + 1 \in Int /\ b \in Int
  OBVIOUS
<1>2. IsFiniteSet(a + 1 .. b)
  BY <1>1, FS_Interval
<1>3. IsFiniteSet(S)
  BY <1>2, FS_Subset
<1>. QED  BY <1>3, FS_CardinalityType

LEMMA OwedFinite ==
    ASSUME TypeOK, NEW s \in SubIds
    PROVE  IsFiniteSet(Owed(s)) /\ Cardinality(Owed(s)) \in Nat
<1>1. since[s] \in Nat /\ Len(log) \in Nat /\ Owed(s) \subseteq since[s] + 1 .. Len(log)
  BY DEF TypeOK, Owed
<1>. QED  BY <1>1, PartOfInterval

LEMMA MoreOwed ==
    ASSUME TypeOK, TypeOK', NEW s \in SubIds, Owed(s) \subseteq Owed(s)'
    PROVE  Cardinality(Owed(s)) <= Cardinality(Owed(s)')
<1>1. since'[s] \in Nat /\ Len(log') \in Nat /\ Owed(s)' \subseteq since'[s] + 1 .. Len(log')
  BY DEF TypeOK, Owed
<1>2. IsFiniteSet(Owed(s)')
  BY <1>1, PartOfInterval
<1>. QED  BY <1>2, FS_Subset

\* A full channel and the alert in hand are more than the channel holds.
LEMMA Overflow ==
    ASSUME TypeOK, EntitledInv, ApartInv, NEW d \in Dispatchers, NEW s \in SubIds,
           FindFull(d, s)
    PROVE  Cardinality(Owed(s)) > BufferSize
<1>. DEFINE k == Len(queue[s])
            f == [i \in 1 .. k |-> queue[s][i]]
            T == Owed(s) \ {alert[d]}
<1>1. /\ k \in Nat /\ k >= BufferSize /\ alert[d] \in Nat /\ since[s] \in Nat
      /\ s \in todo[d] /\ Matches(s, alert[d])
  BY DEF TypeOK, FindFull
<1>2. alert[d] \in Owed(s)
  BY <1>1 DEF Owed, EntitledInv, DispatchInv, InTime
<1>3. \A i \in 1 .. k : queue[s][i] \in T
  BY <1>1 DEF Owed, EntitledInv, ChannelInv, Entitled, InTime, ApartInv, QueuesApart, Busy
<1>4. \A i, j \in 1 .. k : queue[s][i] = queue[s][j] => i = j
  BY DEF ApartInv, QueuesApart
<1>5. f \in Injection(1 .. k, T)
  <2>. HIDE DEF k, T
  <2>. QED  BY <1>3, <1>4 DEF Injection, IsInjective
<1>6. /\ IsFiniteSet(Owed(s)) /\ Cardinality(Owed(s)) \in Nat
      /\ IsFiniteSet(T) /\ Cardinality(T) = Cardinality(Owed(s)) - 1
  BY <1>2, OwedFinite, FS_RemoveElement
<1>7. Cardinality(1 .. k) = k
  <2>1. k \in Int /\ 1 \in Int /\ (1 > k => k = 0)
    BY <1>1
  <2>2. Cardinality(1 .. k) = IF 1 > k THEN 0 ELSE k - 1 + 1
    BY <2>1, FS_Interval
  <2>. QED  BY <1>1, <2>1, <2>2
<1>8. Cardinality(1 .. k) <= Cardinality(T)
  <2>. HIDE DEF k, T, f
  <2>. QED  BY <1>5, <1>6, FS_Injection
<1>. QED  BY <1>1, <1>6, <1>7, <1>8, BufferAssumption

\* Nobody who ever subscribed is owed less than before.
LEMMA OwedGrows ==
    ASSUME TypeOK, Next, NEW t \in SubIds, handler[t] # "idle"
    PROVE  Owed(t) \subseteq Owed(t)'
<1>1. ASSUME NEW s \in SubIds, NEW c, NEW f, Subscribe(s, c, f)  PROVE Owed(t) \subseteq Owed(t)'
  BY <1>1, OwedSubscribe DEF Subscribe
<1>2. ASSUME NEW s \in SubIds, Cancel(s) \/ HandlerStep(s)  PROVE Owed(t) \subseteq Owed(t)'
  BY <1>2, OwedSame DEF Cancel, HandlerStep, WriteAlert, Unsubscribe
<1>3. ASSUME NEW d \in Dispatchers, DispatchStep(d)  PROVE Owed(t) \subseteq Owed(t)'
  BY <1>3, OwedSame
  DEF DispatchStep, Return, Skip, TrySend, FindFull, DropOldest, BlockingSend
<1>. QED  BY <1>1, <1>2, <1>3, OwedDispatch DEF Next

LEMMA FullStep ==
    ASSUME TypeOK, TypeOK', EntitledInv, ApartInv, FullInv, Next
    PROVE  FullInv'
<1>. SUFFICES ASSUME NEW e \in Dispatchers, NEW t \in cur'[e]
              PROVE  Cardinality(Owed(t)') > BufferSize
  BY DEF FullInv
<1>1. t \in SubIds
  BY DEF TypeOK
<1>2. t \in cur[e] \/ (FindFull(e, t) /\ t \in todo[e])
  <2>1. CASE cur' = cur
    BY <2>1
  <2>2. ASSUME NEW d \in Dispatchers, NEW s \in SubIds, FindFull(d, s)
        PROVE  t \in cur[e] \/ (FindFull(e, t) /\ t \in todo[e])
    <3>1. s \in todo[d] /\ cur' = [cur EXCEPT ![d] = {s}] /\ cur \in [Dispatchers -> SUBSET SubIds]
      BY <2>2 DEF FindFull, TypeOK
    <3>2. t \in cur[e] \/ (e = d /\ t = s)
      BY <3>1
    <3>. QED  BY <2>2, <3>1, <3>2
  <2>3. ASSUME NEW d \in Dispatchers, NEW s \in SubIds, BlockingSend(d, s)  PROVE t \in cur[e]
    BY <2>3 DEF BlockingSend, TypeOK
  <2>. QED
    BY <2>1, <2>2, <2>3
    DEF Next, Subscribe, Cancel, HandlerStep, WriteAlert, Unsubscribe, Dispatch,
        DispatchStep, Return, Skip, TrySend, DropOldest, dispatchVars
<1>3. handler[t] # "idle"
  BY <1>1, <1>2 DEF EntitledInv, MapInv
<1>4. Cardinality(Owed(t)) > BufferSize
  BY <1>1, <1>2, Overflow DEF FullInv
<1>5. Cardinality(Owed(t)) <= Cardinality(Owed(t)')
  BY <1>1, <1>3, OwedGrows, MoreOwed
<1>6. Cardinality(Owed(t)) \in Nat /\ Cardinality(Owed(t)') \in Nat
  <2>1. since'[t] \in Nat /\ Len(log') \in Nat /\ Owed(t)' \subseteq since'[t] + 1 .. Len(log')
    BY <1>1 DEF TypeOK, Owed
  <2>. QED  BY <1>1, <2>1, OwedFinite, PartOfInterval
<1>. QED  BY <1>4, <1>5, <1>6, BufferAssumption

LEMMA LossStep ==
    ASSUME TypeOK, TypeOK', RoomInv, EntitledInv, ApartInv, FullInv, LossInv, Next
    PROVE  LossInv'
<1>. SUFFICES ASSUME NEW t \in subscribers', Cardinality(Owed(t)') <= BufferSize,
                     NEW n \in Owed(t)'
              PROVE  Has(t, n)' \/ Pending(t, n)'
  BY DEF LossInv
<1>0. t \in SubIds
  BY DEF TypeOK
\* What was owed before was within the capacity as well.
<1>1. ASSUME t \in subscribers, Owed(t) \subseteq Owed(t)'
      PROVE  /\ \A d \in Dispatchers : t \notin cur[d]
             /\ n \in Owed(t) => Has(t, n) \/ Pending(t, n)
  <2>1. Cardinality(Owed(t)) <= Cardinality(Owed(t)')
    BY <1>0, <1>1, MoreOwed
  <2>2. Cardinality(Owed(t)) \in Nat /\ Cardinality(Owed(t)') \in Nat
    <3>1. since'[t] \in Nat /\ Len(log') \in Nat /\ Owed(t)' \subseteq since'[t] + 1 .. Len(log')
      BY <1>0 DEF TypeOK, Owed
    <3>. QED  BY <1>0, <3>1, OwedFinite, PartOfInterval
  <2>3. Cardinality(Owed(t)) <= BufferSize /\ ~(Cardinality(Owed(t)) > BufferSize)
    BY <2>1, <2>2, BufferAssumption
  <2>. QED  BY <1>1, <2>3 DEF FullInv, LossInv
<1>2. ASSUME NEW s \in SubIds, NEW c, NEW f, Subscribe(s, c, f)
      PROVE  Has(t, n)' \/ Pending(t, n)'
  <2>1. t # s /\ t \in subscribers /\ Owed(t)' = Owed(t)
    BY <1>0, <1>2, OwedSubscribe DEF Subscribe
  <2>2. UNCHANGED <<queue, written, alert, todo, cur>>
    BY <1>2 DEF Subscribe, dispatchVars
  <2>. QED  BY <1>1, <2>1, <2>2 DEF Has, Pending
<1>3. ASSUME NEW s \in SubIds, Cancel(s) \/ Unsubscribe(s)
      PROVE  Has(t, n)' \/ Pending(t, n)'
  <2>1. t \in subscribers /\ UNCHANGED <<since, sub, log, alert, todo, cur, queue, written>>
    BY <1>3 DEF Cancel, Unsubscribe, dispatchVars
  <2>2. Owed(t)' = Owed(t)
    BY <2>1, OwedSame
  <2>. QED  BY <1>1, <2>1, <2>2 DEF Has, Pending
<1>4. ASSUME NEW s \in SubIds, WriteAlert(s)  PROVE Has(t, n)' \/ Pending(t, n)'
  <2>1. t \in subscribers /\ UNCHANGED <<since, sub, log, alert, todo, cur>>
    BY <1>4 DEF WriteAlert, dispatchVars
  <2>2. Owed(t)' = Owed(t)
    BY <2>1, OwedSame
  <2>3. Has(t, n) => Has(t, n)'
    BY <1>0, <1>4, HasWrite
  <2>. QED  BY <1>1, <2>1, <2>2, <2>3 DEF Pending
<1>5. ASSUME NEW d \in Dispatchers, NEW dev \in Devices, Dispatch(d, dev)
      PROVE  Has(t, n)' \/ Pending(t, n)'
  <2>1. /\ t \in subscribers /\ t \in todo'[d] /\ alert'[d] = Len(log) + 1
        /\ UNCHANGED <<queue, written>>
    BY <1>5 DEF Dispatch, TypeOK
  <2>2. CASE n = Len(log) + 1
    BY <2>1, <2>2 DEF Pending
  <2>3. CASE n # Len(log) + 1
    <3>1. n \in Owed(t) /\ Owed(t) \subseteq Owed(t)'
      BY <1>0, <1>5, <2>3, OwedDispatch
    <3>2. CASE Has(t, n)
      BY <2>1, <3>2 DEF Has
    <3>3. CASE Pending(t, n)
      <4>1. PICK e \in Dispatchers : alert[e] = n /\ t \in todo[e] \cup cur[e]
        BY <3>3 DEF Pending
      <4>2. e # d
        BY <1>5, <4>1 DEF Dispatch, RoomInv, InHand, ApartInv, CallsApart
      <4>3. alert'[e] = alert[e] /\ todo'[e] = todo[e] /\ cur'[e] = cur[e]
        BY <1>5, <4>2 DEF Dispatch, TypeOK
      <4>. QED  BY <4>1, <4>3 DEF Pending
    <3>. QED  BY <1>1, <2>1, <3>1, <3>2, <3>3
  <2>. QED  BY <2>2, <2>3
<1>6. ASSUME NEW d \in Dispatchers, DispatchStep(d)  PROVE Has(t, n)' \/ Pending(t, n)'
  <2>1. Moves(d)
    BY <1>6, DispatchMoves DEF RoomInv, ApartInv
  <2>2. t \in subscribers /\ UNCHANGED <<since, sub, log, alert>> /\ Owed(t)' = Owed(t)
    BY <2>1, OwedSame DEF Moves
  <2>3. Matches(t, n) /\ (Has(t, n) \/ Pending(t, n)) /\ t \notin cur[d]
    BY <1>1, <2>2 DEF Owed
  \* Nothing is dropped here: whoever is in hand is owed too much.
  <2>4. ~Loses(d, t)
    BY <2>3 DEF Loses
  <2>5. CASE Has(t, n)
    BY <1>0, <2>1, <2>4, <2>5, HasMoves DEF Moves
  <2>6. ASSUME NEW e \in Dispatchers, alert[e] = n, t \in todo[e] \cup cur[e], e # d
        PROVE  Pending(t, n)'
    BY <2>1, <2>2, <2>6 DEF Moves, Pending
  <2>7. ASSUME alert[d] = n, t \in Busy(d)  PROVE Has(t, n)' \/ Pending(t, n)'
    <3>1. CASE Stays(d, t)
      BY <2>2, <2>3, <2>7, <3>1 DEF Stays, Busy, Pending
    <3>2. CASE Gains(d, t)
      BY <1>0, <2>1, <2>7, <3>2, HasMoves
    <3>. QED  BY <1>0, <2>1, <2>4, <3>1, <3>2 DEF Moves
  <2>. QED  BY <2>3, <2>5, <2>6, <2>7 DEF Pending, Busy
<1>. QED  BY <1>2, <1>3, <1>4, <1>5, <1>6 DEF Next, HandlerStep

LEMMA LossInit == Init => ApartInv /\ KeptInv /\ FullInv /\ LossInv
BY DEF Init, ApartInv, CallsApart, QueuesApart, Busy, KeptInv, FullInv, LossInv

DeliveredInv == ApartInv /\ KeptInv /\ FullInv /\ LossInv

LEMMA DeliveredStep ==
    /\ TypeOK /\ TypeOK' /\ RoomInv /\ EntitledInv /\ OrderInv /\ DeliveredInv /\ [Next]_vars
    => DeliveredInv'
<1>. SUFFICES ASSUME TypeOK, TypeOK', RoomInv, EntitledInv, OrderInv, DeliveredInv, [Next]_vars
              PROVE  DeliveredInv'
  OBVIOUS
<1>1. CASE UNCHANGED vars
  <2>1. ApartInv'
    BY <1>1, ApartSame DEF vars, DeliveredInv
  <2>2. \A s : Owed(s)' = Owed(s) /\ \A n : Matches(s, n)' <=> Matches(s, n)
    BY <1>1, OwedSame DEF vars
  <2>3. KeptInv'
    BY <1>1, <2>2 DEF vars, dispatchVars, DeliveredInv, KeptInv, KeptOrNewer, Has, Busy, OneDispatcher
  <2>4. FullInv' /\ LossInv'
    BY <1>1, <2>2 DEF vars, dispatchVars, DeliveredInv, FullInv, LossInv, Has, Pending
  <2>. QED  BY <2>1, <2>3, <2>4 DEF DeliveredInv
<1>2. CASE Next
  <2>1. ApartInv'
    BY <1>2, ApartStep DEF DeliveredInv
  <2>2. KeptInv'
    BY <1>2, KeptStep DEF DeliveredInv, KeptInv, OneDispatcher
  <2>3. FullInv' /\ LossInv'
    BY <1>2, FullStep, LossStep DEF DeliveredInv
  <2>. QED  BY <2>1, <2>2, <2>3 DEF DeliveredInv
<1>. QED  BY <1>1, <1>2

THEOREM DeliveredInvariant == Spec => []DeliveredInv
BY LossInit, DeliveredStep, StreamInvariants, PTL DEF Spec, DeliveredInv

\* With one dispatcher, an alert owed to a subscribed connection is lost only to
\* a newer one, however slow the connection and however often it overflows.
THEOREM NewestIsKept == Spec => []LostOnlyToNewer
<1>1. TypeOK /\ EntitledInv /\ DeliveredInv => LostOnlyToNewer
  <2>. SUFFICES ASSUME TypeOK, EntitledInv, DeliveredInv, OneDispatcher,
                       NEW s \in subscribers, NEW n \in Owed(s)
                PROVE  \/ \E i \in DOMAIN Reached(s) : Reached(s)[i] >= n
                       \/ \E m \in Owed(s) : m >= n /\ Pending(s, m)
    BY DEF LostOnlyToNewer
  <2>1. s \in SubIds /\ KeptOrNewer(s, n)
    BY DEF TypeOK, DeliveredInv, KeptInv
  <2>2. ASSUME NEW m \in Nat, m >= n, Has(s, m)
        PROVE  \E i \in DOMAIN Reached(s) : Reached(s)[i] >= n
    BY <2>1, <2>2, HasReached
  <2>3. ASSUME NEW d \in Dispatchers, s \in Busy(d), alert[d] >= n, Matches(s, alert[d])
        PROVE  alert[d] \in Owed(s) /\ Pending(s, alert[d])
    BY <2>3 DEF Busy, EntitledInv, DispatchInv, Entitled, InTime, Owed, Pending
  <2>. QED  BY <2>1, <2>2, <2>3 DEF KeptOrNewer
<1>. QED  BY <1>1, StreamInvariants, DeliveredInvariant, PTL

\* For any number of dispatchers: a connection that was owed no more than its
\* channel holds has every alert, or is about to get it.
THEOREM WithinCapacityNothingIsLost == Spec => []NoLossWithinCapacity
<1>1. TypeOK /\ DeliveredInv => NoLossWithinCapacity
  <2>. SUFFICES ASSUME TypeOK, DeliveredInv, NEW s \in subscribers,
                       Cardinality(Owed(s)) <= BufferSize, NEW n \in Owed(s)
                PROVE  \/ \E i \in DOMAIN Reached(s) : Reached(s)[i] = n
                       \/ Pending(s, n)
    BY DEF NoLossWithinCapacity
  <2>1. s \in SubIds /\ (Has(s, n) \/ Pending(s, n))
    BY DEF TypeOK, DeliveredInv, LossInv
  <2>. QED  BY <2>1, HasReached
<1>. QED  BY <1>1, StreamInvariants, DeliveredInvariant, PTL
=============================================================================
