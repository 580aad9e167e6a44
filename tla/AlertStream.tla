----------------------------- MODULE AlertStream -----------------------------
(***************************************************************************)
(* The in-process fan-out of alerts to SSE connections:                    *)
(* core/services/alert/alert_stream_service.go and the handler loop of     *)
(* core/handlers/alert/alert_stream_handler.go.                            *)
(*                                                                         *)
(* Dispatch copies the subscriber map under the read lock and then works   *)
(* through the copy with no lock held: for each matching subscriber a      *)
(* non-blocking send, else a non-blocking receive that makes room, else    *)
(* a send that blocks.  Each of those channel operations is a step here,   *)
(* so connections come, go and drain their channel between any two.        *)
(***************************************************************************)
EXTENDS Naturals, FiniteSets, Sequences

CONSTANTS
    SubIds,       \* subscriber ids; uuid.New makes each one fresh, used once
    Clients,      \* authenticated clients
    Devices,      \* devices that raise alerts
    Owner,        \* [Devices -> Clients]: the client_id of a device's alerts
    NoDevice,     \* the nil device filter
    Dispatchers,  \* goroutines that call Dispatch (one in the program)
    BufferSize,   \* capacity of a subscriber's channel (32 in the program)
    MaxAlerts     \* bound on the number of alerts dispatched

ASSUME OwnerAssumption == Owner \in [Devices -> Clients]
ASSUME BufferAssumption == BufferSize \in Nat \ {0}
ASSUME BoundAssumption == MaxAlerts \in Nat
ASSUME NoDeviceAssumption == NoDevice \notin Devices

VARIABLES
    subscribers,  \* keys of streamService.subscribers
    sub,          \* [SubIds -> Filter]: ClientID and DeviceID of a Subscriber
    queue,        \* [SubIds -> Seq(Nat)]: contents of Subscriber.Alerts
    handler,      \* [SubIds -> HandlerStates]: where the HTTP handler is
    written,      \* [SubIds -> Seq(Nat)]: the alert events written to the response
    log,          \* the device of every alert passed to Dispatch; the position is its id
    pc,           \* [Dispatchers -> PCs]: where a call of Dispatch is
    alert,        \* [Dispatchers -> Nat]: the argument of that call
    todo,         \* [Dispatchers -> SUBSET SubIds]: rest of the copied subscribers
    cur,          \* [Dispatchers -> SUBSET SubIds]: the subscriber with the full channel
    since, until  \* history: Len(log) when a subscriber was added and removed

dispatchVars == <<pc, alert, todo, cur>>
vars == <<subscribers, sub, queue, handler, written, log, dispatchVars, since, until>>

Filter == [client : Clients, device : Devices \cup {NoDevice}]

\* "cancelled": the request context is done, the handler has not seen it yet.
HandlerStates == {"idle", "streaming", "cancelled", "left"}
PCs == {"idle", "loop", "drop", "send"}

\* The two comparisons of Dispatch that make it skip a subscriber.
Matches(s, n) ==
    /\ sub[s].client = Owner[log[n]]
    /\ sub[s].device \in {NoDevice, log[n]}

-----------------------------------------------------------------------------
Init ==
    /\ subscribers = {}
    /\ sub \in [SubIds -> [client : Clients, device : {NoDevice}]]
    /\ \A s, t \in SubIds : sub[s] = sub[t]
    /\ queue = [s \in SubIds |-> << >>]
    /\ handler = [s \in SubIds |-> "idle"]
    /\ written = [s \in SubIds |-> << >>]
    /\ log = << >>
    /\ pc = [d \in Dispatchers |-> "idle"]
    /\ alert = [d \in Dispatchers |-> 0]
    /\ todo = [d \in Dispatchers |-> {}]
    /\ cur = [d \in Dispatchers |-> {}]
    /\ since = [s \in SubIds |-> 0]
    /\ until = [s \in SubIds |-> 0]

(***************************************************************************)
(* The stream handler of one connection.                                   *)
(***************************************************************************)
\* Subscribe: a fresh channel, put in the map under the write lock.
Subscribe(s, c, f) ==
    /\ handler[s] = "idle"
    /\ handler' = [handler EXCEPT ![s] = "streaming"]
    /\ sub' = [sub EXCEPT ![s] = [client |-> c, device |-> f]]
    /\ subscribers' = subscribers \cup {s}
    /\ since' = [since EXCEPT ![s] = Len(log)]
    /\ UNCHANGED <<queue, written, log, dispatchVars, until>>

\* case alert := <-subscriber.Alerts.  With the context done as well, select
\* picks either case, so a cancelled handler may still take an alert.
WriteAlert(s) ==
    /\ handler[s] \in {"streaming", "cancelled"}
    /\ queue[s] # << >>
    /\ written' = [written EXCEPT ![s] = Append(@, Head(queue[s]))]
    /\ queue' = [queue EXCEPT ![s] = Tail(@)]
    /\ UNCHANGED <<subscribers, sub, handler, log, dispatchVars, since, until>>

\* The client closes the connection, at any time.
Cancel(s) ==
    /\ handler[s] = "streaming"
    /\ handler' = [handler EXCEPT ![s] = "cancelled"]
    /\ UNCHANGED <<subscribers, sub, queue, written, log, dispatchVars, since, until>>

\* case <-ctx.Done(), and the deferred Unsubscribe.  The channel is neither
\* drained nor closed, and a copy of it may still be in some todo.
Unsubscribe(s) ==
    /\ handler[s] = "cancelled"
    /\ handler' = [handler EXCEPT ![s] = "left"]
    /\ subscribers' = subscribers \ {s}
    /\ until' = [until EXCEPT ![s] = Len(log)]
    /\ UNCHANGED <<sub, queue, written, log, dispatchVars, since>>

(***************************************************************************)
(* Dispatch, called by goroutine d.                                        *)
(***************************************************************************)
\* Variant: the client of the alert where its device belongs.
DispatchClient(d, dev) ==
    /\ pc[d] = "idle"
    /\ Len(log) < MaxAlerts
    /\ log' = Append(log, Owner[dev])
    /\ alert' = [alert EXCEPT ![d] = Len(log) + 1]
    /\ todo' = [todo EXCEPT ![d] = subscribers]
    /\ pc' = [pc EXCEPT ![d] = "loop"]
    /\ UNCHANGED <<subscribers, sub, queue, handler, written, cur, since, until>>

\* The copy under the read lock.
Dispatch(d, dev) ==
    /\ pc[d] = "idle"
    /\ Len(log) < MaxAlerts
    /\ log' = Append(log, dev)
    /\ alert' = [alert EXCEPT ![d] = Len(log) + 1]
    /\ todo' = [todo EXCEPT ![d] = subscribers]
    /\ pc' = [pc EXCEPT ![d] = "loop"]
    /\ UNCHANGED <<subscribers, sub, queue, handler, written, cur, since, until>>

\* The order of the copy is that of a Go map: any.
Skip(d, s) ==
    /\ pc[d] = "loop"
    /\ s \in todo[d]
    /\ ~Matches(s, alert[d])
    /\ todo' = [todo EXCEPT ![d] = @ \ {s}]
    /\ UNCHANGED <<subscribers, sub, queue, handler, written, log, pc, alert, cur, since, until>>

\* Variant: the client of the subscriber is not looked at.
TrySendToAll(d, s) ==
    /\ pc[d] = "loop"
    /\ s \in todo[d]
    /\ sub[s].device \in {NoDevice, log[alert[d]]}
    /\ Len(queue[s]) < BufferSize
    /\ queue' = [queue EXCEPT ![s] = Append(@, alert[d])]
    /\ todo' = [todo EXCEPT ![d] = @ \ {s}]
    /\ UNCHANGED <<subscribers, sub, handler, written, log, pc, alert, cur, since, until>>

\* case sub.Alerts <- alert
TrySend(d, s) ==
    /\ pc[d] = "loop"
    /\ s \in todo[d]
    /\ Matches(s, alert[d])
    /\ Len(queue[s]) < BufferSize
    /\ queue' = [queue EXCEPT ![s] = Append(@, alert[d])]
    /\ todo' = [todo EXCEPT ![d] = @ \ {s}]
    /\ UNCHANGED <<subscribers, sub, handler, written, log, pc, alert, cur, since, until>>

\* Variant: a channel with one place left counts as full.
FindAlmostFull(d, s) ==
    /\ pc[d] = "loop"
    /\ s \in todo[d]
    /\ Matches(s, alert[d])
    /\ Len(queue[s]) >= BufferSize - 1
    /\ pc' = [pc EXCEPT ![d] = "drop"]
    /\ cur' = [cur EXCEPT ![d] = {s}]
    /\ todo' = [todo EXCEPT ![d] = @ \ {s}]
    /\ UNCHANGED <<subscribers, sub, queue, handler, written, log, alert, since, until>>

\* Variant: after making room the loop comes back to the same subscriber.
FindFullAgain(d, s) ==
    /\ pc[d] = "loop"
    /\ s \in todo[d]
    /\ Matches(s, alert[d])
    /\ Len(queue[s]) >= BufferSize
    /\ pc' = [pc EXCEPT ![d] = "drop"]
    /\ cur' = [cur EXCEPT ![d] = {s}]
    /\ UNCHANGED <<subscribers, sub, queue, handler, written, log, alert, todo, since, until>>

\* default: the channel was full when the select looked.
FindFull(d, s) ==
    /\ pc[d] = "loop"
    /\ s \in todo[d]
    /\ Matches(s, alert[d])
    /\ Len(queue[s]) >= BufferSize
    /\ pc' = [pc EXCEPT ![d] = "drop"]
    /\ cur' = [cur EXCEPT ![d] = {s}]
    /\ todo' = [todo EXCEPT ![d] = @ \ {s}]
    /\ UNCHANGED <<subscribers, sub, queue, handler, written, log, alert, since, until>>

\* Variant: nothing is dropped.
DropNothing(d, s) ==
    /\ pc[d] = "drop"
    /\ s \in cur[d]
    /\ pc' = [pc EXCEPT ![d] = "send"]
    /\ UNCHANGED <<subscribers, sub, queue, handler, written, log, alert, todo, cur, since, until>>

\* select { case <-sub.Alerts: default: }.  The handler may have drained the
\* channel since FindFull: the oldest alert goes even if there is room by now.
DropOldest(d, s) ==
    /\ pc[d] = "drop"
    /\ s \in cur[d]
    /\ queue' = IF queue[s] = << >> THEN queue ELSE [queue EXCEPT ![s] = Tail(@)]
    /\ pc' = [pc EXCEPT ![d] = "send"]
    /\ UNCHANGED <<subscribers, sub, handler, written, log, alert, todo, cur, since, until>>

\* Variant: the oldest alert made room, but the new one is not sent.
GiveUp(d, s) ==
    /\ pc[d] = "send"
    /\ s \in cur[d]
    /\ pc' = [pc EXCEPT ![d] = "loop"]
    /\ cur' = [cur EXCEPT ![d] = {}]
    /\ UNCHANGED <<subscribers, sub, queue, handler, written, log, alert, todo, since, until>>

\* The last, blocking, sub.Alerts <- alert.
BlockingSend(d, s) ==
    /\ pc[d] = "send"
    /\ s \in cur[d]
    /\ Len(queue[s]) < BufferSize
    /\ queue' = [queue EXCEPT ![s] = Append(@, alert[d])]
    /\ pc' = [pc EXCEPT ![d] = "loop"]
    /\ cur' = [cur EXCEPT ![d] = {}]
    /\ UNCHANGED <<subscribers, sub, handler, written, log, alert, todo, since, until>>

Return(d) ==
    /\ pc[d] = "loop"
    /\ todo[d] = {}
    /\ pc' = [pc EXCEPT ![d] = "idle"]
    /\ UNCHANGED <<subscribers, sub, queue, handler, written, log, alert, todo, cur, since, until>>

-----------------------------------------------------------------------------
DispatchStep(d) ==
    \/ Return(d)
    \/ \E s \in SubIds : \/ Skip(d, s)
                         \/ TrySend(d, s)
                         \/ FindFull(d, s)
                         \/ DropOldest(d, s)
                         \/ BlockingSend(d, s)

HandlerStep(s) == WriteAlert(s) \/ Unsubscribe(s)

Next ==
    \/ \E s \in SubIds, c \in Clients, f \in Devices \cup {NoDevice} : Subscribe(s, c, f)
    \/ \E s \in SubIds : Cancel(s) \/ HandlerStep(s)
    \/ \E d \in Dispatchers, dev \in Devices : Dispatch(d, dev)
    \/ \E d \in Dispatchers : DispatchStep(d)

Spec == Init /\ [][Next]_vars

\* A call of Dispatch runs on; whether alerts and connections come is open.
DispatchFairness == \A d \in Dispatchers : WF_vars(DispatchStep(d))
\* The handler goroutine serves its channel as long as it is scheduled.
HandlerFairness == \A s \in SubIds : WF_vars(WriteAlert(s))

FairDispatch == Spec /\ DispatchFairness
FairSpec == FairDispatch /\ HandlerFairness

-----------------------------------------------------------------------------
(***************************************************************************)
(* Properties                                                              *)
(***************************************************************************)
TypeOK ==
    /\ subscribers \subseteq SubIds
    /\ sub \in [SubIds -> Filter]
    /\ queue \in [SubIds -> Seq(Nat)]
    /\ handler \in [SubIds -> HandlerStates]
    /\ written \in [SubIds -> Seq(Nat)]
    /\ log \in Seq(Devices)
    /\ pc \in [Dispatchers -> PCs]
    /\ alert \in [Dispatchers -> Nat]
    /\ todo \in [Dispatchers -> SUBSET SubIds]
    /\ cur \in [Dispatchers -> SUBSET SubIds]
    /\ since \in [SubIds -> Nat]
    /\ until \in [SubIds -> Nat]

\* Everything that reached subscriber s, oldest first.
Reached(s) == written[s] \o queue[s]

\* The alerts dispatched for s since it subscribed.
Owed(s) == {n \in since[s] + 1 .. Len(log) : Matches(s, n)}

\* Alert n is in the hands of a dispatcher that has yet to deal with s.
Pending(s, n) == \E d \in Dispatchers : alert[d] = n /\ s \in todo[d] \cup cur[d]

\* The program has one goroutine that dispatches, the AlertListener's.
OneDispatcher == \A d, e \in Dispatchers : d = e

\* No connection is ever handed an alert of another client, or of a device it
\* did not ask for, or one dispatched before it subscribed or after its
\* Unsubscribe, although Dispatch works from a copy of the map
\* ("Events from other clients are never delivered").
Isolation ==
    \A s \in SubIds : \A i \in DOMAIN Reached(s) :
        LET n == Reached(s)[i] IN
        /\ n \in Owed(s)
        /\ handler[s] = "left" => n <= until[s]

\* A connection sees its alerts in dispatch order and none of them twice, even
\* when the channel overflows while the handler drains it.
InOrder ==
    OneDispatcher =>
        \A s \in SubIds : \A i, j \in DOMAIN Reached(s) :
            i < j => Reached(s)[i] < Reached(s)[j]

\* With one dispatcher the blocking send of Dispatch finds room, whatever the
\* connection does: one that stalls or has gone cannot stop the fan-out.
NeverBlocks ==
    OneDispatcher =>
        \A d \in Dispatchers : \A s \in cur[d] :
            pc[d] = "send" => Len(queue[s]) < BufferSize

\* An alert owed to a subscribed connection is lost only to a newer one: at any
\* time it has reached the connection, or is about to, or a newer one has or is
\* about to.  In particular the newest alert is never the one dropped.
LostOnlyToNewer ==
    OneDispatcher =>
        \A s \in subscribers : \A n \in Owed(s) :
            \/ \E i \in DOMAIN Reached(s) : Reached(s)[i] >= n
            \/ \E m \in Owed(s) : m >= n /\ Pending(s, m)

\* A connection that was owed no more alerts than its channel holds has lost
\* none: overflow is the only way to lose an alert, whoever drains meanwhile.
NoLossWithinCapacity ==
    \A s \in subscribers :
        Cardinality(Owed(s)) <= BufferSize =>
            \A n \in Owed(s) :
                \/ \E i \in DOMAIN Reached(s) : Reached(s)[i] = n
                \/ Pending(s, n)

\* Every call of Dispatch returns, with no help from the connections.
DispatchReturns ==
    \A d \in Dispatchers : pc[d] # "idle" ~> pc[d] = "idle"

\* The handler's state as the client sees it: subscribed until it has left.
feedState == [s \in SubIds |->
                 CASE handler[s] = "idle" -> "new"
                   [] handler[s] = "left" -> "closed"
                   [] OTHER -> "open"]

Feed == INSTANCE AlertFeed WITH
    Feeds <- SubIds, filter <- sub, state <- feedState, delivered <- written

\* The stream implements AlertFeed, the promise made to one connection: what is
\* written to it was published since it joined, is its own, and comes in order.
ImplementsFeed == Feed!SafeSpec

\* As long as its handler is served, an open connection that could be handed
\* something is: the fan-out starves nobody, though it may skip alerts.
ServesFeed == HandlerFairness => Feed!Fairness
=============================================================================
