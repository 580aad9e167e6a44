---------------------------- MODULE AlertDelivery ----------------------------
(***************************************************************************)
(* An alert from the device's request to the client's stream:              *)
(* core/services/alert/alert_ingest_service.go stores it and notifies the  *)
(* channel, core/services/alert/alert_listener.go takes the notification   *)
(* and calls Dispatch of AlertStream, which this module extends.           *)
(*                                                                         *)
(* The database remembers alerts; a notification reaches only the session  *)
(* that listens at that moment, and nothing is ever replayed.  A request   *)
(* stores all its alerts first and then notifies them one by one.          *)
(***************************************************************************)
EXTENDS AlertStream

CONSTANTS
    Requests,   \* goroutines that serve POST /events and /events/batch
    BatchSize,  \* domain.BatchMaxSize
    Listener,   \* the AlertListener's goroutine, which alone dispatches
    MaxFaults   \* bound on the number of faults

ASSUME ListenerAssumption == Dispatchers = {Listener}
ASSUME DeliveryBoundAssumption == {BatchSize, MaxFaults} \subseteq Nat

VARIABLES
    rows,       \* the alerts table in insertion order, the position is the id
    request,    \* [Requests -> Request]: the request in progress
    accepted,   \* ids in the answers of requests that succeeded
    listening,  \* the listener's session has issued LISTEN
    inbox,      \* notifications that reached the session, not yet taken
    published,  \* the ids of the alerts passed to Dispatch, as log has their devices
    missed,     \* history: ids whose notification was never sent or got lost
    faults      \* the number of faults so far

tableVars == <<rows, request, accepted>>
deliveryVars == <<tableVars, listening, inbox, published, missed, faults>>
systemVars == <<vars, deliveryVars>>

\* batch is the first id of the request that stored the row.
AlertRow == [device : Devices, batch : Nat]

\* The ids next .. last are stored and not yet notified; last is 0 when idle.
Request == [next : Nat, last : Nat]
NoRequest == [next |-> 0, last |-> 0]

-----------------------------------------------------------------------------
SystemInit ==
    /\ Init
    /\ rows = << >>
    /\ request = [r \in Requests |-> NoRequest]
    /\ accepted = {}
    /\ listening = FALSE
    /\ inbox = << >>
    /\ published = << >>
    /\ missed = {}
    /\ faults = 0

Fault == faults < MaxFaults /\ faults' = faults + 1

(***************************************************************************)
(* IngestEvent, which stores one alert, and IngestBatch, which stores the  *)
(* k valid events of its body in one transaction.  Invalid events, an      *)
(* empty batch and one that is too large leave no trace.                   *)
(***************************************************************************)
Store(r, dev, k) ==
    /\ request[r] = NoRequest
    /\ Len(rows) + k <= MaxAlerts
    /\ rows' = rows \o [i \in 1 .. k |-> [device |-> dev, batch |-> Len(rows) + 1]]
    /\ request' = [request EXCEPT ![r] = [next |-> Len(rows) + 1, last |-> Len(rows) + k]]
    /\ UNCHANGED <<accepted, listening, inbox, published, missed, faults>>

\* Variant: the loop is one ahead of the alerts.
NotifyNext(r) ==
    /\ request[r] # NoRequest
    /\ request[r].next <= request[r].last
    /\ inbox' = IF listening THEN Append(inbox, request[r].next + 1) ELSE inbox
    /\ request' = [request EXCEPT ![r].next = @ + 1]
    /\ UNCHANGED <<rows, accepted, listening, published, missed, faults>>

\* Variant: the last alert of the batch first.
NotifyLast(r) ==
    /\ request[r] # NoRequest
    /\ request[r].next <= request[r].last
    /\ LET n == rows[request[r].last].batch + request[r].last - request[r].next IN
           /\ inbox' = IF listening THEN Append(inbox, n) ELSE inbox
           /\ missed' = IF listening THEN missed ELSE missed \cup {n}
    /\ request' = [request EXCEPT ![r].next = @ + 1]
    /\ UNCHANGED <<rows, accepted, listening, published, faults>>

\* NotifyAlertCreated of the next alert, heard by whoever listens now.
Notify(r) ==
    /\ request[r] # NoRequest
    /\ request[r].next <= request[r].last
    /\ LET n == request[r].next IN
           /\ inbox' = IF listening THEN Append(inbox, n) ELSE inbox
           /\ missed' = IF listening THEN missed ELSE missed \cup {n}
    /\ request' = [request EXCEPT ![r].next = @ + 1]
    /\ UNCHANGED <<rows, accepted, listening, published, faults>>

\* Variant: after an error the notifications start again.
AbandonRetry(r) ==
    /\ request[r] # NoRequest
    /\ Fault
    /\ request' = [request EXCEPT ![r].next = rows[request[r].last].batch]
    /\ UNCHANGED <<rows, accepted, listening, inbox, published, missed>>

\* NotifyAlertCreated fails, or the request dies with its rows stored: the rest
\* is not notified, and the device gets an error or no answer for all of them.
Abandon(r) ==
    /\ request[r] # NoRequest
    /\ Fault
    /\ missed' = missed \cup request[r].next .. request[r].last
    /\ request' = [request EXCEPT ![r] = NoRequest]
    /\ UNCHANGED <<rows, accepted, listening, inbox, published>>

\* Variant: the answer does not wait for the notifications.
RespondEarly(r) ==
    /\ request[r] # NoRequest
    /\ accepted' = accepted \cup {n \in 1 .. request[r].last : rows[n].batch = rows[request[r].last].batch}
    /\ request' = [request EXCEPT ![r] = NoRequest]
    /\ UNCHANGED <<rows, listening, inbox, published, missed, faults>>

\* The answer, 202 or 207, with the ids of the alerts that were stored.
Respond(r) ==
    /\ request[r] # NoRequest
    /\ request[r].next > request[r].last
    /\ accepted' = accepted \cup {n \in 1 .. request[r].last : rows[n].batch = rows[request[r].last].batch}
    /\ request' = [request EXCEPT ![r] = NoRequest]
    /\ UNCHANGED <<rows, listening, inbox, published, missed, faults>>

(***************************************************************************)
(* The AlertListener.                                                      *)
(***************************************************************************)
\* listen, at the start of the process and after each backoff.
Listen ==
    /\ ~listening
    /\ pc[Listener] = "idle"
    /\ inbox = << >>
    /\ listening' = TRUE
    /\ UNCHANGED <<tableVars, inbox, published, missed, faults>>

\* handleNotification: FindByID finds the row, whose client is the payload's,
\* and Dispatch is called with it.
Handle ==
    /\ inbox # << >>
    /\ Dispatch(Listener, rows[Head(inbox)].device)
    /\ published' = Append(published, Head(inbox))
    /\ inbox' = Tail(inbox)
    /\ UNCHANGED <<tableVars, listening, missed, faults>>

\* FindByID fails: logged, and the notification is gone.
LookupFails ==
    /\ inbox # << >>
    /\ pc[Listener] = "idle"
    /\ Fault
    /\ missed' = missed \cup {Head(inbox)}
    /\ inbox' = Tail(inbox)
    /\ UNCHANGED <<tableVars, listening, published>>

\* The session breaks, possibly in the middle of Dispatch.  What had arrived is
\* still handled, the rest is lost.
Disconnect ==
    /\ listening
    /\ Fault
    /\ listening' = FALSE
    /\ \E k \in 0 .. Len(inbox) :
           /\ inbox' = SubSeq(inbox, 1, k)
           /\ missed' = missed \cup {inbox[i] : i \in k + 1 .. Len(inbox)}
    /\ UNCHANGED <<tableVars, published>>

-----------------------------------------------------------------------------
StreamStep ==
    \/ \E s \in SubIds, c \in Clients, f \in Devices \cup {NoDevice} : Subscribe(s, c, f)
    \/ \E s \in SubIds : Cancel(s) \/ HandlerStep(s)
    \/ DispatchStep(Listener)

DeliveryStep ==
    \/ \E r \in Requests : \/ \E dev \in Devices, k \in 1 .. BatchSize : Store(r, dev, k)
                           \/ Notify(r) \/ Abandon(r) \/ Respond(r)
    \/ Listen \/ LookupFails \/ Disconnect

SystemNext ==
    \/ StreamStep /\ UNCHANGED deliveryVars
    \/ DeliveryStep /\ UNCHANGED vars
    \/ Handle

SystemSpec == SystemInit /\ [][SystemNext]_systemVars

\* Requests that were begun, the listener and the handlers run on; faults,
\* devices and clients need not.
FairSystem ==
    /\ SystemSpec
    /\ \A r \in Requests : WF_systemVars((Notify(r) \/ Respond(r)) /\ UNCHANGED vars)
    /\ WF_systemVars(Listen /\ UNCHANGED vars)
    /\ WF_systemVars(Handle \/ (DispatchStep(Listener) /\ UNCHANGED deliveryVars))
    /\ \A s \in SubIds : WF_systemVars(WriteAlert(s) /\ UNCHANGED deliveryVars)

-----------------------------------------------------------------------------
(***************************************************************************)
(* Properties                                                              *)
(***************************************************************************)
SystemTypeOK ==
    /\ TypeOK
    /\ rows \in Seq(AlertRow)
    /\ request \in [Requests -> Request]
    /\ \A r \in Requests : request[r].last \in 0 .. Len(rows)
    /\ accepted \subseteq 1 .. Len(rows)
    /\ listening \in BOOLEAN
    /\ inbox \in Seq(1 .. Len(rows))
    /\ published \in Seq(1 .. Len(rows))
    /\ missed \subseteq 1 .. Len(rows)
    /\ faults \in Nat

\* A stored alert is dispatched at most once, as the alert it is, through lost
\* sessions and abandoned requests, and never if its notification was lost.
PublishedOnce ==
    /\ Len(published) = Len(log)
    /\ \A i \in DOMAIN published :
           /\ log[i] = rows[published[i]].device
           /\ published[i] \notin missed
           /\ \A j \in DOMAIN published \ {i} : published[i] # published[j]

\* The alerts of one batch are dispatched in the order of the batch, whatever
\* other requests notify in between and whatever is lost on the way.
BatchInOrder ==
    \A i, j \in DOMAIN published :
        /\ i < j
        /\ rows[published[i]].batch = rows[published[j]].batch
        => published[i] < published[j]

\* An alert the device was told of as accepted has not been forgotten: it was
\* dispatched, is on its way to the listener, or was lost with its session.
AcceptedAccountedFor ==
    \A n \in accepted :
        \/ n \in missed
        \/ \E i \in DOMAIN inbox : inbox[i] = n
        \/ \E i \in DOMAIN published : published[i] = n

\* Alert n, stored and not yet notified, is one that connection s asked for.
Awaits(s, n) ==
    /\ handler[s] = "streaming"
    /\ \E r \in Requests : n \in request[r].next .. request[r].last
    /\ sub[s].client = Owner[rows[n].device]
    /\ sub[s].device \in {NoDevice, rows[n].device}

Sent(s, n) == \E i \in DOMAIN written[s] : published[written[s][i]] = n

\* An alert stored while a connection is open is written to it, or a newer one
\* is, or the connection is closed, or the alert's notification is lost.
StoredIsShown ==
    \A s \in SubIds, n \in 1 .. MaxAlerts :
        Awaits(s, n) ~>
            \/ handler[s] # "streaming"
            \/ n \in missed
            \/ \E j \in DOMAIN published :
                   published[j] = n /\ \E i \in DOMAIN written[s] : written[s][i] >= j

\* "sends `event: alert` whenever one of the client's devices ingests an alert":
\* a connection that stays open is sent every alert whose ingestion succeeds.
AcceptedIsSent ==
    \A s \in SubIds, n \in 1 .. MaxAlerts :
        [](Awaits(s, n) /\ <>(n \in accepted) =>
               <>(handler[s] # "streaming" \/ Sent(s, n)))
=============================================================================
