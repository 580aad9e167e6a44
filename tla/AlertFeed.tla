------------------------------ MODULE AlertFeed ------------------------------
(***************************************************************************)
(* What the SSE endpoint promises a subscriber, with no channel, no lock   *)
(* and no dispatcher: alerts are published in one order, and an open feed  *)
(* is handed alerts of its own client (and device, if it asked for one),   *)
(* published after it joined, each at most once and in publication order.  *)
(* A feed may miss alerts, but while it stays open it is always handed     *)
(* something newer as long as something newer exists.                      *)
(* AlertStream is shown to implement this specification.                   *)
(***************************************************************************)
EXTENDS Naturals, Sequences

CONSTANTS
    Feeds,       \* identities of feeds, each used once
    Clients,     \* authenticated clients
    Devices,     \* devices that raise alerts
    Owner,       \* [Devices -> Clients]
    NoDevice,    \* the absent device filter
    MaxAlerts    \* bound on the number of alerts published

VARIABLES
    log,         \* the devices of the alerts published so far, in order
    filter,      \* [Feeds -> [client, device]], what a feed asked for
    state,       \* [Feeds -> {"new", "open", "closed"}]
    since,       \* [Feeds -> Nat], the alerts published before the feed joined
    delivered    \* [Feeds -> Seq(Nat)], what the feed was handed

vars == <<log, filter, state, since, delivered>>

-----------------------------------------------------------------------------
\* Alert n is of the client and device that feed f asked for.
Wants(f, n) ==
    /\ filter[f].client = Owner[log[n]]
    /\ filter[f].device \in {NoDevice, log[n]}

\* The alerts feed f may still be handed: its own, and newer than its last one.
Fresh(f) ==
    {n \in since[f] + 1 .. Len(log) :
        /\ Wants(f, n)
        /\ \A i \in 1 .. Len(delivered[f]) : delivered[f][i] < n}

-----------------------------------------------------------------------------
Init ==
    /\ log = << >>
    /\ filter \in [Feeds -> [client : Clients, device : {NoDevice}]]
    /\ state = [f \in Feeds |-> "new"]
    /\ since = [f \in Feeds |-> 0]
    /\ delivered = [f \in Feeds |-> << >>]

Publish(d) ==
    /\ Len(log) < MaxAlerts
    /\ log' = Append(log, d)
    /\ UNCHANGED <<filter, state, since, delivered>>

Join(f, c, d) ==
    /\ state[f] = "new"
    /\ state' = [state EXCEPT ![f] = "open"]
    /\ filter' = [filter EXCEPT ![f] = [client |-> c, device |-> d]]
    /\ since' = [since EXCEPT ![f] = Len(log)]
    /\ UNCHANGED <<log, delivered>>

Leave(f) ==
    /\ state[f] = "open"
    /\ state' = [state EXCEPT ![f] = "closed"]
    /\ UNCHANGED <<log, filter, since, delivered>>

Deliver(f) ==
    /\ state[f] = "open"
    /\ \E n \in Fresh(f) : delivered' = [delivered EXCEPT ![f] = Append(@, n)]
    /\ UNCHANGED <<log, filter, state, since>>

Next ==
    \/ \E d \in Devices : Publish(d)
    \/ \E f \in Feeds, c \in Clients, d \in Devices \cup {NoDevice} : Join(f, c, d)
    \/ \E f \in Feeds : Leave(f) \/ Deliver(f)

SafeSpec == Init /\ [][Next]_vars

\* Leaving is up to the client, delivering is not.
Fairness == \A f \in Feeds : WF_vars(Deliver(f))

Spec == SafeSpec /\ Fairness
=============================================================================
