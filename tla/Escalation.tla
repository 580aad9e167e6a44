----------------------------- MODULE Escalation -----------------------------
(***************************************************************************)
(* Automatic escalation: core/services/alert/alert_escalation_service.go   *)
(* and alert_escalation_listener.go, with the stores they use.             *)
(*                                                                         *)
(* Devices insert alerts and notify the channel in two separate database   *)
(* calls.  Every API instance runs one EscalationListener: it takes the    *)
(* notifications one at a time, scans the alerts of the same device and    *)
(* type in the rolling window, claims the cooldown of (device, type) in    *)
(* Redis, inserts the auto_escalated alert (the marker) and notifies it.   *)
(* Every call may fail, the session that listens may break, an instance    *)
(* may crash, and the clock may move between any two calls.                *)
(***************************************************************************)
EXTENDS Naturals, Sequences, FiniteSets

CONSTANTS
    Instances,   \* API processes, each with its EscalationListener
    Devices,     \* devices that send events
    Types,       \* alert types a device sends, Marker may be among them
    Marker,      \* domain.TypeAutoEscalated, "auto_escalated"
    Enabled,     \* ESCALATION_ENABLED
    Threshold,   \* ESCALATION_THRESHOLD
    Window,      \* ESCALATION_WINDOW, in clock units
    Cooldown,    \* ESCALATION_COOLDOWN, in clock units
    Skew,        \* how far a device's occurred_at may be from the clock
    Faults,      \* the faults that occur: a subset of FaultKinds
    MaxFaults,   \* bound on the number of faults
    MaxIngest,   \* bound on the number of alerts the devices send
    MaxTime,     \* bound on the clock
    Prompt       \* the clock stands still while an alert is being handled

FaultKinds == {"notification", "lookup", "scan", "claim", "reply", "insert",
               "notify", "disconnect", "crash"}

\* LoadConfig checks none of the three: these are the values that make sense.
ASSUME ThresholdAssumption == Threshold \in Nat \ {0}
ASSUME DurationAssumption == Window \in Nat /\ Cooldown \in Nat \ {0}
ASSUME FaultAssumption == Faults \subseteq FaultKinds /\ MaxFaults \in Nat
ASSUME BoundAssumption == {MaxIngest, MaxTime, Skew} \subseteq Nat
ASSUME SwitchAssumption == {Enabled, Prompt} \subseteq BOOLEAN

\* There is a process that could escalate.
ASSUME InstanceAssumption == Instances # {}

VARIABLES
    now,        \* the clock of the instances, the database and Redis
    alerts,     \* rows of the alerts table in insertion order, the position is the id
    unnotified, \* ids inserted by a request handler that has yet to notify
    expires,    \* [Devices \X AllTypes -> Nat]: when a Redis cooldown key expires
    listening,  \* [Instances -> BOOLEAN]: the listener's session has issued LISTEN
    queue,      \* [Instances -> Seq(Nat)]: notifications it has yet to take
    worker,     \* [Instances -> Worker]: the call of HandleNewAlert in progress
    faults      \* the number of faults so far

vars == <<now, alerts, unnotified, expires, listening, queue, worker, faults>>

AllTypes == Types \cup {Marker}
Keys == Devices \X AllTypes

\* of, sources, scan and claim say for a marker what it escalates, its
\* source_alert_ids and, as history, the clock when its window was fixed and
\* when its cooldown was claimed.
Alert == [device : Devices, type : AllTypes, at : Nat, received : Nat,
          of : AllTypes, sources : SUBSET Nat, scan : Nat, claim : Nat]

Worker == [pc : {"idle", "scan", "claim", "insert", "notify"}, job : Nat,
           sources : SUBSET Nat, scan : Nat, claim : Nat]

\* A worker at step pc with alert id, before it has scanned for anything; scan
\* is the clock it read for the window.
At(pc, id, time) == [pc |-> pc, job |-> id, sources |-> {}, scan |-> time, claim |-> 0]
Idle == At("idle", 0, 0)

IsMarker(n) == alerts[n].type = Marker
KeyOf(n) == <<alerts[n].device, alerts[n].type>>
\* The cooldown key a marker answers for.
EscalatedKey(n) == <<alerts[n].device, alerts[n].of>>

\* ListSameTypeIDsWithinWindow(device, type, time - Window): no upper limit,
\* so that an alert from the future counts.
WindowSources(key, time) ==
    {n \in 1 .. Len(alerts) : KeyOf(n) = key /\ alerts[n].at + Window >= time}

FromDevices == {n \in 1 .. Len(alerts) : alerts[n].sources = {}}

-----------------------------------------------------------------------------
Init ==
    /\ now = 0
    /\ alerts = << >>
    /\ unnotified = {}
    /\ expires = [k \in Keys |-> 0]
    /\ listening = [i \in Instances |-> TRUE]
    /\ queue = [i \in Instances |-> << >>]
    /\ worker = [i \in Instances |-> Idle]
    /\ faults = 0

Fault(kind) ==
    /\ kind \in Faults
    /\ faults < MaxFaults
    /\ faults' = faults + 1

\* pg_notify(alert_channel, id): to the sessions that listen at this moment.
Publish(id) ==
    queue' = [i \in Instances |->
                 IF listening[i] THEN Append(queue[i], id) ELSE queue[i]]

(***************************************************************************)
(* A request that ingests an event.                                        *)
(***************************************************************************)
\* Variant: an insert that failed is notified all the same.
IngestNothing(dev, type, at) ==
    /\ Cardinality(FromDevices) < MaxIngest
    /\ at <= now + Skew /\ now <= at + Skew
    /\ unnotified' = unnotified \cup {Len(alerts) + 1}
    /\ UNCHANGED <<now, alerts, expires, listening, queue, worker, faults>>

\* repo.Create: the row is committed.  occurred_at is the device's word.
\* CreateBatch commits several such rows before the first is notified.
Ingest(dev, type, at) ==
    /\ Cardinality(FromDevices) < MaxIngest
    /\ at <= now + Skew /\ now <= at + Skew
    /\ alerts' = Append(alerts,
           [device |-> dev, type |-> type, at |-> at, received |-> now,
            of |-> type, sources |-> {}, scan |-> 0, claim |-> 0])
    /\ unnotified' = unnotified \cup {Len(alerts) + 1}
    /\ UNCHANGED <<now, expires, listening, queue, worker, faults>>

\* NotifyAlertCreated, in the order the concurrent requests get to it.
NotifyIngested(n) ==
    /\ n \in unnotified
    /\ unnotified' = unnotified \ {n}
    /\ Publish(n)
    /\ UNCHANGED <<now, alerts, expires, listening, worker, faults>>

\* pg_notify fails or the process dies first: the row stays, nobody hears of it.
LoseNotification(n) ==
    /\ n \in unnotified
    /\ Fault("notification")
    /\ unnotified' = unnotified \ {n}
    /\ UNCHANGED <<now, alerts, expires, listening, queue, worker>>

(***************************************************************************)
(* handleNotification and HandleNewAlert on instance i.                    *)
(***************************************************************************)
\* Returns with nothing done: "disabled" or "skipped_marker".
Ignore(i) ==
    /\ worker[i].pc = "idle"
    /\ queue[i] # << >>
    /\ ~Enabled \/ IsMarker(Head(queue[i]))
    /\ queue' = [queue EXCEPT ![i] = Tail(@)]
    /\ UNCHANGED <<now, alerts, unnotified, expires, listening, worker, faults>>

\* Variant: markers are handled like any alert.
TakeMarkerToo(i) ==
    /\ worker[i].pc = "idle"
    /\ queue[i] # << >>
    /\ Enabled
    /\ worker' = [worker EXCEPT ![i] = At("scan", Head(queue[i]), now)]
    /\ queue' = [queue EXCEPT ![i] = Tail(@)]
    /\ UNCHANGED <<now, alerts, unnotified, expires, listening, faults>>

\* lookup.FindByID succeeds, and s.now() fixes the window of the scan.
Take(i) ==
    /\ worker[i].pc = "idle"
    /\ queue[i] # << >>
    /\ Enabled /\ ~IsMarker(Head(queue[i]))
    /\ worker' = [worker EXCEPT ![i] = At("scan", Head(queue[i]), now)]
    /\ queue' = [queue EXCEPT ![i] = Tail(@)]
    /\ UNCHANGED <<now, alerts, unnotified, expires, listening, faults>>

\* lookup.FindByID fails: logged, and the notification is gone.
LookupFails(i) ==
    /\ worker[i].pc = "idle"
    /\ queue[i] # << >>
    /\ Enabled
    /\ Fault("lookup")
    /\ queue' = [queue EXCEPT ![i] = Tail(@)]
    /\ UNCHANGED <<now, alerts, unnotified, expires, listening, worker>>

JobKey(i) == KeyOf(worker[i].job)
\* What the scan returns at this moment.
Burst(i) == WindowSources(JobKey(i), worker[i].scan)

\* Variant: <= for <.
ScanNotAbove(i) ==
    /\ worker[i].pc = "scan"
    /\ Cardinality(Burst(i)) <= Threshold
    /\ worker' = [worker EXCEPT ![i] = Idle]
    /\ UNCHANGED <<now, alerts, unnotified, expires, listening, queue, faults>>

\* "below_threshold"
ScanBelow(i) ==
    /\ worker[i].pc = "scan"
    /\ Cardinality(Burst(i)) < Threshold
    /\ worker' = [worker EXCEPT ![i] = Idle]
    /\ UNCHANGED <<now, alerts, unnotified, expires, listening, queue, faults>>

ScanBurst(i) ==
    /\ worker[i].pc = "scan"
    /\ Cardinality(Burst(i)) >= Threshold
    /\ worker' = [worker EXCEPT ![i].pc = "claim", ![i].sources = Burst(i)]
    /\ UNCHANGED <<now, alerts, unnotified, expires, listening, queue, faults>>

\* Variant: SET without NX.
ClaimAnyway(i) ==
    /\ worker[i].pc = "claim"
    /\ expires' = [expires EXCEPT ![JobKey(i)] = now + Cooldown]
    /\ worker' = [worker EXCEPT ![i].pc = "insert", ![i].claim = now]
    /\ UNCHANGED <<now, alerts, unnotified, listening, queue, faults>>

\* SET NX EX succeeds.
Claim(i) ==
    /\ worker[i].pc = "claim"
    /\ expires[JobKey(i)] <= now
    /\ expires' = [expires EXCEPT ![JobKey(i)] = now + Cooldown]
    /\ worker' = [worker EXCEPT ![i].pc = "insert", ![i].claim = now]
    /\ UNCHANGED <<now, alerts, unnotified, listening, queue, faults>>

\* "cooldown_active"
ClaimRefused(i) ==
    /\ worker[i].pc = "claim"
    /\ expires[JobKey(i)] > now
    /\ worker' = [worker EXCEPT ![i] = Idle]
    /\ UNCHANGED <<now, alerts, unnotified, expires, listening, queue, faults>>

\* Redis took the key but the reply is lost: an error here, or, when the Redis
\* client tries again by itself, a refusal.
ClaimReplyLost(i) ==
    /\ worker[i].pc = "claim"
    /\ expires[JobKey(i)] <= now
    /\ Fault("reply")
    /\ expires' = [expires EXCEPT ![JobKey(i)] = now + Cooldown]
    /\ worker' = [worker EXCEPT ![i] = Idle]
    /\ UNCHANGED <<now, alerts, unnotified, listening, queue>>

\* ingest.Create of buildEscalation, which has read the clock for occurred_at
\* at some time since the claim.
Insert(i) ==
    /\ worker[i].pc = "insert"
    /\ \E at \in worker[i].claim .. now :
           alerts' = Append(alerts,
               [device |-> alerts[worker[i].job].device, type |-> Marker, at |-> at,
                received |-> now, of |-> alerts[worker[i].job].type,
                sources |-> worker[i].sources, scan |-> worker[i].scan,
                claim |-> worker[i].claim])
    /\ worker' = [worker EXCEPT ![i] = At("notify", Len(alerts) + 1, 0)]
    /\ UNCHANGED <<now, unnotified, expires, listening, queue, faults>>

NotifyMarker(i) ==
    /\ worker[i].pc = "notify"
    /\ Publish(worker[i].job)
    /\ worker' = [worker EXCEPT ![i] = Idle]
    /\ UNCHANGED <<now, alerts, unnotified, expires, listening, faults>>

\* A query, the claim, the insert or the notify returns an error.  It is
\* logged; what the earlier calls did is not undone and nothing is retried.
CallFails(i) ==
    /\ worker[i].pc # "idle"
    /\ Fault(worker[i].pc)
    /\ worker' = [worker EXCEPT ![i] = Idle]
    /\ UNCHANGED <<now, alerts, unnotified, expires, listening, queue>>

(***************************************************************************)
(* The session of the listener, the process and the clock.                 *)
(***************************************************************************)
\* The session breaks.  What had arrived is still handled, the rest is lost.
Disconnect(i) ==
    /\ listening[i]
    /\ Fault("disconnect")
    /\ listening' = [listening EXCEPT ![i] = FALSE]
    /\ \E n \in 0 .. Len(queue[i]) : queue' = [queue EXCEPT ![i] = SubSeq(@, 1, n)]
    /\ UNCHANGED <<now, alerts, unnotified, expires, worker>>

\* Variant: the new session does not LISTEN.
Reconnect(i) ==
    /\ ~listening[i]
    /\ worker[i].pc = "idle"
    /\ queue[i] = << >>
    /\ UNCHANGED vars

\* Run after the backoff, or a process that has just started: LISTEN.
Listen(i) ==
    /\ ~listening[i]
    /\ worker[i].pc = "idle"
    /\ queue[i] = << >>
    /\ listening' = [listening EXCEPT ![i] = TRUE]
    /\ UNCHANGED <<now, alerts, unnotified, expires, queue, worker, faults>>

\* The process dies.  The table and the Redis keys survive it.
Crash(i) ==
    /\ Fault("crash")
    /\ listening' = [listening EXCEPT ![i] = FALSE]
    /\ queue' = [queue EXCEPT ![i] = << >>]
    /\ worker' = [worker EXCEPT ![i] = Idle]
    /\ UNCHANGED <<now, alerts, unnotified, expires>>

\* Nothing is under way.
Settled ==
    /\ unnotified = {}
    /\ \A i \in Instances : listening[i] /\ queue[i] = << >> /\ worker[i] = Idle

Tick ==
    /\ now < MaxTime
    /\ Prompt => Settled
    /\ now' = now + 1
    /\ UNCHANGED <<alerts, unnotified, expires, listening, queue, worker, faults>>

-----------------------------------------------------------------------------
WorkerStep(i) ==
    \/ Ignore(i) \/ Take(i)
    \/ ScanBelow(i) \/ ScanBurst(i)
    \/ Claim(i) \/ ClaimRefused(i)
    \/ Insert(i) \/ NotifyMarker(i)

WorkerFault(i) ==
    LookupFails(i) \/ CallFails(i) \/ ClaimReplyLost(i) \/ Disconnect(i) \/ Crash(i)

Next ==
    \/ \E dev \in Devices, type \in Types, at \in 0 .. MaxTime + Skew : Ingest(dev, type, at)
    \/ \E n \in unnotified : NotifyIngested(n) \/ LoseNotification(n)
    \/ \E i \in Instances : WorkerStep(i) \/ WorkerFault(i) \/ Listen(i)
    \/ Tick

Spec == Init /\ [][Next]_vars

\* Request handlers, listeners and reconnects run on; devices and faults need not.
FairSpec ==
    /\ Spec
    /\ \A i \in Instances : WF_vars(WorkerStep(i)) /\ WF_vars(Listen(i))
    /\ WF_vars(\E n \in unnotified : NotifyIngested(n))

-----------------------------------------------------------------------------
(***************************************************************************)
(* Properties                                                              *)
(***************************************************************************)
TypeOK ==
    /\ now \in Nat
    /\ alerts \in Seq(Alert)
    /\ unnotified \subseteq 1 .. Len(alerts)
    /\ expires \in [Keys -> Nat]
    /\ listening \in [Instances -> BOOLEAN]
    /\ queue \in [Instances -> Seq(1 .. Len(alerts))]
    /\ worker \in [Instances -> Worker]
    /\ \A i \in Instances : worker[i].pc # "idle" => worker[i].job \in 1 .. Len(alerts)
    /\ faults \in Nat

Markers == {n \in 1 .. Len(alerts) : alerts[n].sources # {}}

\* Two escalations of one device and type never come from claims closer than
\* the cooldown, whatever instance handled them and whatever failed between
\* ("claim cooldown atomic", one critical alert per burst).
EscalationsSpaced ==
    \A m, n \in Markers :
        m # n /\ EscalatedKey(m) = EscalatedKey(n) =>
            \/ alerts[m].claim + Cooldown <= alerts[n].claim
            \/ alerts[n].claim + Cooldown <= alerts[m].claim

\* Every marker names a real burst: at least Threshold alerts, older than the
\* marker, of its device and of one type, none of them itself a marker (no
\* recursion), all inside the rolling window that was fixed before the claim.
BurstEvidence ==
    \A m \in Markers :
        /\ IsMarker(m)
        /\ Cardinality(alerts[m].sources) >= Threshold
        /\ \A n \in alerts[m].sources :
               /\ n \in 1 .. m - 1
               /\ KeyOf(n) = EscalatedKey(m)
               /\ ~IsMarker(n)
               /\ alerts[m].scan <= alerts[n].at + Window
        /\ alerts[m].scan <= alerts[m].claim
        /\ alerts[m].claim <= alerts[m].at

\* As long as nothing has failed and handling is prompt, a burst that has just
\* been added to is covered: a marker was claimed for it within the last Cooldown.
BurstEscalated ==
    Enabled /\ faults = 0 /\ Settled =>
        \A n \in 1 .. Len(alerts) :
            /\ ~IsMarker(n)
            /\ alerts[n].received = now
            /\ Cardinality(WindowSources(KeyOf(n), now)) >= Threshold
            => \E m \in Markers : /\ EscalatedKey(m) = KeyOf(n)
                                  /\ now < alerts[m].claim + Cooldown

\* An alert skipped because of an active cooldown is a duplicate: the claim that
\* holds the cooldown has led to a marker, or is about to.
SkippedIsDuplicate ==
    \A k \in Keys :
        expires[k] > now =>
            \/ \E m \in Markers : EscalatedKey(m) = k /\ alerts[m].claim + Cooldown = expires[k]
            \/ \E i \in Instances : worker[i].pc = "insert" /\ JobKey(i) = k

\* Markers are notified on the channel the workers listen to, and sessions come
\* and go, yet the pipeline always comes to rest again.
AlwaysSettles == []<>Settled
=============================================================================
