-------------------------- MODULE EscalationProofs --------------------------
(***************************************************************************)
(* Theorems about Escalation, for every number of instances, devices and   *)
(* types, every threshold, window and cooldown, and every pattern of       *)
(* faults.                                                                 *)
(***************************************************************************)
EXTENDS Escalation, FiniteSetTheorems, TLAPS

LEMMA WiderSeq ==
    ASSUME NEW S, NEW T, S \subseteq T, NEW q \in Seq(S)
    PROVE  q \in Seq(T)
OBVIOUS

LEMMA AppendSeq ==
    ASSUME NEW S, NEW q \in Seq(S), NEW x \in S
    PROVE  Append(q, x) \in Seq(S)
OBVIOUS

LEMMA AppendRow ==
    ASSUME NEW q \in Seq(Alert), NEW r \in Alert
    PROVE  /\ Append(q, r) \in Seq(Alert)
           /\ Len(q) \in Nat
           /\ Len(Append(q, r)) = Len(q) + 1
           /\ \A n \in 1 .. Len(q) : Append(q, r)[n] = q[n]
           /\ Append(q, r)[Len(q) + 1] = r
OBVIOUS

(***************************************************************************)
(* Type correctness.                                                       *)
(***************************************************************************)
LEMMA IdleType == Idle \in Worker
BY DEF Idle, At, Worker

LEMMA TypeInit == Init => TypeOK
BY IdleType DEF Init, TypeOK, Idle, At

\* A notification goes to the end of the queue of who listens.
LEMMA PublishType ==
    ASSUME TypeOK, NEW id \in 1 .. Len(alerts), Publish(id)
    PROVE  queue' \in [Instances -> Seq(1 .. Len(alerts))]
<1>1. ASSUME NEW i \in Instances
      PROVE  (IF listening[i] THEN Append(queue[i], id) ELSE queue[i]) \in Seq(1 .. Len(alerts))
  <2>1. queue[i] \in Seq(1 .. Len(alerts))
    BY DEF TypeOK
  <2>. QED  BY <2>1, AppendSeq
<1>. QED  BY <1>1 DEF Publish

\* A row added at the end leaves everything that names a row in its type.
LEMMA AppendType ==
    ASSUME TypeOK, NEW r \in Alert, alerts' = Append(alerts, r),
           unnotified' \subseteq unnotified \cup {Len(alerts) + 1}, queue' = queue
    PROVE  /\ alerts' \in Seq(Alert)
           /\ unnotified' \subseteq 1 .. Len(alerts')
           /\ queue' \in [Instances -> Seq(1 .. Len(alerts'))]
<1>1. /\ alerts' \in Seq(Alert) /\ Len(alerts) \in Nat /\ Len(alerts') = Len(alerts) + 1
  BY AppendRow DEF TypeOK
<1>2. 1 .. Len(alerts) \subseteq 1 .. Len(alerts')
  BY <1>1
<1>3. unnotified' \subseteq 1 .. Len(alerts')
  BY <1>1, <1>2 DEF TypeOK
<1>4. ASSUME NEW i \in Instances  PROVE queue[i] \in Seq(1 .. Len(alerts'))
  BY <1>2, WiderSeq DEF TypeOK
<1>5. queue \in [Instances -> Seq(1 .. Len(alerts'))]
  BY <1>4 DEF TypeOK
<1>. QED  BY <1>1, <1>3, <1>5

\* The row that Insert adds is a marker of what the worker scanned and claimed.
LEMMA InsertRow ==
    ASSUME TypeOK, NEW i \in Instances, Insert(i)
    PROVE  \E r \in Alert :
              /\ alerts' = Append(alerts, r)
              /\ r.type = Marker /\ r.received = now
              /\ <<r.device, r.of>> = JobKey(i) /\ r.sources = worker[i].sources
              /\ r.scan = worker[i].scan /\ r.claim = worker[i].claim /\ r.claim <= r.at
<1>1. worker[i].job \in 1 .. Len(alerts) /\ worker[i] \in Worker /\ now \in Nat
  BY DEF Insert, TypeOK
<1>2. PICK at \in worker[i].claim .. now :
         alerts' = Append(alerts,
             [device |-> alerts[worker[i].job].device, type |-> Marker, at |-> at,
              received |-> now, of |-> alerts[worker[i].job].type,
              sources |-> worker[i].sources, scan |-> worker[i].scan,
              claim |-> worker[i].claim])
  BY DEF Insert
<1>. DEFINE r == [device |-> alerts[worker[i].job].device, type |-> Marker, at |-> at,
                  received |-> now, of |-> alerts[worker[i].job].type,
                  sources |-> worker[i].sources, scan |-> worker[i].scan,
                  claim |-> worker[i].claim]
<1>3. worker[i].claim \in Nat /\ worker[i].scan \in Nat /\ worker[i].sources \in SUBSET Nat
  BY <1>1 DEF Worker
<1>4. at \in Nat /\ worker[i].claim <= at
  BY <1>1, <1>2, <1>3
<1>5. /\ alerts[worker[i].job].device \in Devices
      /\ alerts[worker[i].job].type \in AllTypes /\ Marker \in AllTypes
  <2>1. alerts[worker[i].job] \in Alert
    BY <1>1 DEF TypeOK
  <2>. QED  BY <2>1 DEF Alert, AllTypes
<1>6. r \in Alert
  BY <1>1, <1>3, <1>4, <1>5 DEF Alert
<1>7. <<r.device, r.of>> = JobKey(i)
  BY DEF JobKey, KeyOf
<1>8. alerts' = Append(alerts, r)
  BY <1>2
<1>. QED  BY <1>4, <1>6, <1>7, <1>8

LEMMA TypeStep == TypeOK /\ [Next]_vars => TypeOK'
<1>. SUFFICES ASSUME TypeOK, [Next]_vars  PROVE TypeOK'
  OBVIOUS
<1>. USE DEF TypeOK
<1>1. CASE UNCHANGED vars
  BY <1>1 DEF vars
<1>2. ASSUME NEW dev \in Devices, NEW type \in Types, NEW at \in 0 .. MaxTime + Skew,
             Ingest(dev, type, at)
      PROVE  TypeOK'
  <2>1. at \in Nat
    BY BoundAssumption
  <2>2. [device |-> dev, type |-> type, at |-> at, received |-> now,
         of |-> type, sources |-> {}, scan |-> 0, claim |-> 0] \in Alert
    BY <2>1 DEF Alert, AllTypes
  <2>3. /\ alerts' \in Seq(Alert)
        /\ unnotified' \subseteq 1 .. Len(alerts')
        /\ queue' \in [Instances -> Seq(1 .. Len(alerts'))]
    BY <1>2, <2>2, AppendType DEF Ingest
  <2>4. \A i \in Instances : worker[i].pc # "idle" => worker[i].job \in 1 .. Len(alerts')
    BY <1>2, <2>2, AppendRow DEF Ingest
  <2>. QED  BY <1>2, <2>3, <2>4 DEF Ingest
<1>3. ASSUME NEW n \in unnotified, NotifyIngested(n)  PROVE TypeOK'
  BY <1>3, PublishType DEF NotifyIngested
<1>4. ASSUME NEW n \in unnotified, LoseNotification(n)  PROVE TypeOK'
  BY <1>4 DEF LoseNotification, Fault
<1>5. ASSUME NEW i \in Instances, Ignore(i) \/ LookupFails(i)  PROVE TypeOK'
  <2>1. queue[i] \in Seq(1 .. Len(alerts)) /\ queue[i] # << >>
    BY <1>5 DEF Ignore, LookupFails
  <2>2. Tail(queue[i]) \in Seq(1 .. Len(alerts))
    BY <2>1
  <2>3. queue' \in [Instances -> Seq(1 .. Len(alerts))]
    BY <1>5, <2>2 DEF Ignore, LookupFails
  <2>4. faults' \in Nat
    BY <1>5 DEF Ignore, LookupFails, Fault
  <2>. QED  BY <1>5, <2>3, <2>4 DEF Ignore, LookupFails
<1>6. ASSUME NEW i \in Instances, Take(i)  PROVE TypeOK'
  <2>1. Head(queue[i]) \in 1 .. Len(alerts) /\ Len(alerts) \in Nat
    BY <1>6 DEF Take
  <2>2. At("scan", Head(queue[i]), now) \in Worker
    BY <2>1 DEF At, Worker
  <2>3. queue' \in [Instances -> Seq(1 .. Len(alerts))]
    BY <1>6 DEF Take
  <2>. QED  BY <1>6, <2>1, <2>2, <2>3 DEF Take, Idle, At
<1>7. ASSUME NEW i \in Instances,
             ScanBelow(i) \/ ClaimRefused(i) \/ CallFails(i) \/ ClaimReplyLost(i)
      PROVE  TypeOK'
  <2>1. worker' = [worker EXCEPT ![i] = Idle]
    BY <1>7 DEF ScanBelow, ClaimRefused, CallFails, ClaimReplyLost
  <2>2. expires' \in [Keys -> Nat] /\ faults' \in Nat
    BY <1>7, DurationAssumption DEF ScanBelow, ClaimRefused, CallFails, ClaimReplyLost, Fault
  <2>. QED  BY <1>7, <2>1, <2>2, IdleType
            DEF ScanBelow, ClaimRefused, CallFails, ClaimReplyLost, Idle, At
<1>8. ASSUME NEW i \in Instances, ScanBurst(i)  PROVE TypeOK'
  <2>1. Burst(i) \in SUBSET Nat
    BY DEF Burst, WindowSources
  <2>2. worker[i] \in Worker
    OBVIOUS
  <2>3. \A src \in SUBSET Nat :
          [worker[i] EXCEPT !.pc = "claim", !.sources = src] \in Worker
    BY <2>2 DEF Worker
  <2>4. worker' = [worker EXCEPT ![i] = [worker[i] EXCEPT
                     !.pc = "claim", !.sources = Burst(i)]]
    BY <1>8 DEF ScanBurst
  <2>5. worker' \in [Instances -> Worker]
    BY <2>1, <2>3, <2>4
  <2>6. \A j \in Instances : worker'[j].pc # "idle" => worker'[j].job \in 1 .. Len(alerts)
    BY <1>8, <2>2, <2>4 DEF ScanBurst, Worker
  <2>. QED  BY <1>8, <2>5, <2>6 DEF ScanBurst
<1>9. ASSUME NEW i \in Instances, Claim(i)  PROVE TypeOK'
  <2>1. worker[i] \in Worker
    OBVIOUS
  <2>2. [worker[i] EXCEPT !.pc = "insert", !.claim = now] \in Worker
    BY <2>1 DEF Worker
  <2>3. worker' = [worker EXCEPT ![i] = [worker[i] EXCEPT !.pc = "insert", !.claim = now]]
    BY <1>9 DEF Claim
  <2>4. now + Cooldown \in Nat
    BY DurationAssumption
  <2>5. expires' \in [Keys -> Nat]
    BY <1>9, <2>4 DEF Claim
  <2>6. \A j \in Instances : worker'[j].pc # "idle" => worker'[j].job \in 1 .. Len(alerts)
    BY <1>9, <2>1, <2>3 DEF Claim, Worker
  <2>. QED  BY <1>9, <2>2, <2>3, <2>5, <2>6 DEF Claim
<1>10. ASSUME NEW i \in Instances, Insert(i)  PROVE TypeOK'
  <2>1. PICK r \in Alert : alerts' = Append(alerts, r)
    BY <1>10, InsertRow
  <2>2. unnotified' = unnotified /\ queue' = queue
    BY <1>10 DEF Insert
  <2>3. /\ Len(alerts) \in Nat /\ Len(alerts') = Len(alerts) + 1
    BY <2>1, AppendRow
  <2>4. /\ alerts' \in Seq(Alert)
        /\ unnotified' \subseteq 1 .. Len(alerts')
        /\ queue' \in [Instances -> Seq(1 .. Len(alerts'))]
    BY <2>1, <2>2, AppendType
  <2>5. At("notify", Len(alerts) + 1, 0) \in Worker
    BY <2>3 DEF At, Worker
  <2>6. \A j \in Instances : worker'[j].pc # "idle" => worker'[j].job \in 1 .. Len(alerts')
    BY <1>10, <2>3 DEF Insert, At
  <2>. QED  BY <1>10, <2>4, <2>5, <2>6 DEF Insert
<1>11. ASSUME NEW i \in Instances, NotifyMarker(i)  PROVE TypeOK'
  BY <1>11, IdleType, PublishType DEF NotifyMarker, Idle, At
<1>12. ASSUME NEW i \in Instances, Disconnect(i)  PROVE TypeOK'
  <2>1. ASSUME NEW n \in 0 .. Len(queue[i])  PROVE SubSeq(queue[i], 1, n) \in Seq(1 .. Len(alerts))
    BY <2>1
  <2>. QED  BY <1>12, <2>1 DEF Disconnect, Fault
<1>13. ASSUME NEW i \in Instances, Listen(i)  PROVE TypeOK'
  BY <1>13 DEF Listen
<1>14. ASSUME NEW i \in Instances, Crash(i)  PROVE TypeOK'
  BY <1>14, IdleType DEF Crash, Fault, Idle, At
<1>15. CASE Tick
  BY <1>15 DEF Tick
<1>. QED
  BY <1>1, <1>2, <1>3, <1>4, <1>5, <1>6, <1>7, <1>8, <1>9, <1>10, <1>11, <1>12, <1>13,
     <1>14, <1>15 DEF Next, WorkerStep, WorkerFault

\* Every variable keeps its type; in particular every id that is queued, being
\* handled or about to be notified is the id of a stored alert.
THEOREM TypeCorrect == Spec => []TypeOK
BY TypeInit, TypeStep, PTL DEF Spec

(***************************************************************************)
(* Claims of one key are a cooldown apart.                                 *)
(*                                                                         *)
(* The Redis key outlives every claim made on it by the cooldown, and a    *)
(* claim is made only when the key has expired.  A claim is held by the    *)
(* worker that made it, until that worker inserts the marker or fails.     *)
(***************************************************************************)
Apart(a, b) == a + Cooldown <= b \/ b + Cooldown <= a

Holds(i) == worker[i].pc = "insert"

MarkerClaims ==
    \A m \in Markers :
        /\ alerts[m].claim + Cooldown <= expires[EscalatedKey(m)]
        /\ \A n \in Markers :
               m # n /\ EscalatedKey(m) = EscalatedKey(n) => Apart(alerts[m].claim, alerts[n].claim)

HeldClaims ==
    \A i \in Instances : Holds(i) =>
        /\ worker[i].claim + Cooldown <= expires[JobKey(i)]
        /\ \A m \in Markers :
               EscalatedKey(m) = JobKey(i) => Apart(alerts[m].claim, worker[i].claim)
        /\ \A j \in Instances \ {i} :
               Holds(j) /\ JobKey(j) = JobKey(i) => Apart(worker[j].claim, worker[i].claim)

SpacedInv == MarkerClaims /\ HeldClaims

LEMMA KeyTypes ==
    ASSUME TypeOK
    PROVE  /\ \A n \in 1 .. Len(alerts) :
                  KeyOf(n) \in Keys /\ EscalatedKey(n) \in Keys /\ alerts[n].claim \in Nat
           /\ \A i \in Instances :
                  worker[i].claim \in Nat /\ (worker[i].pc # "idle" => JobKey(i) \in Keys)
<1>1. \A n \in 1 .. Len(alerts) : alerts[n] \in Alert
  BY DEF TypeOK
<1>2. \A i \in Instances : worker[i] \in Worker
  BY DEF TypeOK
<1>. QED  BY <1>1, <1>2 DEF TypeOK, Alert, Worker, KeyOf, EscalatedKey, JobKey, Keys

\* A step that inserts no row, makes no claim that is then held, and moves no
\* expiry back.
LEMMA SpacedQuiet ==
    ASSUME TypeOK, TypeOK', SpacedInv, alerts' = alerts,
           \A k \in Keys : expires[k] <= expires'[k],
           \A i \in Instances : Holds(i)' => worker'[i] = worker[i]
    PROVE  SpacedInv'
<1>1. Markers' = Markers /\ \A m \in Markers : EscalatedKey(m)' = EscalatedKey(m)
  BY DEF Markers, EscalatedKey
<1>2. \A m \in Markers : m \in 1 .. Len(alerts)
  BY DEF Markers
<1>3. \A k \in Keys : expires[k] \in Nat /\ expires'[k] \in Nat
  BY DEF TypeOK
<1>4. MarkerClaims'
  BY <1>1, <1>2, <1>3, KeyTypes, DurationAssumption DEF SpacedInv, MarkerClaims
<1>5. ASSUME NEW i \in Instances, Holds(i)'
      PROVE  Holds(i) /\ worker'[i] = worker[i] /\ JobKey(i)' = JobKey(i) /\ JobKey(i) \in Keys
  BY <1>5, KeyTypes DEF Holds, JobKey, KeyOf
<1>6. HeldClaims'
  BY <1>1, <1>2, <1>3, <1>5, KeyTypes, DurationAssumption DEF SpacedInv, HeldClaims
<1>. QED  BY <1>4, <1>6 DEF SpacedInv

LEMMA SpacedClaim ==
    ASSUME TypeOK, TypeOK', SpacedInv, NEW i \in Instances, Claim(i)
    PROVE  SpacedInv'
<1>. DEFINE k == JobKey(i)
<1>1. /\ alerts' = alerts /\ k \in Keys /\ now \in Nat /\ expires[k] \in Nat /\ expires[k] <= now
      /\ expires' = [expires EXCEPT ![k] = now + Cooldown]
  BY KeyTypes DEF Claim, TypeOK
<1>2. /\ worker'[i].claim = now /\ worker'[i].job = worker[i].job
      /\ \A j \in Instances \ {i} : worker'[j] = worker[j]
  BY DEF Claim, TypeOK, Worker
<1>3. \A key \in Keys : expires[key] \in Nat /\ expires'[key] \in Nat /\ expires[key] <= expires'[key]
  BY <1>1, DurationAssumption DEF TypeOK
<1>4. Markers' = Markers /\ \A m \in Markers : EscalatedKey(m)' = EscalatedKey(m)
  BY <1>1 DEF Markers, EscalatedKey
<1>5. \A m \in Markers : EscalatedKey(m) \in Keys /\ alerts[m].claim \in Nat
  BY KeyTypes DEF Markers
<1>6. MarkerClaims'
  BY <1>1, <1>3, <1>4, <1>5, DurationAssumption DEF SpacedInv, MarkerClaims
<1>7. \A j \in Instances : JobKey(j)' = JobKey(j)
  BY <1>1, <1>2 DEF JobKey, KeyOf
<1>8. \A j \in Instances \ {i} : Holds(j)' => Holds(j) /\ JobKey(j) \in Keys /\ worker[j].claim \in Nat
  BY <1>2, KeyTypes DEF Holds
<1>9. expires'[k] = now + Cooldown
  BY <1>1 DEF TypeOK
\* Every earlier claim of this key ran out before now.
<1>10. /\ \A m \in Markers : EscalatedKey(m) = k => alerts[m].claim + Cooldown <= now
       /\ \A j \in Instances \ {i} : Holds(j)' /\ JobKey(j) = k => worker[j].claim + Cooldown <= now
  BY <1>1, <1>5, <1>8, DurationAssumption DEF SpacedInv, MarkerClaims, HeldClaims
<1>. HIDE DEF k
<1>11. ASSUME NEW j \in Instances, Holds(j)'
       PROVE  /\ worker'[j].claim + Cooldown <= expires'[JobKey(j)]
              /\ \A m \in Markers :
                     EscalatedKey(m) = JobKey(j) => Apart(alerts[m].claim, worker'[j].claim)
              /\ \A l \in Instances \ {j} :
                     Holds(l)' /\ JobKey(l) = JobKey(j) => Apart(worker'[l].claim, worker'[j].claim)
  <2>1. CASE j = i
    BY <1>1, <1>2, <1>9, <1>10, <2>1, DurationAssumption DEF Apart, k
  <2>2. CASE j # i
    <3>1. Holds(j) /\ worker'[j] = worker[j] /\ JobKey(j) \in Keys /\ worker[j].claim \in Nat
      BY <1>2, <1>8, <1>11, <2>2
    <3>2. worker[j].claim + Cooldown <= expires'[JobKey(j)]
      BY <1>3, <3>1, DurationAssumption DEF SpacedInv, HeldClaims
    <3>3. \A l \in Instances \ {j, i} :
            Holds(l)' /\ JobKey(l) = JobKey(j) => Apart(worker'[l].claim, worker'[j].claim)
      BY <1>2, <1>8, <3>1 DEF SpacedInv, HeldClaims
    <3>4. JobKey(i) = JobKey(j) => Apart(worker'[i].claim, worker'[j].claim)
      BY <1>2, <1>10, <1>11, <2>2, <3>1 DEF Apart, k
    <3>5. \A m \in Markers : EscalatedKey(m) = JobKey(j) => Apart(alerts[m].claim, worker'[j].claim)
      BY <3>1 DEF SpacedInv, HeldClaims
    <3>. QED  BY <3>1, <3>2, <3>3, <3>4, <3>5
  <2>. QED  BY <2>1, <2>2
<1>12. HeldClaims'
  BY <1>1, <1>4, <1>7, <1>11 DEF HeldClaims, Apart
<1>. QED  BY <1>6, <1>12 DEF SpacedInv

\* A row is added: a device's, which is no marker, or the marker of the claim
\* that instance i held.
LEMMA SpacedRow ==
    ASSUME TypeOK, TypeOK', SpacedInv, NEW r \in Alert, alerts' = Append(alerts, r),
           expires' = expires,
           \A j \in Instances : Holds(j)' => worker'[j] = worker[j],
           \/ r.sources = {}
           \/ \E i \in Instances :
                 /\ Holds(i) /\ ~Holds(i)'
                 /\ <<r.device, r.of>> = JobKey(i) /\ r.claim = worker[i].claim
    PROVE  SpacedInv'
<1>0. PICK new \in Nat : new = Len(alerts) + 1
  BY AppendRow DEF TypeOK
<1>1. /\ Len(alerts) \in Nat /\ Len(alerts') = new /\ alerts'[new] = r
      /\ \A n \in 1 .. Len(alerts) : alerts'[n] = alerts[n]
  BY <1>0, AppendRow DEF TypeOK
<1>2. \A n \in 1 .. Len(alerts) : /\ n \in Markers' <=> n \in Markers
                                  /\ EscalatedKey(n)' = EscalatedKey(n)
                                  /\ KeyOf(n)' = KeyOf(n)
  BY <1>1 DEF Markers, EscalatedKey, KeyOf
<1>3. /\ Markers \subseteq 1 .. Len(alerts)
      /\ \A n \in Markers' : n \in Markers \/ n = new
  BY <1>0, <1>1, <1>2 DEF Markers
<1>4. \A m \in Markers : alerts'[m].claim = alerts[m].claim /\ alerts[m].claim \in Nat
                         /\ EscalatedKey(m) \in Keys
  BY <1>1, <1>3, KeyTypes
<1>5. \A j \in Instances : Holds(j)' =>
         /\ Holds(j) /\ worker'[j] = worker[j] /\ JobKey(j)' = JobKey(j)
         /\ JobKey(j) \in Keys /\ worker[j].claim \in Nat
  <2>. SUFFICES ASSUME NEW j \in Instances, Holds(j)'
                PROVE  /\ Holds(j) /\ worker'[j] = worker[j] /\ JobKey(j)' = JobKey(j)
                       /\ JobKey(j) \in Keys /\ worker[j].claim \in Nat
    OBVIOUS
  <2>1. Holds(j) /\ worker'[j] = worker[j]
    BY DEF Holds
  <2>2. worker[j].job \in 1 .. Len(alerts)
    BY <2>1 DEF TypeOK, Holds
  <2>3. JobKey(j)' = JobKey(j)
    BY <1>1, <2>1, <2>2 DEF JobKey, KeyOf
  <2>. QED  BY <2>1, <2>3, KeyTypes DEF Holds
<1>6. EscalatedKey(new)' = <<r.device, r.of>> /\ (new \in Markers' => r.sources # {})
  BY <1>1 DEF EscalatedKey, Markers
\* The new marker takes over the claim and its place among the others.
<1>7. ASSUME new \in Markers'
      PROVE  /\ alerts'[new].claim + Cooldown <= expires[EscalatedKey(new)']
             /\ \A m \in Markers :
                    EscalatedKey(m) = EscalatedKey(new)' => Apart(alerts[m].claim, alerts'[new].claim)
             /\ \A j \in Instances :
                    Holds(j)' /\ JobKey(j) = EscalatedKey(new)'
                       => Apart(alerts'[new].claim, worker[j].claim)
  <2>1. PICK i \in Instances : /\ Holds(i) /\ ~Holds(i)'
                               /\ <<r.device, r.of>> = JobKey(i) /\ r.claim = worker[i].claim
    BY <1>6, <1>7
  <2>2. alerts'[new].claim = worker[i].claim /\ EscalatedKey(new)' = JobKey(i)
    BY <1>1, <1>6, <2>1
  <2>3. \A j \in Instances : Holds(j)' => j # i
    BY <2>1
  <2>. QED  BY <1>5, <2>1, <2>2, <2>3 DEF SpacedInv, HeldClaims
<1>8. MarkerClaims'
  <2>1. ASSUME NEW m \in Markers'
        PROVE  alerts'[m].claim + Cooldown <= expires'[EscalatedKey(m)']
    BY <1>2, <1>3, <1>4, <1>7 DEF SpacedInv, MarkerClaims
  <2>2. ASSUME NEW m \in Markers', NEW n \in Markers', m # n, EscalatedKey(m)' = EscalatedKey(n)'
        PROVE  Apart(alerts'[m].claim, alerts'[n].claim)
    <3>1. CASE m \in Markers /\ n \in Markers
      BY <1>2, <1>3, <1>4, <2>2, <3>1 DEF SpacedInv, MarkerClaims
    <3>2. CASE m \in Markers /\ n = new
      BY <1>2, <1>3, <1>4, <1>7, <2>2, <3>2
    <3>3. CASE m = new /\ n \in Markers
      BY <1>2, <1>3, <1>4, <1>7, <2>2, <3>3 DEF Apart
    <3>. QED  BY <1>3, <2>2, <3>1, <3>2, <3>3
  <2>. QED  BY <2>1, <2>2 DEF MarkerClaims, Apart
<1>9. ASSUME NEW j \in Instances, Holds(j)'
      PROVE  /\ worker'[j].claim + Cooldown <= expires'[JobKey(j)']
             /\ \A m \in Markers' :
                    EscalatedKey(m)' = JobKey(j)' => Apart(alerts'[m].claim, worker'[j].claim)
             /\ \A l \in Instances \ {j} :
                    Holds(l)' /\ JobKey(l)' = JobKey(j)' => Apart(worker'[l].claim, worker'[j].claim)
  <2>1. /\ Holds(j) /\ worker'[j] = worker[j] /\ JobKey(j)' = JobKey(j)
    BY <1>5, <1>9
  <2>2. worker'[j].claim + Cooldown <= expires'[JobKey(j)']
    BY <2>1 DEF SpacedInv, HeldClaims
  <2>3. ASSUME NEW m \in Markers', EscalatedKey(m)' = JobKey(j)'
        PROVE  Apart(alerts'[m].claim, worker'[j].claim)
    <3>1. CASE m \in Markers
      BY <1>2, <1>3, <1>4, <2>1, <2>3, <3>1 DEF SpacedInv, HeldClaims
    <3>2. CASE m = new
      BY <1>7, <1>9, <2>1, <2>3, <3>2
    <3>. QED  BY <1>3, <3>1, <3>2
  <2>4. ASSUME NEW l \in Instances \ {j}, Holds(l)', JobKey(l)' = JobKey(j)'
        PROVE  Apart(worker'[l].claim, worker'[j].claim)
    BY <1>5, <2>1, <2>4 DEF SpacedInv, HeldClaims
  <2>. QED  BY <2>2, <2>3, <2>4
<1>10. HeldClaims'
  BY <1>9 DEF HeldClaims, Apart
<1>. QED  BY <1>8, <1>10 DEF SpacedInv

LEMMA SpacedStep == TypeOK /\ TypeOK' /\ SpacedInv /\ [Next]_vars => SpacedInv'
<1>. SUFFICES ASSUME TypeOK, TypeOK', SpacedInv, [Next]_vars  PROVE SpacedInv'
  OBVIOUS
<1>. DEFINE Quiet == /\ alerts' = alerts
                     /\ \A k \in Keys : expires[k] <= expires'[k]
                     /\ \A i \in Instances : Holds(i)' => worker'[i] = worker[i]
<1>1. Quiet => SpacedInv'
  BY SpacedQuiet
<1>2. ASSUME expires' = expires  PROVE \A k \in Keys : expires[k] <= expires'[k]
  BY <1>2 DEF TypeOK
<1>3. CASE UNCHANGED vars
  BY <1>1, <1>2, <1>3 DEF vars
<1>4. ASSUME NEW dev \in Devices, NEW type \in Types, NEW at \in 0 .. MaxTime + Skew,
             Ingest(dev, type, at)
      PROVE  SpacedInv'
  <2>1. [device |-> dev, type |-> type, at |-> at, received |-> now,
         of |-> type, sources |-> {}, scan |-> 0, claim |-> 0] \in Alert
    BY BoundAssumption DEF TypeOK, Alert, AllTypes
  <2>. QED  BY <1>4, <2>1, SpacedRow DEF Ingest
<1>5. ASSUME NEW n \in unnotified, NotifyIngested(n) \/ LoseNotification(n)  PROVE SpacedInv'
  BY <1>1, <1>2, <1>5 DEF NotifyIngested, LoseNotification
<1>6. ASSUME NEW i \in Instances,
             \/ Ignore(i) \/ LookupFails(i) \/ Take(i) \/ ScanBelow(i) \/ ClaimRefused(i)
             \/ NotifyMarker(i) \/ CallFails(i) \/ Disconnect(i) \/ Listen(i) \/ Crash(i)
      PROVE  SpacedInv'
  <2>1. alerts' = alerts /\ expires' = expires
    BY <1>6 DEF Ignore, LookupFails, Take, ScanBelow, ClaimRefused, NotifyMarker,
                CallFails, Disconnect, Listen, Crash
  <2>2. \/ worker' = worker
        \/ worker' = [worker EXCEPT ![i] = Idle]
        \/ worker' = [worker EXCEPT ![i] = At("scan", Head(queue[i]), now)]
    BY <1>6 DEF Ignore, LookupFails, Take, ScanBelow, ClaimRefused, NotifyMarker,
                CallFails, Disconnect, Listen, Crash
  <2>3. \A j \in Instances : Holds(j)' => worker'[j] = worker[j]
    BY <2>2 DEF Holds, TypeOK, Idle, At
  <2>. QED  BY <1>1, <1>2, <2>1, <2>3
<1>7. ASSUME NEW i \in Instances, ScanBurst(i)  PROVE SpacedInv'
  <2>1. /\ worker'[i].pc = "claim"
        /\ \A j \in Instances \ {i} : worker'[j] = worker[j]
    BY <1>7 DEF ScanBurst, TypeOK, Worker
  <2>. QED  BY <1>1, <1>2, <1>7, <2>1 DEF ScanBurst, Holds
<1>8. ASSUME NEW i \in Instances, ClaimReplyLost(i)  PROVE SpacedInv'
  <2>1. /\ now \in Nat /\ JobKey(i) \in Keys /\ expires[JobKey(i)] <= now
        /\ expires' = [expires EXCEPT ![JobKey(i)] = now + Cooldown]
    BY <1>8, KeyTypes DEF ClaimReplyLost, TypeOK
  <2>2. \A k \in Keys : expires[k] <= expires'[k]
    BY <2>1, DurationAssumption DEF TypeOK
  <2>3. /\ worker'[i].pc = "idle"
        /\ \A j \in Instances \ {i} : worker'[j] = worker[j]
    BY <1>8 DEF ClaimReplyLost, TypeOK, Idle, At
  <2>. QED  BY <1>1, <1>8, <2>2, <2>3 DEF ClaimReplyLost, Holds
<1>9. ASSUME NEW i \in Instances, Claim(i)  PROVE SpacedInv'
  BY <1>9, SpacedClaim
<1>10. ASSUME NEW i \in Instances, Insert(i)  PROVE SpacedInv'
  <2>1. PICK r \in Alert : /\ alerts' = Append(alerts, r)
                           /\ <<r.device, r.of>> = JobKey(i) /\ r.claim = worker[i].claim
    BY <1>10, InsertRow
  <2>2. expires' = expires
    BY <1>10 DEF Insert
  <2>3. /\ Holds(i) /\ worker'[i].pc = "notify"
        /\ \A j \in Instances \ {i} : worker'[j] = worker[j]
    BY <1>10 DEF Insert, Holds, At, TypeOK
  <2>4. ~Holds(i)' /\ \A j \in Instances : Holds(j)' => worker'[j] = worker[j]
    BY <2>3 DEF Holds
  <2>. QED  BY <2>1, <2>2, <2>3, <2>4, SpacedRow
<1>11. CASE Tick
  BY <1>1, <1>2, <1>11 DEF Tick
<1>. QED
  BY <1>3, <1>4, <1>5, <1>6, <1>7, <1>8, <1>9, <1>10, <1>11
  DEF Next, WorkerStep, WorkerFault

\* Whatever instances handle a burst, and whatever fails or crashes on the way,
\* the escalations of one device and type come from claims a cooldown apart.
THEOREM EscalationsAreSpaced == Spec => []EscalationsSpaced
<1>1. Init => SpacedInv
  BY DEF Init, SpacedInv, MarkerClaims, HeldClaims, Markers, Holds, Idle, At
<1>2. SpacedInv => EscalationsSpaced
  BY DEF SpacedInv, MarkerClaims, EscalationsSpaced, Apart
<1>. QED  BY <1>1, <1>2, TypeCorrect, SpacedStep, PTL DEF Spec

(***************************************************************************)
(* The evidence of an escalation.                                          *)
(*                                                                         *)
(* What a worker has scanned stays true evidence until it is written into  *)
(* the marker: rows are never changed, so a step that fails or a clock     *)
(* that moves cannot make it wrong.                                        *)
(***************************************************************************)
\* The alerts src are a burst of key, scanned for at time t.
Evidence(src, key, t) ==
    /\ Cardinality(src) >= Threshold
    /\ \A n \in src : /\ n \in 1 .. Len(alerts)
                      /\ KeyOf(n) = key
                      /\ ~IsMarker(n)
                      /\ t <= alerts[n].at + Window

WorkerEvidence ==
    \A i \in Instances :
        /\ worker[i].pc \in {"scan", "claim", "insert"} =>
               ~IsMarker(worker[i].job) /\ worker[i].scan <= now
        /\ worker[i].pc \in {"claim", "insert"} =>
               Evidence(worker[i].sources, JobKey(i), worker[i].scan)
        /\ worker[i].pc = "insert" => /\ worker[i].scan <= worker[i].claim
                                      /\ worker[i].claim <= now

EvidenceInv ==
    /\ \A n \in 1 .. Len(alerts) : alerts[n].received <= now
    /\ WorkerEvidence
    /\ BurstEvidence

\* Evidence survives every step, since rows are only added.
LEMMA EvidenceStays ==
    ASSUME TypeOK, NEW src, NEW key, NEW t,
           alerts' = alerts \/ \E r \in Alert : alerts' = Append(alerts, r),
           Evidence(src, key, t)
    PROVE  Evidence(src, key, t)'
<1>1. /\ Len(alerts) \in Nat /\ Len(alerts') \in Nat /\ Len(alerts) <= Len(alerts')
      /\ \A n \in 1 .. Len(alerts) : alerts'[n] = alerts[n]
  <2>1. alerts \in Seq(Alert) /\ Len(alerts) \in Nat
    BY DEF TypeOK
  <2>2. CASE alerts' = alerts
    BY <2>1, <2>2
  <2>3. CASE \E r \in Alert : alerts' = Append(alerts, r)
    BY <2>1, <2>3, AppendRow
  <2>. QED  BY <2>2, <2>3
<1>. QED  BY <1>1 DEF Evidence, KeyOf, IsMarker

\* A step that adds no row and gives no worker anything but a job.
LEMMA EvidenceQuiet ==
    ASSUME TypeOK, TypeOK', EvidenceInv, alerts' = alerts, now <= now',
           \A i \in Instances :
               \/ worker'[i] = worker[i]
               \/ worker'[i].pc \in {"idle", "notify"}
               \/ /\ worker'[i].pc = "scan" /\ worker'[i].scan <= now'
                  /\ ~IsMarker(worker'[i].job)
    PROVE  EvidenceInv'
<1>1. \A n \in 1 .. Len(alerts) : alerts[n].received \in Nat
  <2>1. \A n \in 1 .. Len(alerts) : alerts[n] \in Alert
    BY DEF TypeOK
  <2>. QED  BY <2>1 DEF Alert
<1>2. \A n \in 1 .. Len(alerts') : alerts'[n].received <= now'
  BY <1>1 DEF TypeOK, EvidenceInv
<1>3. ASSUME NEW i \in Instances
      PROVE  /\ worker'[i].pc \in {"scan", "claim", "insert"} =>
                    ~IsMarker(worker[i].job)' /\ worker'[i].scan <= now'
             /\ worker'[i].pc \in {"claim", "insert"} =>
                    Evidence(worker[i].sources, JobKey(i), worker[i].scan)'
             /\ worker'[i].pc = "insert" => /\ worker'[i].scan <= worker'[i].claim
                                            /\ worker'[i].claim <= now'
  <2>1. CASE worker'[i] = worker[i]
    <3>1. worker[i].scan \in Nat /\ worker[i].claim \in Nat /\ now \in Nat /\ now' \in Nat
      BY DEF TypeOK, Worker
    <3>. QED  BY <2>1, <3>1 DEF EvidenceInv, WorkerEvidence, Evidence, JobKey, KeyOf, IsMarker
  <2>2. CASE worker'[i].pc \in {"idle", "notify"}
    BY <2>2
  <2>3. CASE worker'[i].pc = "scan" /\ worker'[i].scan <= now' /\ ~IsMarker(worker'[i].job)
    BY <2>3 DEF IsMarker
  <2>. QED  BY <2>1, <2>2, <2>3
<1>4. BurstEvidence'
  BY DEF EvidenceInv, BurstEvidence, Markers, IsMarker, KeyOf, EscalatedKey
<1>. QED  BY <1>2, <1>3, <1>4 DEF EvidenceInv, WorkerEvidence

\* A row is added: a device's, or a marker that states what its worker scanned.
LEMMA EvidenceRow ==
    ASSUME TypeOK, TypeOK', EvidenceInv, NEW r \in Alert, alerts' = Append(alerts, r),
           r.received = now, now' = now,
           \A i \in Instances :
               worker'[i] = worker[i] \/ worker'[i].pc = "notify",
           \/ r.sources = {}
           \/ /\ r.type = Marker
              /\ Evidence(r.sources, <<r.device, r.of>>, r.scan)
              /\ r.scan <= r.claim /\ r.claim <= r.at
    PROVE  EvidenceInv'
<1>0. PICK new \in Nat : new = Len(alerts) + 1
  BY AppendRow DEF TypeOK
<1>1. /\ Len(alerts) \in Nat /\ Len(alerts') = new /\ alerts'[new] = r
      /\ \A n \in 1 .. Len(alerts) : alerts'[n] = alerts[n]
      /\ \A n \in 1 .. Len(alerts') : n \in 1 .. Len(alerts) \/ n = new
  BY <1>0, AppendRow DEF TypeOK
<1>2. now \in Nat /\ \A n \in 1 .. Len(alerts') : alerts'[n].received <= now'
  BY <1>1 DEF TypeOK, EvidenceInv
<1>3. ASSUME NEW i \in Instances, worker'[i].pc \in {"scan", "claim", "insert"}
      PROVE  /\ worker'[i] = worker[i] /\ worker[i].job \in 1 .. Len(alerts)
             /\ ~IsMarker(worker[i].job)' /\ JobKey(i)' = JobKey(i)
  <2>1. worker'[i] = worker[i]
    BY <1>3
  <2>2. worker[i].job \in 1 .. Len(alerts)
    BY <1>3, <2>1 DEF TypeOK
  <2>. QED  BY <1>1, <1>3, <2>1, <2>2 DEF EvidenceInv, WorkerEvidence, IsMarker, JobKey, KeyOf
<1>4. ASSUME NEW i \in Instances, worker'[i].pc \in {"claim", "insert"}
      PROVE  Evidence(worker[i].sources, JobKey(i), worker[i].scan)'
  <2>1. worker'[i] = worker[i] /\ JobKey(i)' = JobKey(i)
    BY <1>3, <1>4
  <2>2. PICK src, key, t : src = worker[i].sources /\ key = JobKey(i) /\ t = worker[i].scan
    OBVIOUS
  <2>3. Evidence(src, key, t)
    BY <1>4, <2>1, <2>2 DEF EvidenceInv, WorkerEvidence
  <2>4. Evidence(src, key, t)'
    BY <2>3, EvidenceStays
  <2>5. worker'[i].sources = src /\ JobKey(i)' = key /\ worker'[i].scan = t
    BY <2>1, <2>2
  <2>. QED  BY <2>4, <2>5 DEF Evidence
<1>5. WorkerEvidence'
  BY <1>3, <1>4 DEF EvidenceInv, WorkerEvidence
\* The old markers keep their rows, and the new one names older rows only.
<1>6. \A n \in 1 .. Len(alerts) : /\ n \in Markers' <=> n \in Markers
                                  /\ IsMarker(n)' <=> IsMarker(n)
                                  /\ KeyOf(n)' = KeyOf(n)
                                  /\ EscalatedKey(n)' = EscalatedKey(n)
  BY <1>1 DEF Markers, IsMarker, KeyOf, EscalatedKey
<1>. DEFINE Shown(m) ==
       /\ IsMarker(m)
       /\ Cardinality(alerts[m].sources) >= Threshold
       /\ \A n \in alerts[m].sources :
              /\ n \in 1 .. m - 1
              /\ KeyOf(n) = EscalatedKey(m)
              /\ ~IsMarker(n)
              /\ alerts[m].scan <= alerts[n].at + Window
       /\ alerts[m].scan <= alerts[m].claim
       /\ alerts[m].claim <= alerts[m].at
<1>7. ASSUME NEW m \in Markers', m \in 1 .. Len(alerts)  PROVE Shown(m)'
  <2>1. m \in Markers
    BY <1>6, <1>7
  <2>2. Shown(m)
    BY <2>1 DEF EvidenceInv, BurstEvidence
  <2>3. alerts'[m] = alerts[m] /\ \A n \in 1 .. m - 1 : n \in 1 .. Len(alerts)
    BY <1>1, <1>7
  <2>. QED  BY <1>1, <1>6, <1>7, <2>2, <2>3
<1>8. ASSUME new \in Markers'  PROVE Shown(new)'
  <2>1. r.sources # {}
    BY <1>1, <1>8 DEF Markers
  <2>2. /\ IsMarker(new)' /\ EscalatedKey(new)' = <<r.device, r.of>>
    BY <1>1, <2>1 DEF IsMarker, EscalatedKey
  <2>3. \A n \in r.sources : /\ n \in 1 .. Len(alerts) /\ KeyOf(n) = <<r.device, r.of>>
                             /\ ~IsMarker(n)
                             /\ r.scan <= alerts[n].at + Window
    BY <2>1 DEF Evidence
  <2>4. 1 .. Len(alerts) = 1 .. new - 1
    BY <1>0, <1>1
  <2>. QED  BY <1>1, <1>6, <2>1, <2>2, <2>3, <2>4 DEF Evidence
<1>9. BurstEvidence'
  <2>1. \A m \in Markers' : m \in 1 .. Len(alerts) \/ m = new
    BY <1>1 DEF Markers
  <2>2. ASSUME NEW m \in Markers'  PROVE Shown(m)'
    BY <1>7, <1>8, <2>1, <2>2
  <2>. QED  BY <2>2 DEF BurstEvidence
<1>. QED  BY <1>2, <1>5, <1>9 DEF EvidenceInv

\* A worker that finds a burst, or claims the key of the one it has found.
LEMMA EvidenceWorker ==
    ASSUME TypeOK, TypeOK', EvidenceInv, NEW i \in Instances, ScanBurst(i) \/ Claim(i)
    PROVE  EvidenceInv'
<1>1. /\ alerts' = alerts /\ now' = now /\ now \in Nat
      /\ \A j \in Instances \ {i} : worker'[j] = worker[j]
      /\ worker'[i].job = worker[i].job
  BY DEF ScanBurst, Claim, TypeOK, Worker
<1>2. \A j \in Instances : JobKey(j)' = JobKey(j)
  BY <1>1 DEF JobKey, KeyOf
<1>3. ASSUME NEW j \in Instances \ {i}
      PROVE  /\ worker'[j].pc \in {"scan", "claim", "insert"} =>
                    ~IsMarker(worker[j].job)' /\ worker'[j].scan <= now'
             /\ worker'[j].pc \in {"claim", "insert"} =>
                    Evidence(worker[j].sources, JobKey(j), worker[j].scan)'
             /\ worker'[j].pc = "insert" => /\ worker'[j].scan <= worker'[j].claim
                                            /\ worker'[j].claim <= now'
  BY <1>1, <1>2 DEF EvidenceInv, WorkerEvidence, Evidence, IsMarker, KeyOf
<1>4. worker[i].scan <= now /\ ~IsMarker(worker[i].job) /\ ~IsMarker(worker[i].job)'
  <2>1. worker[i].pc \in {"scan", "claim", "insert"}
    BY DEF ScanBurst, Claim
  <2>2. ~IsMarker(worker[i].job) /\ worker[i].scan <= now
    BY <2>1 DEF EvidenceInv, WorkerEvidence
  <2>. QED  BY <1>1, <2>2 DEF IsMarker
<1>5. CASE ScanBurst(i)
  <2>1. /\ worker'[i].pc = "claim" /\ worker'[i].scan = worker[i].scan
        /\ worker'[i].sources = Burst(i) /\ Cardinality(Burst(i)) >= Threshold
    BY <1>5 DEF ScanBurst, TypeOK, Worker
  <2>2. KeyOf(worker[i].job) = JobKey(i)
    BY DEF JobKey
  <2>3. \A n \in Burst(i) :
          /\ n \in 1 .. Len(alerts) /\ KeyOf(n) = JobKey(i) /\ ~IsMarker(n)
          /\ worker[i].scan <= alerts[n].at + Window
    <3>1. ASSUME NEW n \in Burst(i)
          PROVE  /\ n \in 1 .. Len(alerts) /\ KeyOf(n) = JobKey(i)
                 /\ alerts[n].at + Window >= worker[i].scan /\ alerts[n] \in Alert
      BY DEF Burst, WindowSources, TypeOK
    <3>2. worker[i].scan \in Nat
      BY DEF TypeOK, Worker
    <3>. QED  BY <1>4, <2>2, <3>1, <3>2, DurationAssumption DEF IsMarker, KeyOf, Alert
  <2>4. Evidence(worker[i].sources, JobKey(i), worker[i].scan)'
    BY <1>1, <1>2, <2>1, <2>3 DEF Evidence, KeyOf, IsMarker
  <2>5. WorkerEvidence'
    BY <1>1, <1>3, <1>4, <2>1, <2>4 DEF WorkerEvidence
  <2>6. BurstEvidence'
    BY <1>1 DEF EvidenceInv, BurstEvidence, Markers, IsMarker, KeyOf, EscalatedKey
  <2>. QED  BY <1>1, <2>5, <2>6 DEF EvidenceInv
<1>6. CASE Claim(i)
  <2>1. /\ worker[i].pc = "claim" /\ worker'[i].pc = "insert" /\ worker'[i].claim = now
        /\ worker'[i].scan = worker[i].scan /\ worker'[i].sources = worker[i].sources
    BY <1>6 DEF Claim, TypeOK, Worker
  <2>2. Evidence(worker[i].sources, JobKey(i), worker[i].scan) /\ worker[i].scan <= now
    BY <2>1 DEF EvidenceInv, WorkerEvidence
  <2>3. Evidence(worker[i].sources, JobKey(i), worker[i].scan)'
    BY <1>1, <1>2, <2>1, <2>2 DEF Evidence, KeyOf, IsMarker
  <2>4. WorkerEvidence'
    BY <1>1, <1>3, <1>4, <2>1, <2>2, <2>3 DEF WorkerEvidence
  <2>5. BurstEvidence'
    BY <1>1 DEF EvidenceInv, BurstEvidence, Markers, IsMarker, KeyOf, EscalatedKey
  <2>. QED  BY <1>1, <2>4, <2>5 DEF EvidenceInv
<1>. QED  BY <1>5, <1>6

LEMMA EvidenceStep == TypeOK /\ TypeOK' /\ EvidenceInv /\ [Next]_vars => EvidenceInv'
<1>. SUFFICES ASSUME TypeOK, TypeOK', EvidenceInv, [Next]_vars  PROVE EvidenceInv'
  OBVIOUS
<1>1. now \in Nat
  BY DEF TypeOK
<1>2. CASE UNCHANGED vars
  BY <1>1, <1>2, EvidenceQuiet DEF vars
<1>3. ASSUME NEW dev \in Devices, NEW type \in Types, NEW at \in 0 .. MaxTime + Skew,
             Ingest(dev, type, at)
      PROVE  EvidenceInv'
  <2>1. [device |-> dev, type |-> type, at |-> at, received |-> now,
         of |-> type, sources |-> {}, scan |-> 0, claim |-> 0] \in Alert
    BY <1>1, BoundAssumption DEF Alert, AllTypes
  <2>. QED  BY <1>3, <2>1, EvidenceRow DEF Ingest
<1>4. ASSUME NEW n \in unnotified, NotifyIngested(n) \/ LoseNotification(n)
      PROVE  EvidenceInv'
  BY <1>1, <1>4, EvidenceQuiet DEF NotifyIngested, LoseNotification
<1>5. ASSUME NEW i \in Instances,
             \/ Ignore(i) \/ LookupFails(i) \/ ScanBelow(i) \/ ClaimRefused(i)
             \/ ClaimReplyLost(i) \/ NotifyMarker(i) \/ CallFails(i)
             \/ Disconnect(i) \/ Listen(i) \/ Crash(i)
      PROVE  EvidenceInv'
  <2>1. alerts' = alerts /\ now' = now
    BY <1>5 DEF Ignore, LookupFails, ScanBelow, ClaimRefused, ClaimReplyLost, NotifyMarker,
                CallFails, Disconnect, Listen, Crash
  <2>2. worker' = worker \/ worker' = [worker EXCEPT ![i] = Idle]
    BY <1>5 DEF Ignore, LookupFails, ScanBelow, ClaimRefused, ClaimReplyLost, NotifyMarker,
                CallFails, Disconnect, Listen, Crash
  <2>3. \A j \in Instances : worker'[j] = worker[j] \/ worker'[j].pc = "idle"
    BY <2>2 DEF TypeOK, Idle, At
  <2>. QED  BY <1>1, <2>1, <2>3, EvidenceQuiet
<1>6. ASSUME NEW i \in Instances, Take(i)  PROVE EvidenceInv'
  <2>1. /\ alerts' = alerts /\ now' = now
        /\ worker'[i] = At("scan", Head(queue[i]), now) /\ ~IsMarker(Head(queue[i]))
        /\ \A j \in Instances \ {i} : worker'[j] = worker[j]
    BY <1>6 DEF Take, TypeOK
  <2>. QED  BY <1>1, <2>1, EvidenceQuiet DEF At
<1>7. ASSUME NEW i \in Instances, Insert(i)  PROVE EvidenceInv'
  <2>1. PICK r \in Alert :
          /\ alerts' = Append(alerts, r)
          /\ r.type = Marker /\ r.received = now
          /\ <<r.device, r.of>> = JobKey(i) /\ r.sources = worker[i].sources
          /\ r.scan = worker[i].scan /\ r.claim = worker[i].claim /\ r.claim <= r.at
    BY <1>7, InsertRow
  <2>2. worker[i].pc = "insert" /\ now' = now
    BY <1>7 DEF Insert
  <2>3. Evidence(r.sources, <<r.device, r.of>>, r.scan) /\ r.scan <= r.claim
    BY <2>1, <2>2 DEF EvidenceInv, WorkerEvidence
  <2>4. \A j \in Instances : worker'[j] = worker[j] \/ worker'[j].pc = "notify"
    BY <1>7 DEF Insert, At, TypeOK
  <2>. QED  BY <2>1, <2>2, <2>3, <2>4, EvidenceRow
<1>8. CASE Tick
  BY <1>1, <1>8, EvidenceQuiet DEF Tick
<1>. QED
  BY <1>2, <1>3, <1>4, <1>5, <1>6, <1>7, <1>8, EvidenceWorker DEF Next, WorkerStep, WorkerFault

\* Every escalation, whoever made it and whatever failed meanwhile, names a
\* burst of its own device and of one type, inside the window, with no marker
\* among its sources.
THEOREM EscalationsHaveEvidence == Spec => []BurstEvidence
<1>1. Init => EvidenceInv
  BY DEF Init, EvidenceInv, WorkerEvidence, BurstEvidence, Markers, Idle, At
<1>2. EvidenceInv => BurstEvidence
  BY DEF EvidenceInv
<1>. QED  BY <1>1, <1>2, TypeCorrect, EvidenceStep, PTL DEF Spec

(***************************************************************************)
(* No burst is forgotten while nothing fails.                              *)
(*                                                                         *)
(* A key whose alerts were added to at this moment is below the threshold, *)
(* or claimed, or one of its alerts is still to be scanned: that scan will *)
(* see every row there is, however the requests and workers interleave.    *)
(* And a claim leads to a marker.                                          *)
(***************************************************************************)
Small(k) == Cardinality(WindowSources(k, now)) < Threshold

Underway(k) ==
    \/ \E n \in unnotified : KeyOf(n) = k
    \/ \E i \in Instances : \E j \in 1 .. Len(queue[i]) : KeyOf(queue[i][j]) = k
    \/ \E i \in Instances : worker[i].pc \in {"scan", "claim"} /\ JobKey(i) = k

Fresh(k) == \E n \in 1 .. Len(alerts) : KeyOf(n) = k /\ alerts[n].received = now

ListensInv == faults = 0 => \A i \in Instances : listening[i]

ClaimedInv ==
    faults = 0 =>
        \A k \in Keys :
            expires[k] # 0 =>
                \/ \E m \in Markers : /\ EscalatedKey(m) = k
                                      /\ alerts[m].claim + Cooldown = expires[k]
                \/ \E i \in Instances : /\ Holds(i) /\ JobKey(i) = k
                                        /\ worker[i].claim + Cooldown = expires[k]

HeardInv ==
    Enabled /\ faults = 0 =>
        \A k \in Keys :
            k[2] # Marker /\ Fresh(k) => Small(k) \/ expires[k] > now \/ Underway(k)

CoveredInv == ListensInv /\ ClaimedInv /\ HeardInv
\* A window scanned later is no wider.
LEMMA LaterWindow ==
    ASSUME TypeOK, NEW k, NEW s \in Nat, NEW t \in Nat, s <= t
    PROVE  /\ Cardinality(WindowSources(k, t)) \in Nat /\ Cardinality(WindowSources(k, s)) \in Nat
           /\ Cardinality(WindowSources(k, t)) <= Cardinality(WindowSources(k, s))
<1>1. Len(alerts) \in Nat /\ \A n \in 1 .. Len(alerts) : alerts[n].at \in Nat
  <2>1. \A n \in 1 .. Len(alerts) : alerts[n] \in Alert
    BY DEF TypeOK
  <2>. QED  BY <2>1 DEF TypeOK, Alert
<1>2. IsFiniteSet(1 .. Len(alerts))
  BY <1>1, FS_Interval
<1>3. WindowSources(k, s) \subseteq 1 .. Len(alerts)
  BY DEF WindowSources
<1>4. WindowSources(k, t) \subseteq WindowSources(k, s)
  BY <1>1, DurationAssumption DEF WindowSources
<1>5. IsFiniteSet(WindowSources(k, s)) /\ IsFiniteSet(WindowSources(k, t))
  BY <1>2, <1>3, <1>4, FS_Subset
<1>. QED  BY <1>4, <1>5, FS_Subset, FS_CardinalityType

\* A row of another key leaves the window of this key as it was.
LEMMA OtherRow ==
    ASSUME TypeOK, NEW r \in Alert, alerts' = Append(alerts, r), now' = now,
           NEW k \in Keys, k # <<r.device, r.type>>
    PROVE  /\ WindowSources(k, now)' = WindowSources(k, now)
           /\ Fresh(k)' => Fresh(k)
<1>1. /\ Len(alerts) \in Nat /\ Len(alerts') = Len(alerts) + 1 /\ alerts'[Len(alerts) + 1] = r
      /\ \A n \in 1 .. Len(alerts) : n \in 1 .. Len(alerts') /\ alerts'[n] = alerts[n]
  BY AppendRow DEF TypeOK
<1>2. \A n \in 1 .. Len(alerts') : n \in 1 .. Len(alerts) \/ alerts'[n] = r
  BY <1>1
<1>3. \A n \in 1 .. Len(alerts') :
        <<alerts'[n].device, alerts'[n].type>> = k => n \in 1 .. Len(alerts)
  BY <1>2
<1>4. WindowSources(k, now)' = WindowSources(k, now)
  BY <1>1, <1>3 DEF WindowSources, KeyOf
<1>5. Fresh(k)' => Fresh(k)
  BY <1>1, <1>3 DEF Fresh, KeyOf
<1>. QED  BY <1>4, <1>5

\* What is queued or being handled keeps its key when a row is added.
LEMMA UnderwayRow ==
    ASSUME TypeOK, NEW r \in Alert, alerts' = Append(alerts, r), NEW k,
           unnotified \subseteq unnotified', queue' = queue,
           \A i \in Instances : worker[i].pc \in {"scan", "claim"} => worker'[i] = worker[i],
           Underway(k)
    PROVE  Underway(k)'
<1>1. \A n \in 1 .. Len(alerts) : alerts'[n] = alerts[n]
  BY AppendRow DEF TypeOK
<1>2. \A n \in 1 .. Len(alerts) : <<alerts'[n].device, alerts'[n].type>> = KeyOf(n)
  BY <1>1 DEF KeyOf
<1>3. /\ \A n \in unnotified : n \in 1 .. Len(alerts)
      /\ \A i \in Instances : \A j \in 1 .. Len(queue[i]) : queue[i][j] \in 1 .. Len(alerts)
      /\ \A i \in Instances : worker[i].pc # "idle" => worker[i].job \in 1 .. Len(alerts)
  BY DEF TypeOK
<1>4. CASE \E n \in unnotified : KeyOf(n) = k
  BY <1>2, <1>3, <1>4 DEF Underway, KeyOf
<1>5. CASE \E i \in Instances : \E j \in 1 .. Len(queue[i]) : KeyOf(queue[i][j]) = k
  BY <1>2, <1>3, <1>5 DEF Underway, KeyOf
<1>6. CASE \E i \in Instances : worker[i].pc \in {"scan", "claim"} /\ JobKey(i) = k
  BY <1>2, <1>3, <1>6 DEF Underway, JobKey, KeyOf
<1>. QED  BY <1>4, <1>5, <1>6 DEF Underway

\* A notification is queued by whoever listens, and nothing leaves a queue.
LEMMA PublishQueues ==
    ASSUME TypeOK, NEW id \in 1 .. Len(alerts), Publish(id)
    PROVE  /\ \A i \in Instances : \A j \in 1 .. Len(queue[i]) :
                  j \in 1 .. Len(queue'[i]) /\ queue'[i][j] = queue[i][j]
           /\ \A i \in Instances : listening[i] =>
                  Len(queue[i]) + 1 \in 1 .. Len(queue'[i]) /\ queue'[i][Len(queue[i]) + 1] = id
<1>1. ASSUME NEW i \in Instances
      PROVE  /\ \A j \in 1 .. Len(queue[i]) :
                    j \in 1 .. Len(queue'[i]) /\ queue'[i][j] = queue[i][j]
             /\ listening[i] =>
                    Len(queue[i]) + 1 \in 1 .. Len(queue'[i]) /\ queue'[i][Len(queue[i]) + 1] = id
  <2>1. queue[i] \in Seq(1 .. Len(alerts))
    BY DEF TypeOK
  <2>2. queue'[i] = IF listening[i] THEN Append(queue[i], id) ELSE queue[i]
    BY DEF Publish
  <2>. QED  BY <2>1, <2>2
<1>. QED  BY <1>1

\* A fault is counted.
LEMMA NoFaultYet ==
    ASSUME TypeOK, [Next]_vars, faults' = 0
    PROVE  /\ faults = 0
           /\ \A n \in unnotified : ~LoseNotification(n)
           /\ \A i \in Instances : ~WorkerFault(i)
<1>1. faults \in Nat /\ faults + 1 # 0
  BY DEF TypeOK
<1>2. \A n \in unnotified : LoseNotification(n) => faults' = faults + 1
  BY DEF LoseNotification, Fault
<1>3. \A i \in Instances : WorkerFault(i) => faults' = faults + 1
  BY DEF WorkerFault, LookupFails, CallFails, ClaimReplyLost, Disconnect, Crash, Fault
<1>4. faults' = faults \/ faults' = faults + 1
  <2>1. CASE UNCHANGED vars
    BY <2>1 DEF vars
  <2>2. ASSUME NEW dev \in Devices, NEW type \in Types, NEW at \in 0 .. MaxTime + Skew,
               Ingest(dev, type, at)
        PROVE  faults' = faults
    BY <2>2 DEF Ingest
  <2>3. ASSUME NEW n \in unnotified, NotifyIngested(n)  PROVE faults' = faults
    BY <2>3 DEF NotifyIngested
  <2>4. ASSUME NEW i \in Instances, WorkerStep(i) \/ Listen(i)  PROVE faults' = faults
    BY <2>4 DEF WorkerStep, Ignore, Take, ScanBelow, ScanBurst, Claim, ClaimRefused, Insert,
                NotifyMarker, Listen
  <2>5. CASE Tick
    BY <2>5 DEF Tick
  <2>. QED  BY <1>2, <1>3, <2>1, <2>2, <2>3, <2>4, <2>5 DEF Next
<1>. QED  BY <1>1, <1>2, <1>3, <1>4

LEMMA ListensStep == TypeOK /\ ListensInv /\ [Next]_vars => ListensInv'
<1>. SUFFICES ASSUME TypeOK, ListensInv, [Next]_vars, faults' = 0
              PROVE  \A j \in Instances : listening'[j]
  BY DEF ListensInv
<1>1. /\ faults = 0 /\ \A n \in unnotified : ~LoseNotification(n)
      /\ \A i \in Instances : ~WorkerFault(i)
  BY NoFaultYet
<1>2. \A j \in Instances : listening[j]
  BY <1>1 DEF ListensInv
<1>3. CASE listening' = listening
  BY <1>2, <1>3
<1>4. CASE UNCHANGED vars
  BY <1>3, <1>4 DEF vars
<1>5. ASSUME NEW dev \in Devices, NEW type \in Types, NEW at \in 0 .. MaxTime + Skew,
             Ingest(dev, type, at)
      PROVE  listening' = listening
  BY <1>5 DEF Ingest
<1>6. ASSUME NEW n \in unnotified, NotifyIngested(n)  PROVE listening' = listening
  BY <1>6 DEF NotifyIngested
<1>7. ASSUME NEW i \in Instances, WorkerStep(i)  PROVE listening' = listening
  BY <1>7 DEF WorkerStep, Ignore, Take, ScanBelow, ScanBurst, Claim, ClaimRefused, Insert,
              NotifyMarker
<1>8. ASSUME NEW i \in Instances  PROVE ~Listen(i)
  BY <1>2 DEF Listen
<1>9. CASE Tick
  BY <1>3, <1>9 DEF Tick
<1>. QED  BY <1>1, <1>3, <1>4, <1>5, <1>6, <1>7, <1>8, <1>9 DEF Next

\* No claim is made, no row is added, and who holds a claim still does.
LEMMA ClaimedQuiet ==
    ASSUME TypeOK, ClaimedInv, alerts' = alerts, expires' = expires, faults = 0,
           \A i \in Instances : Holds(i) => worker'[i] = worker[i]
    PROVE  ClaimedInv'
<1>1. Markers' = Markers /\ \A m \in Markers : EscalatedKey(m)' = EscalatedKey(m)
  BY DEF Markers, EscalatedKey
<1>2. \A i \in Instances : Holds(i) => Holds(i)' /\ JobKey(i)' = JobKey(i)
  BY DEF Holds, JobKey, KeyOf
<1>. QED  BY <1>1, <1>2 DEF ClaimedInv

LEMMA ClaimedClaim ==
    ASSUME TypeOK, ClaimedInv, NEW i \in Instances, Claim(i), faults = 0
    PROVE  ClaimedInv'
<1>1. /\ alerts' = alerts /\ expires' = [expires EXCEPT ![JobKey(i)] = now + Cooldown]
      /\ worker[i].pc = "claim" /\ worker'[i].pc = "insert" /\ worker'[i].claim = now
      /\ worker'[i].job = worker[i].job
      /\ \A j \in Instances \ {i} : worker'[j] = worker[j]
  BY DEF Claim, TypeOK, Worker
<1>2. Markers' = Markers /\ \A m \in Markers : EscalatedKey(m)' = EscalatedKey(m)
  BY <1>1 DEF Markers, EscalatedKey
<1>3. \A j \in Instances : JobKey(j)' = JobKey(j)
  BY <1>1 DEF JobKey, KeyOf
<1>4. \A j \in Instances : Holds(j) => Holds(j)' /\ worker'[j].claim = worker[j].claim
  BY <1>1 DEF Holds
<1>5. Holds(i)'
  BY <1>1 DEF Holds
<1>6. ASSUME NEW k \in Keys, expires'[k] # 0
      PROVE  \/ \E m \in Markers : EscalatedKey(m) = k /\ alerts[m].claim + Cooldown = expires'[k]
             \/ \E j \in Instances : /\ Holds(j)' /\ JobKey(j) = k
                                     /\ worker'[j].claim + Cooldown = expires'[k]
  <2>1. CASE k = JobKey(i)
    BY <1>1, <1>5, <2>1 DEF TypeOK
  <2>2. CASE k # JobKey(i)
    <3>1. expires'[k] = expires[k]
      BY <1>1, <2>2 DEF TypeOK
    <3>. QED  BY <1>4, <1>6, <3>1 DEF ClaimedInv
  <2>. QED  BY <2>1, <2>2
<1>. QED  BY <1>1, <1>2, <1>3, <1>6 DEF ClaimedInv

\* A row is added: the claim that worker i held is now its marker's.
LEMMA ClaimedRow ==
    ASSUME TypeOK, ClaimedInv, NEW r \in Alert, alerts' = Append(alerts, r),
           expires' = expires, faults = 0,
           \A i \in Instances : Holds(i) =>
               \/ worker'[i] = worker[i]
               \/ /\ r.sources # {} /\ <<r.device, r.of>> = JobKey(i)
                  /\ r.claim = worker[i].claim
    PROVE  ClaimedInv'
<1>0. PICK new \in Nat : new = Len(alerts) + 1
  BY AppendRow DEF TypeOK
<1>1. /\ Len(alerts) \in Nat /\ Len(alerts') = new /\ alerts'[new] = r /\ new \in 1 .. Len(alerts')
      /\ \A n \in 1 .. Len(alerts) : n \in 1 .. Len(alerts') /\ alerts'[n] = alerts[n]
  BY <1>0, AppendRow DEF TypeOK
<1>2. \A m \in Markers : m \in Markers' /\ EscalatedKey(m)' = EscalatedKey(m)
                         /\ alerts'[m].claim = alerts[m].claim
  BY <1>1 DEF Markers, EscalatedKey
<1>3. r.sources # {} => new \in Markers' /\ EscalatedKey(new)' = <<r.device, r.of>>
  BY <1>1 DEF Markers, EscalatedKey
<1>4. ASSUME NEW i \in Instances, Holds(i), worker'[i] = worker[i]
      PROVE  Holds(i)' /\ JobKey(i)' = JobKey(i)
  <2>1. worker[i].job \in 1 .. Len(alerts)
    BY <1>4 DEF Holds, TypeOK
  <2>. QED  BY <1>1, <1>4, <2>1 DEF Holds, JobKey, KeyOf
<1>5. ASSUME NEW k \in Keys, expires[k] # 0
      PROVE  \/ \E m \in Markers' : /\ EscalatedKey(m)' = k
                                    /\ alerts'[m].claim + Cooldown = expires[k]
             \/ \E i \in Instances : /\ Holds(i)' /\ JobKey(i)' = k
                                     /\ worker'[i].claim + Cooldown = expires[k]
  <2>1. CASE \E m \in Markers : EscalatedKey(m) = k /\ alerts[m].claim + Cooldown = expires[k]
    BY <1>2, <2>1
  <2>2. ASSUME NEW i \in Instances, Holds(i), JobKey(i) = k,
               worker[i].claim + Cooldown = expires[k]
        PROVE  \/ \E m \in Markers' : /\ EscalatedKey(m)' = k
                                      /\ alerts'[m].claim + Cooldown = expires[k]
               \/ \E j \in Instances : /\ Holds(j)' /\ JobKey(j)' = k
                                       /\ worker'[j].claim + Cooldown = expires[k]
    <3>1. CASE worker'[i] = worker[i]
      BY <1>4, <2>2, <3>1
    <3>2. CASE worker'[i] # worker[i]
      BY <1>1, <1>3, <2>2, <3>2
    <3>. QED  BY <3>1, <3>2
  <2>. QED  BY <1>5, <2>1, <2>2 DEF ClaimedInv
<1>. QED  BY <1>5 DEF ClaimedInv

LEMMA ClaimedStep == TypeOK /\ EvidenceInv /\ ClaimedInv /\ [Next]_vars => ClaimedInv'
<1>. SUFFICES ASSUME TypeOK, EvidenceInv, ClaimedInv, [Next]_vars, faults' = 0  PROVE ClaimedInv'
  BY DEF ClaimedInv
<1>1. /\ faults = 0 /\ \A n \in unnotified : ~LoseNotification(n)
      /\ \A i \in Instances : ~WorkerFault(i)
  BY NoFaultYet
<1>2. CASE UNCHANGED vars
  BY <1>1, <1>2, ClaimedQuiet DEF vars
<1>3. ASSUME NEW dev \in Devices, NEW type \in Types, NEW at \in 0 .. MaxTime + Skew,
             Ingest(dev, type, at)
      PROVE  ClaimedInv'
  <2>1. [device |-> dev, type |-> type, at |-> at, received |-> now,
         of |-> type, sources |-> {}, scan |-> 0, claim |-> 0] \in Alert
    BY BoundAssumption DEF Alert, AllTypes, TypeOK
  <2>. QED  BY <1>1, <1>3, <2>1, ClaimedRow DEF Ingest
<1>4. ASSUME NEW n \in unnotified, NotifyIngested(n)  PROVE ClaimedInv'
  BY <1>1, <1>4, ClaimedQuiet DEF NotifyIngested
<1>5. ASSUME NEW i \in Instances,
             \/ Ignore(i) \/ Take(i) \/ ScanBelow(i) \/ ScanBurst(i) \/ ClaimRefused(i)
             \/ NotifyMarker(i) \/ Listen(i)
      PROVE  ClaimedInv'
  <2>1. alerts' = alerts /\ expires' = expires
    BY <1>5 DEF Ignore, Take, ScanBelow, ScanBurst, ClaimRefused, NotifyMarker, Listen
  <2>2. /\ \A j \in Instances \ {i} : worker'[j] = worker[j]
        /\ worker[i].pc = "insert" => worker'[i] = worker[i]
    BY <1>5 DEF Ignore, Take, ScanBelow, ScanBurst, ClaimRefused, NotifyMarker, Listen, TypeOK
  <2>. QED  BY <1>1, <2>1, <2>2, ClaimedQuiet DEF Holds
<1>6. ASSUME NEW i \in Instances, Insert(i)  PROVE ClaimedInv'
  <2>1. PICK r \in Alert :
          /\ alerts' = Append(alerts, r)
          /\ <<r.device, r.of>> = JobKey(i) /\ r.sources = worker[i].sources
          /\ r.claim = worker[i].claim
    BY <1>6, InsertRow
  <2>2. worker[i].pc = "insert" /\ expires' = expires
    BY <1>6 DEF Insert
  <2>3. r.sources # {}
    <3>1. Cardinality(r.sources) >= Threshold
      BY <2>1, <2>2 DEF EvidenceInv, WorkerEvidence, Evidence
    <3>2. Cardinality({}) = 0
      BY FS_EmptySet
    <3>. QED  BY <3>1, <3>2, ThresholdAssumption
  <2>4. \A j \in Instances \ {i} : worker'[j] = worker[j]
    BY <1>6 DEF Insert, TypeOK
  <2>. QED  BY <1>1, <2>1, <2>2, <2>3, <2>4, ClaimedRow
<1>7. CASE Tick
  BY <1>1, <1>7, ClaimedQuiet DEF Tick
<1>. QED
  BY <1>1, <1>2, <1>3, <1>4, <1>5, <1>6, <1>7, ClaimedClaim DEF Next, WorkerStep

(***************************************************************************)
(* What is under way goes on.                                              *)
(***************************************************************************)
LEMMA SameRows ==
    ASSUME alerts' = alerts, now' = now, NEW k
    PROVE  (Small(k)' <=> Small(k)) /\ (Fresh(k)' <=> Fresh(k))
BY DEF Small, WindowSources, KeyOf, Fresh

LEMMA StillQueued ==
    ASSUME alerts' = alerts, NEW k, NEW l \in Instances, NEW j \in 1 .. Len(queue'[l]),
           KeyOf(queue'[l][j]) = k
    PROVE  Underway(k)'
BY DEF Underway, KeyOf

\* Worker i takes the head of its queue.
LEMMA UnderwayTaken ==
    ASSUME TypeOK, NEW i \in Instances, queue[i] # << >>,
           queue' = [queue EXCEPT ![i] = Tail(@)], alerts' = alerts, unnotified' = unnotified,
           \A l \in Instances : worker[l].pc \in {"scan", "claim"} => worker'[l] = worker[l],
           NEW k, Underway(k)
    PROVE  Underway(k)' \/ KeyOf(Head(queue[i])) = k
<1>1. queue[i] \in Seq(1 .. Len(alerts))
  BY DEF TypeOK
<1>2. /\ queue'[i] = Tail(queue[i]) /\ \A l \in Instances \ {i} : queue'[l] = queue[l]
  BY DEF TypeOK
<1>3. ASSUME NEW j \in 1 .. Len(queue[i]), j # 1
      PROVE  j - 1 \in 1 .. Len(queue'[i]) /\ queue'[i][j - 1] = queue[i][j]
  <2>1. Len(queue[i]) \in Nat /\ Len(Tail(queue[i])) = Len(queue[i]) - 1
    BY <1>1
  <2>2. j - 1 \in 1 .. Len(Tail(queue[i])) /\ (j - 1) + 1 = j
    BY <1>3, <2>1
  <2>3. \A m \in 1 .. Len(Tail(queue[i])) : Tail(queue[i])[m] = queue[i][m + 1]
    BY <1>1, <2>1
  <2>. QED  BY <1>2, <2>2, <2>3
<1>4. queue[i][1] = Head(queue[i])
  OBVIOUS
<1>5. CASE \E n \in unnotified : KeyOf(n) = k
  BY <1>5 DEF Underway, KeyOf
<1>6. ASSUME NEW l \in Instances, NEW j \in 1 .. Len(queue[l]), KeyOf(queue[l][j]) = k
      PROVE  Underway(k)' \/ KeyOf(Head(queue[i])) = k
  <2>1. CASE l # i
    BY <1>2, <1>6, <2>1, StillQueued
  <2>2. CASE l = i /\ j # 1
    <3>1. j - 1 \in 1 .. Len(queue'[i]) /\ queue'[i][j - 1] = queue[i][j]
      BY <1>3, <2>2
    <3>2. KeyOf(queue'[i][j - 1]) = k
      BY <1>6, <2>2, <3>1
    <3>. QED  BY <3>1, <3>2, StillQueued
  <2>3. CASE l = i /\ j = 1
    BY <1>4, <1>6, <2>3
  <2>. QED  BY <2>1, <2>2, <2>3
<1>7. CASE \E l \in Instances : worker[l].pc \in {"scan", "claim"} /\ JobKey(l) = k
  BY <1>7 DEF Underway, JobKey, KeyOf
<1>. QED  BY <1>5, <1>6, <1>7 DEF Underway

\* Worker i alone goes on with its job.
LEMMA UnderwayWorks ==
    ASSUME NEW i \in Instances, \A l \in Instances \ {i} : worker'[l] = worker[l],
           UNCHANGED <<alerts, unnotified, queue>>, NEW k, Underway(k)
    PROVE  Underway(k)' \/ (worker[i].pc \in {"scan", "claim"} /\ JobKey(i) = k)
<1>1. CASE \E n \in unnotified : KeyOf(n) = k
  BY <1>1 DEF Underway, KeyOf
<1>2. CASE \E l \in Instances : \E j \in 1 .. Len(queue[l]) : KeyOf(queue[l][j]) = k
  BY <1>2 DEF Underway, KeyOf
<1>3. ASSUME NEW l \in Instances, worker[l].pc \in {"scan", "claim"}, JobKey(l) = k, l # i
      PROVE  Underway(k)'
  BY <1>3 DEF Underway, JobKey, KeyOf
<1>. QED  BY <1>1, <1>2, <1>3 DEF Underway

\* Alert id is notified to a session that listens.
LEMMA UnderwayPublished ==
    ASSUME TypeOK, NEW id \in 1 .. Len(alerts), Publish(id), alerts' = alerts,
           unnotified \ {id} \subseteq unnotified', \E i \in Instances : listening[i],
           \A l \in Instances : worker[l].pc \in {"scan", "claim"} => worker'[l] = worker[l],
           NEW k, Underway(k)
    PROVE  Underway(k)'
<1>1. ASSUME NEW n \in unnotified, KeyOf(n) = k  PROVE Underway(k)'
  <2>1. CASE n # id
    BY <1>1, <2>1 DEF Underway, KeyOf
  <2>2. CASE n = id
    <3>1. PICK i \in Instances :
            Len(queue[i]) + 1 \in 1 .. Len(queue'[i]) /\ queue'[i][Len(queue[i]) + 1] = id
      BY PublishQueues
    <3>2. KeyOf(queue'[i][Len(queue[i]) + 1]) = k
      BY <1>1, <2>2, <3>1
    <3>. QED  BY <3>1, <3>2, StillQueued
  <2>. QED  BY <2>1, <2>2
<1>2. ASSUME NEW l \in Instances, NEW j \in 1 .. Len(queue[l]), KeyOf(queue[l][j]) = k
      PROVE  Underway(k)'
  <2>1. j \in 1 .. Len(queue'[l]) /\ queue'[l][j] = queue[l][j]
    BY PublishQueues
  <2>2. KeyOf(queue'[l][j]) = k
    BY <1>2, <2>1
  <2>. QED  BY <2>1, <2>2, StillQueued
<1>3. CASE \E l \in Instances : worker[l].pc \in {"scan", "claim"} /\ JobKey(l) = k
  BY <1>3 DEF Underway, JobKey, KeyOf
<1>. QED  BY <1>1, <1>2, <1>3 DEF Underway

(***************************************************************************)
(* A fresh key stays covered.                                              *)
(***************************************************************************)
LEMMA HeardStep ==
    ASSUME TypeOK, EvidenceInv, ListensInv, HeardInv, [Next]_vars
    PROVE  HeardInv'
<1>. SUFFICES ASSUME Enabled, faults' = 0, NEW k \in Keys, k[2] # Marker, Fresh(k)'
              PROVE  Small(k)' \/ expires'[k] > now' \/ Underway(k)'
  BY DEF HeardInv
<1>. DEFINE Goal == Small(k)' \/ expires'[k] > now' \/ Underway(k)'
<1>1. /\ faults = 0 /\ \A n \in unnotified : ~LoseNotification(n)
      /\ \A i \in Instances : ~WorkerFault(i)
  BY NoFaultYet
<1>2. /\ \A i \in Instances : listening[i]
      /\ \E i \in Instances : listening[i]
  BY <1>1, InstanceAssumption DEF ListensInv
<1>3. Fresh(k) => Small(k) \/ expires[k] > now \/ Underway(k)
  BY <1>1 DEF HeardInv
<1>4. now \in Nat /\ expires \in [Keys -> Nat]
  BY DEF TypeOK
<1>5. ASSUME alerts' = alerts, now' = now, expires' = expires,
             Underway(k) => Small(k) \/ expires[k] > now \/ Underway(k)'
      PROVE  Goal
  BY <1>3, <1>5, SameRows
<1>6. ASSUME UNCHANGED vars  PROVE Goal
  <2>1. Underway(k) => Underway(k)'
    BY <1>6 DEF vars, Underway, JobKey, KeyOf
  <2>. QED  BY <1>5, <1>6, <2>1 DEF vars
<1>7. ASSUME NEW dev \in Devices, NEW type \in Types, NEW at \in 0 .. MaxTime + Skew,
             Ingest(dev, type, at)
      PROVE  Goal
  <2>. DEFINE r == [device |-> dev, type |-> type, at |-> at, received |-> now,
                    of |-> type, sources |-> {}, scan |-> 0, claim |-> 0]
  <2>1. r \in Alert /\ r.device = dev /\ r.type = type
    BY <1>4, BoundAssumption DEF Alert, AllTypes
  <2>2. alerts' = Append(alerts, r)
    BY <1>7 DEF Ingest
  <2>. HIDE DEF r
  <2>3. CASE k = <<dev, type>>
    <3>1. Len(alerts) + 1 \in unnotified' /\ alerts'[Len(alerts) + 1] = r
      BY <1>7, <2>1, <2>2, AppendRow DEF Ingest, TypeOK
    <3>. QED  BY <2>1, <2>3, <3>1 DEF Underway, KeyOf
  <2>4. CASE k # <<dev, type>>
    <3>1. /\ expires' = expires /\ now' = now /\ queue' = queue /\ worker' = worker
          /\ unnotified \subseteq unnotified'
      BY <1>7 DEF Ingest
    <3>2. /\ WindowSources(k, now)' = WindowSources(k, now)
          /\ Fresh(k)' => Fresh(k)
      BY <2>1, <2>2, <2>4, <3>1, OtherRow
    <3>3. Underway(k) => Underway(k)'
      BY <2>1, <2>2, <3>1, UnderwayRow
    <3>. QED  BY <1>3, <3>1, <3>2, <3>3 DEF Small
  <2>. QED  BY <2>3, <2>4
<1>8. ASSUME NEW n \in unnotified, NotifyIngested(n)  PROVE Goal
  <2>1. /\ Publish(n) /\ alerts' = alerts /\ now' = now /\ expires' = expires /\ worker' = worker
        /\ unnotified' = unnotified \ {n}
    BY <1>8 DEF NotifyIngested
  <2>2. n \in 1 .. Len(alerts)
    BY DEF TypeOK
  <2>3. Underway(k) => Underway(k)'
    BY <1>2, <2>1, <2>2, UnderwayPublished
  <2>. QED  BY <1>5, <2>1, <2>3
<1>9. ASSUME NEW i \in Instances, NotifyMarker(i)  PROVE Goal
  <2>1. /\ Publish(worker[i].job) /\ alerts' = alerts /\ now' = now /\ expires' = expires
        /\ unnotified' = unnotified /\ worker[i].pc = "notify"
        /\ worker' = [worker EXCEPT ![i] = Idle]
    BY <1>9 DEF NotifyMarker
  <2>2. worker[i].job \in 1 .. Len(alerts)
    BY <2>1 DEF TypeOK
  <2>3. \A l \in Instances : worker[l].pc \in {"scan", "claim"} => worker'[l] = worker[l]
    BY <2>1 DEF TypeOK
  <2>4. Underway(k) => Underway(k)'
    BY <1>2, <2>1, <2>2, <2>3, UnderwayPublished
  <2>. QED  BY <1>5, <2>1, <2>4
<1>10. ASSUME NEW i \in Instances, Ignore(i) \/ Take(i)  PROVE Goal
  <2>1. /\ worker[i].pc = "idle" /\ queue[i] # << >> /\ queue' = [queue EXCEPT ![i] = Tail(@)]
        /\ alerts' = alerts /\ now' = now /\ expires' = expires /\ unnotified' = unnotified
    BY <1>10 DEF Ignore, Take
  <2>2. \A l \in Instances : worker[l].pc \in {"scan", "claim"} => worker'[l] = worker[l]
    BY <1>10, <2>1 DEF Ignore, Take, TypeOK
  <2>3. Underway(k) => Underway(k)' \/ KeyOf(Head(queue[i])) = k
    BY <2>1, <2>2, UnderwayTaken
  <2>4. CASE Ignore(i)
    <3>1. KeyOf(Head(queue[i]))[2] = Marker
      BY <2>4 DEF Ignore, IsMarker, KeyOf
    <3>. QED  BY <1>5, <2>1, <2>3, <3>1
  <2>5. CASE Take(i)
    <3>1. worker'[i].pc = "scan" /\ worker'[i].job = Head(queue[i])
      BY <2>5 DEF Take, At, TypeOK
    <3>2. KeyOf(Head(queue[i])) = k => Underway(k)'
      BY <2>1, <3>1 DEF Underway, JobKey, KeyOf
    <3>. QED  BY <1>5, <2>1, <2>3, <3>2
  <2>. QED  BY <1>10, <2>4, <2>5
\* From here on worker i goes on with its job.
<1>11. ASSUME NEW i \in Instances, ScanBelow(i)  PROVE Goal
  <2>1. /\ UNCHANGED <<alerts, now, expires, unnotified, queue>>
        /\ Cardinality(Burst(i)) < Threshold /\ worker[i].pc = "scan"
        /\ \A l \in Instances \ {i} : worker'[l] = worker[l]
    BY <1>11 DEF ScanBelow, TypeOK
  <2>2. Underway(k) => Underway(k)' \/ JobKey(i) = k
    BY <2>1, UnderwayWorks
  \* What the scan saw is at least what is in the window now.
  <2>3. ASSUME JobKey(i) = k  PROVE Small(k)
    <3>1. worker[i].scan \in Nat /\ worker[i].scan <= now
      BY <2>1 DEF EvidenceInv, WorkerEvidence, TypeOK, Worker
    <3>2. PICK s \in Nat : s = worker[i].scan
      BY <3>1
    <3>3. /\ Cardinality(WindowSources(k, now)) \in Nat /\ Cardinality(WindowSources(k, s)) \in Nat
          /\ Cardinality(WindowSources(k, now)) <= Cardinality(WindowSources(k, s))
      BY <1>4, <3>1, <3>2, LaterWindow
    <3>4. Cardinality(WindowSources(k, s)) < Threshold
      BY <2>1, <2>3, <3>2 DEF Burst
    <3>. QED  BY <3>3, <3>4, ThresholdAssumption DEF Small
  <2>. QED  BY <1>5, <2>1, <2>2, <2>3
<1>12. ASSUME NEW i \in Instances, ScanBurst(i)  PROVE Goal
  <2>1. /\ UNCHANGED <<alerts, now, expires, unnotified, queue>>
        /\ worker'[i].pc = "claim" /\ worker'[i].job = worker[i].job
        /\ \A l \in Instances \ {i} : worker'[l] = worker[l]
    BY <1>12 DEF ScanBurst, TypeOK, Worker
  <2>2. Underway(k) => Underway(k)' \/ JobKey(i) = k
    BY <2>1, UnderwayWorks
  <2>3. JobKey(i) = k => Underway(k)'
    BY <2>1 DEF Underway, JobKey, KeyOf
  <2>. QED  BY <1>5, <2>1, <2>2, <2>3
<1>13. ASSUME NEW i \in Instances, Claim(i)  PROVE Goal
  <2>1. /\ UNCHANGED <<alerts, now, unnotified, queue>>
        /\ expires' = [expires EXCEPT ![JobKey(i)] = now + Cooldown]
        /\ \A l \in Instances \ {i} : worker'[l] = worker[l]
    BY <1>13 DEF Claim, TypeOK
  <2>2. Underway(k) => Underway(k)' \/ JobKey(i) = k
    BY <2>1, UnderwayWorks
  <2>3. JobKey(i) = k => expires'[k] > now
    BY <1>4, <2>1, DurationAssumption
  <2>4. expires[k] > now => expires'[k] > now
    BY <1>4, <2>1, DurationAssumption
  <2>. QED  BY <1>3, <2>1, <2>2, <2>3, <2>4, SameRows
<1>14. ASSUME NEW i \in Instances, ClaimRefused(i)  PROVE Goal
  <2>1. /\ UNCHANGED <<alerts, now, expires, unnotified, queue>>
        /\ expires[JobKey(i)] > now
        /\ \A l \in Instances \ {i} : worker'[l] = worker[l]
    BY <1>14 DEF ClaimRefused, TypeOK
  <2>2. Underway(k) => Underway(k)' \/ JobKey(i) = k
    BY <2>1, UnderwayWorks
  <2>. QED  BY <1>5, <2>1, <2>2
<1>15. ASSUME NEW i \in Instances, Insert(i)  PROVE Goal
  <2>1. PICK r \in Alert : alerts' = Append(alerts, r) /\ r.type = Marker
    BY <1>15, InsertRow
  <2>2. k # <<r.device, r.type>>
    BY <2>1
  <2>3. /\ UNCHANGED <<now, expires, unnotified, queue>> /\ worker[i].pc = "insert"
        /\ \A l \in Instances \ {i} : worker'[l] = worker[l]
    BY <1>15 DEF Insert, TypeOK
  <2>4. \A l \in Instances : worker[l].pc \in {"scan", "claim"} => worker'[l] = worker[l]
    BY <2>3
  <2>5. /\ WindowSources(k, now)' = WindowSources(k, now)
        /\ Fresh(k)' => Fresh(k)
    BY <2>1, <2>2, <2>3, OtherRow
  <2>6. Underway(k) => Underway(k)'
    BY <2>1, <2>3, <2>4, UnderwayRow
  <2>. QED  BY <1>3, <2>3, <2>5, <2>6 DEF Small
<1>16. ASSUME NEW i \in Instances  PROVE ~Listen(i)
  BY <1>2 DEF Listen
\* After a tick no alert is fresh.
<1>17. ASSUME Tick  PROVE Goal
  <2>1. alerts' = alerts /\ now' = now + 1 /\ \A n \in 1 .. Len(alerts) : alerts[n].received <= now
    BY <1>17 DEF Tick, EvidenceInv
  <2>2. \A n \in 1 .. Len(alerts) : alerts[n].received \in Nat
    <3>1. \A n \in 1 .. Len(alerts) : alerts[n] \in Alert
      BY DEF TypeOK
    <3>. QED  BY <3>1 DEF Alert
  <2>. QED  BY <1>4, <2>1, <2>2 DEF Fresh
<1>. QED
  BY <1>1, <1>6, <1>7, <1>8, <1>9, <1>10, <1>11, <1>12, <1>13, <1>14, <1>15, <1>16, <1>17
     DEF Next, WorkerStep

\* As long as nothing has failed, a burst that was added to at this moment and
\* has been handled is covered by a marker, for any number of devices, requests
\* and instances at work on it at once, and whether or not the clock moves
\* while they are.
THEOREM BurstsAreEscalated == Spec => []BurstEscalated
<1>1. Init => EvidenceInv /\ CoveredInv
  <2>. SUFFICES ASSUME Init  PROVE EvidenceInv /\ CoveredInv
    OBVIOUS
  <2>1. EvidenceInv
    BY DEF Init, EvidenceInv, WorkerEvidence, BurstEvidence, Markers, Idle, At
  <2>2. ListensInv /\ ClaimedInv
    BY DEF Init, ListensInv, ClaimedInv
  <2>3. HeardInv
    BY DEF Init, HeardInv, Fresh
  <2>. QED  BY <2>1, <2>2, <2>3 DEF CoveredInv
<1>2. TypeOK /\ TypeOK' /\ EvidenceInv /\ CoveredInv /\ [Next]_vars => EvidenceInv' /\ CoveredInv'
  BY EvidenceStep, ListensStep, ClaimedStep, HeardStep DEF CoveredInv
<1>3. TypeOK /\ CoveredInv => BurstEscalated
  <2>. SUFFICES ASSUME TypeOK, CoveredInv, Enabled, faults = 0, Settled,
                       NEW n \in 1 .. Len(alerts), ~IsMarker(n), alerts[n].received = now,
                       Cardinality(WindowSources(KeyOf(n), now)) >= Threshold
                PROVE  \E m \in Markers : /\ EscalatedKey(m) = KeyOf(n)
                                          /\ now < alerts[m].claim + Cooldown
    BY DEF BurstEscalated
  <2>1. PICK k \in Keys : k = KeyOf(n) /\ k[2] # Marker
    BY KeyTypes DEF IsMarker, KeyOf
  <2>2. ~Underway(k)
    BY DEF Settled, Underway, Idle, At
  <2>3. ~Small(k)
    <3>1. Cardinality(WindowSources(k, now)) \in Nat
      BY LaterWindow DEF TypeOK
    <3>. QED  BY <2>1, <3>1, ThresholdAssumption DEF Small
  <2>4. Fresh(k)
    BY <2>1 DEF Fresh
  <2>5. expires[k] > now /\ expires[k] # 0
    <3>1. expires[k] > now
      BY <2>1, <2>2, <2>3, <2>4 DEF CoveredInv, HeardInv
    <3>. QED  BY <3>1 DEF TypeOK
  <2>6. \A i \in Instances : ~Holds(i)
    BY DEF Settled, Holds, Idle, At
  <2>7. PICK m \in Markers : EscalatedKey(m) = k /\ alerts[m].claim + Cooldown = expires[k]
    BY <2>5, <2>6 DEF CoveredInv, ClaimedInv
  <2>. QED  BY <2>1, <2>5, <2>7
<1>. QED  BY <1>1, <1>2, <1>3, TypeCorrect, TypeStep, PTL DEF Spec
=============================================================================
