------------------------- MODULE AlertDeliveryProofs -------------------------
(***************************************************************************)
(* Proofs about AlertDelivery, for any number of requests and connections, *)
(* any batch size and any number of faults.                                *)
(*                                                                         *)
(* PublishedOnce and BatchInOrder speak of what was dispatched; what makes *)
(* them hold is decided earlier, when a request stores its rows and        *)
(* notifies them.  SystemInv therefore follows an id along its way:        *)
(*   - TableInv: the rows of a request are consecutive, it has a tail of   *)
(*     them left to notify, and no two requests share a batch;             *)
(*   - PlaceInv: a stored id waits for its notify or is in one place, the  *)
(*     inbox, the published or the missed; of one batch the published come *)
(*     before those in the inbox, and these before those that wait.        *)
(*                                                                         *)
(* The stream is reached by refinement: the chain implements AlertStream,  *)
(* so that what AlertStreamProofs proves of any dispatchers holds of this  *)
(* listener.                                                               *)
(***************************************************************************)
EXTENDS AlertDelivery, AlertStreamProofs

(***************************************************************************)
(* Sequences of row ids.                                                   *)
(***************************************************************************)
LEMMA TailIds ==
    ASSUME NEW S, NEW q \in Seq(S), q # << >>
    PROVE  /\ Len(q) \in Nat \ {0} /\ Head(q) = q[1] /\ Head(q) \in S
           /\ Tail(q) \in Seq(S) /\ Len(Tail(q)) = Len(q) - 1
           /\ \A i \in 1 .. Len(Tail(q)) : i + 1 \in 1 .. Len(q) /\ Tail(q)[i] = q[i + 1]
<1>1. Len(q) \in Nat \ {0} /\ Len(Tail(q)) = Len(q) - 1 /\ Tail(q) \in Seq(S)
  OBVIOUS
<1>. QED  BY <1>1

LEMMA AppendIds ==
    ASSUME NEW S, NEW q \in Seq(S), NEW n \in S
    PROVE  /\ Append(q, n) \in Seq(S) /\ Len(q) \in Nat /\ Len(Append(q, n)) = Len(q) + 1
           /\ \A i \in 1 .. Len(q) : Append(q, n)[i] = q[i]
           /\ Append(q, n)[Len(q) + 1] = n
           /\ \A i \in 1 .. Len(Append(q, n)) : i \in 1 .. Len(q) \/ i = Len(q) + 1
OBVIOUS

LEMMA PrefixIds ==
    ASSUME NEW S, NEW q \in Seq(S), NEW k \in 0 .. Len(q)
    PROVE  /\ SubSeq(q, 1, k) \in Seq(S) /\ Len(SubSeq(q, 1, k)) = k
           /\ \A i \in 1 .. k : i \in 1 .. Len(q) /\ SubSeq(q, 1, k)[i] = q[i]
<1>1. Len(q) \in Nat /\ k \in Nat /\ k <= Len(q)
  OBVIOUS
<1>2. Len(SubSeq(q, 1, k)) = k /\ SubSeq(q, 1, k) \in Seq(S)
  BY <1>1
<1>. QED  BY <1>1, <1>2

LEMMA JoinRows ==
    ASSUME NEW S, NEW p \in Seq(S), NEW q \in Seq(S)
    PROVE  /\ p \o q \in Seq(S) /\ Len(p \o q) = Len(p) + Len(q)
           /\ \A i \in 1 .. Len(p) : (p \o q)[i] = p[i]
           /\ \A i \in Len(p) + 1 .. Len(p) + Len(q) :
                  i - Len(p) \in 1 .. Len(q) /\ (p \o q)[i] = q[i - Len(p)]
<1>1. Len(p) \in Nat /\ Len(q) \in Nat
  OBVIOUS
<1>2. p \o q \in Seq(S) /\ Len(p \o q) = Len(p) + Len(q)
  OBVIOUS
<1>3. \A i \in 1 .. Len(p) : (p \o q)[i] = p[i]
  BY <1>1
<1>4. \A i \in Len(p) + 1 .. Len(p) + Len(q) :
        i - Len(p) \in 1 .. Len(q) /\ (p \o q)[i] = q[i - Len(p)]
  BY <1>1
<1>. QED  BY <1>2, <1>3, <1>4

LEMMA MoreIds ==
    ASSUME NEW S, NEW T, S \subseteq T, NEW q \in Seq(S)
    PROVE  q \in Seq(T)
OBVIOUS

(***************************************************************************)
(* Type correctness.                                                       *)
(***************************************************************************)
TableTypeOK ==
    /\ rows \in Seq(AlertRow)
    /\ request \in [Requests -> Request]
    /\ \A r \in Requests : request[r].last \in 0 .. Len(rows)
    /\ accepted \subseteq 1 .. Len(rows)

ListenerTypeOK ==
    /\ listening \in BOOLEAN
    /\ inbox \in Seq(1 .. Len(rows))
    /\ published \in Seq(1 .. Len(rows))
    /\ missed \subseteq 1 .. Len(rows)
    /\ faults \in Nat

LEMMA SystemTypes == SystemTypeOK <=> TypeOK /\ TableTypeOK /\ ListenerTypeOK
BY DEF SystemTypeOK, TableTypeOK, ListenerTypeOK

\* The row of an id and the counters of a request.
LEMMA RowTypes ==
    ASSUME TableTypeOK
    PROVE  /\ Len(rows) \in Nat
           /\ \A n \in 1 .. Len(rows) : rows[n].device \in Devices /\ rows[n].batch \in Nat
           /\ \A r \in Requests : request[r].next \in Nat /\ request[r].last \in Nat
                                  /\ request[r].last <= Len(rows)
<1>1. \A n \in 1 .. Len(rows) : rows[n] \in AlertRow
  BY DEF TableTypeOK
<1>2. \A r \in Requests : request[r] \in Request
  BY DEF TableTypeOK
<1>3. \A n \in 1 .. Len(rows) : rows[n].device \in Devices /\ rows[n].batch \in Nat
  BY <1>1 DEF AlertRow
<1>4. \A r \in Requests : request[r].next \in Nat /\ request[r].last \in Nat
  BY <1>2 DEF Request
<1>5. Len(rows) \in Nat
  BY DEF TableTypeOK
<1>6. \A r \in Requests : request[r].last <= Len(rows)
  BY <1>5 DEF TableTypeOK
<1>. QED  BY <1>3, <1>4, <1>5, <1>6

\* A request is idle or has both its counters.
LEMMA IdleRequest ==
    ASSUME TableTypeOK, NEW r \in Requests
    PROVE  request[r] = NoRequest <=> request[r].next = 0 /\ request[r].last = 0
<1>1. request[r] \in Request
  BY DEF TableTypeOK
<1>. QED  BY <1>1 DEF Request, NoRequest

(***************************************************************************)
(* What a step of a request does.                                          *)
(***************************************************************************)
\* Only request r goes on.
Others(r) ==
    \A q \in Requests \ {r} :
        request'[q].next = request[q].next /\ request'[q].last = request[q].last

LEMMA StoreEffect ==
    ASSUME TableTypeOK, NEW r \in Requests, NEW dev \in Devices, NEW k \in 1 .. BatchSize,
           Store(r, dev, k)
    PROVE  /\ request[r] = NoRequest /\ k \in Nat \ {0}
           /\ request'[r].next = Len(rows) + 1 /\ request'[r].last = Len(rows) + k
           /\ Others(r)
           /\ Len(rows') = Len(rows) + k
           /\ \A n \in 1 .. Len(rows) : rows'[n] = rows[n]
           /\ \A n \in Len(rows) + 1 .. Len(rows) + k :
                  rows'[n].device = dev /\ rows'[n].batch = Len(rows) + 1
           /\ rows' \in Seq(AlertRow) /\ request' \in [Requests -> Request]
           /\ UNCHANGED <<accepted, listening, inbox, published, missed, faults>>
<1>. DEFINE new == [i \in 1 .. k |-> [device |-> dev, batch |-> Len(rows) + 1]]
<1>1. k \in Nat \ {0} /\ Len(rows) \in Nat /\ rows \in Seq(AlertRow)
  BY DeliveryBoundAssumption DEF TableTypeOK
<1>2. [device |-> dev, batch |-> Len(rows) + 1] \in AlertRow
  BY <1>1 DEF AlertRow
<1>3. new \in Seq(AlertRow) /\ Len(new) = k
  BY <1>1, <1>2
<1>4. \A i \in 1 .. k : new[i].device = dev /\ new[i].batch = Len(rows) + 1
  OBVIOUS
<1>5. rows' = rows \o new
  BY DEF Store
<1>. HIDE DEF new
<1>6. /\ Len(rows') = Len(rows) + k /\ rows' \in Seq(AlertRow)
      /\ \A n \in 1 .. Len(rows) : rows'[n] = rows[n]
      /\ \A n \in Len(rows) + 1 .. Len(rows) + k :
             n - Len(rows) \in 1 .. k /\ rows'[n] = new[n - Len(rows)]
  <2>1. Len(rows') = Len(rows) + k /\ rows' \in Seq(AlertRow)
    BY <1>1, <1>3, <1>5, JoinRows
  <2>2. \A n \in 1 .. Len(rows) : rows'[n] = rows[n]
    BY <1>1, <1>3, <1>5, JoinRows
  <2>3. \A n \in Len(rows) + 1 .. Len(rows) + k : n - Len(rows) \in 1 .. k
    BY <1>1
  <2>4. \A n \in Len(rows) + 1 .. Len(rows) + k : rows'[n] = new[n - Len(rows)]
    BY <1>1, <1>3, <1>5, JoinRows
  <2>. QED  BY <2>1, <2>2, <2>3, <2>4
<1>8. \A n \in Len(rows) + 1 .. Len(rows) + k :
        rows'[n].device = dev /\ rows'[n].batch = Len(rows) + 1
  BY <1>4, <1>6
<1>9. [next |-> Len(rows) + 1, last |-> Len(rows) + k] \in Request
  BY <1>1 DEF Request
<1>10. /\ request' \in [Requests -> Request] /\ Others(r)
       /\ request'[r].next = Len(rows) + 1 /\ request'[r].last = Len(rows) + k
  BY <1>9 DEF Store, TableTypeOK, Others
<1>11. request[r] = NoRequest /\ UNCHANGED <<accepted, listening, inbox, published, missed, faults>>
  BY DEF Store
<1>. QED  BY <1>1, <1>6, <1>8, <1>10, <1>11

LEMMA NotifyEffect ==
    ASSUME TableTypeOK, NEW r \in Requests, Notify(r)
    PROVE  /\ request[r] # NoRequest /\ request[r].next <= request[r].last
           /\ request'[r].next = request[r].next + 1 /\ request'[r].last = request[r].last
           /\ Others(r) /\ request' \in [Requests -> Request]
           /\ IF listening THEN inbox' = Append(inbox, request[r].next) /\ missed' = missed
                           ELSE inbox' = inbox /\ missed' = missed \cup {request[r].next}
           /\ UNCHANGED <<rows, accepted, listening, published, faults>>
<1>1. request[r] \in Request
  BY DEF TableTypeOK
<1>2. request' = [request EXCEPT ![r] = [next |-> request[r].next + 1, last |-> request[r].last]]
  <2>1. request' = [request EXCEPT ![r] = [request[r] EXCEPT !.next = request[r].next + 1]]
    BY DEF Notify
  <2>2. [request[r] EXCEPT !.next = request[r].next + 1]
          = [next |-> request[r].next + 1, last |-> request[r].last]
    BY <1>1 DEF Request
  <2>. QED  BY <2>1, <2>2
<1>3. [next |-> request[r].next + 1, last |-> request[r].last] \in Request
  BY <1>1 DEF Request
<1>4. /\ request' \in [Requests -> Request] /\ Others(r)
      /\ request'[r].next = request[r].next + 1 /\ request'[r].last = request[r].last
  BY <1>2, <1>3 DEF TableTypeOK, Others
<1>5. IF listening THEN inbox' = Append(inbox, request[r].next) /\ missed' = missed
                   ELSE inbox' = inbox /\ missed' = missed \cup {request[r].next}
  BY DEF Notify
<1>. QED  BY <1>4, <1>5 DEF Notify

\* The request ends, with or without an answer.
LEMMA EndEffect ==
    ASSUME TableTypeOK, NEW r \in Requests, Abandon(r) \/ Respond(r)
    PROVE  /\ request[r] # NoRequest
           /\ request'[r] = NoRequest /\ request'[r].next = 0 /\ request'[r].last = 0
           /\ Others(r) /\ request' \in [Requests -> Request]
           /\ UNCHANGED <<rows, listening, inbox, published>>
<1>1. request' = [request EXCEPT ![r] = NoRequest] /\ NoRequest \in Request
  BY DEF Abandon, Respond, NoRequest, Request
<1>2. request' \in [Requests -> Request] /\ Others(r) /\ request'[r] = NoRequest
  BY <1>1 DEF TableTypeOK, Others
<1>3. NoRequest.next = 0 /\ NoRequest.last = 0
  BY DEF NoRequest
<1>. QED  BY <1>2, <1>3 DEF Abandon, Respond

(***************************************************************************)
(* The table.                                                              *)
(*                                                                         *)
(* The rows of a request are consecutive and carry its first id; what it   *)
(* has left to notify is a tail of them.  No two requests in progress      *)
(* carry the same first id.                                                *)
(***************************************************************************)
RowsInv == \A n \in 1 .. Len(rows) : rows[n].batch \in 1 .. n

RequestInv ==
    \A r \in Requests :
        IF request[r].last = 0 THEN request[r].next = 0
        ELSE /\ request[r].next \in rows[request[r].last].batch .. request[r].last + 1
             /\ \A n \in rows[request[r].last].batch .. request[r].last :
                    rows[n].batch = rows[request[r].last].batch

ApartRequests ==
    \A r \in Requests : \A q \in Requests \ {r} :
        request[r].last # 0 /\ request[q].last # 0 =>
            rows[request[r].last].batch # rows[request[q].last].batch

TableInv == RowsInv /\ RequestInv /\ ApartRequests

\* A request in progress.
LEMMA Serving ==
    ASSUME TableTypeOK, TableInv, NEW r \in Requests, request[r] # NoRequest
    PROVE  /\ request[r].last \in 1 .. Len(rows)
           /\ request[r].next \in Nat \ {0} /\ request[r].next <= request[r].last + 1
           /\ rows[request[r].last].batch \in Nat \ {0}
           /\ rows[request[r].last].batch <= request[r].next
           /\ \A n \in rows[request[r].last].batch .. request[r].last :
                  rows[n].batch = rows[request[r].last].batch
<1>1. /\ request[r].next \in Nat /\ request[r].last \in Nat /\ request[r].last <= Len(rows)
      /\ Len(rows) \in Nat
  BY RowTypes
<1>2. request[r].last # 0
  BY IdleRequest DEF TableInv, RequestInv
<1>3. request[r].last \in 1 .. Len(rows)
  BY <1>1, <1>2
<1>4. rows[request[r].last].batch \in 1 .. request[r].last
  BY <1>3 DEF TableInv, RowsInv
<1>5. /\ request[r].next \in rows[request[r].last].batch .. request[r].last + 1
      /\ \A n \in rows[request[r].last].batch .. request[r].last :
             rows[n].batch = rows[request[r].last].batch
  BY <1>2 DEF TableInv, RequestInv
<1>. QED  BY <1>1, <1>3, <1>4, <1>5

LEMMA TableStore ==
    ASSUME TableTypeOK, TableInv, NEW r \in Requests, NEW dev \in Devices,
           NEW k \in 1 .. BatchSize, Store(r, dev, k)
    PROVE  TableTypeOK' /\ TableInv'
<1>. DEFINE N == Len(rows)
<1>1. /\ N \in Nat /\ k \in Nat \ {0}
      /\ request'[r].next = N + 1 /\ request'[r].last = N + k
      /\ Len(rows') = N + k
      /\ \A n \in 1 .. N : rows'[n] = rows[n] /\ rows[n].batch \in 1 .. n
      /\ \A n \in N + 1 .. N + k : rows'[n].batch = N + 1
  BY StoreEffect, RowTypes DEF TableInv, RowsInv
<1>2. \A q \in Requests \ {r} :
        /\ request'[q].next = request[q].next /\ request'[q].last = request[q].last
        /\ request[q].last \in Nat /\ request[q].last <= N
  BY StoreEffect, RowTypes DEF Others
<1>. HIDE DEF N
<1>3. \A n \in 1 .. Len(rows') : n \in 1 .. N \/ n \in N + 1 .. N + k
  BY <1>1
<1>4. RowsInv'
  BY <1>1, <1>3 DEF RowsInv
<1>5. N + k \in N + 1 .. N + k /\ rows'[request'[r].last].batch = N + 1
  BY <1>1
<1>6. ASSUME NEW q \in Requests \ {r}, request[q].last # 0
      PROVE  /\ request[q].last \in 1 .. N
             /\ rows'[request[q].last].batch = rows[request[q].last].batch
             /\ rows[request[q].last].batch \in 1 .. request[q].last
  BY <1>1, <1>2, <1>6
<1>7. RequestInv'
  <2>1. ASSUME NEW q \in Requests \ {r}, request[q].last # 0,
               NEW n \in rows[request[q].last].batch .. request[q].last
        PROVE  rows'[n].batch = rows[request[q].last].batch
    <3>1. n \in 1 .. N /\ rows[n].batch = rows[request[q].last].batch
      BY <1>1, <1>6, <2>1 DEF TableInv, RequestInv
    <3>. QED  BY <1>1, <3>1
  <2>2. ASSUME NEW q \in Requests \ {r}
        PROVE  IF request'[q].last = 0 THEN request'[q].next = 0
               ELSE /\ request'[q].next \in rows'[request'[q].last].batch .. request'[q].last + 1
                    /\ \A n \in rows'[request'[q].last].batch .. request'[q].last :
                           rows'[n].batch = rows'[request'[q].last].batch
    <3>1. CASE request[q].last = 0
      BY <1>2, <3>1 DEF TableInv, RequestInv
    <3>2. CASE request[q].last # 0
      BY <1>2, <1>6, <2>1, <3>2 DEF TableInv, RequestInv
    <3>. QED  BY <3>1, <3>2
  <2>3. request'[r].last # 0 /\ request'[r].next \in N + 1 .. request'[r].last + 1
    BY <1>1
  <2>. QED  BY <1>1, <1>5, <2>2, <2>3 DEF RequestInv
<1>8. ApartRequests'
  <2>1. ASSUME NEW p \in Requests, NEW q \in Requests \ {p}, request'[p].last # 0, request'[q].last # 0
        PROVE  rows'[request'[p].last].batch # rows'[request'[q].last].batch
    <3>1. CASE p # r /\ q # r
      BY <1>2, <1>6, <2>1, <3>1 DEF TableInv, ApartRequests
    <3>2. CASE p = r
      BY <1>1, <1>2, <1>5, <1>6, <2>1, <3>2
    <3>3. CASE q = r
      BY <1>1, <1>2, <1>5, <1>6, <2>1, <3>3
    <3>. QED  BY <3>1, <3>2, <3>3
  <2>. QED  BY <2>1 DEF ApartRequests
<1>9. TableTypeOK'
  <2>1. \A q \in Requests : request'[q].last \in 0 .. Len(rows')
    BY <1>1, <1>2
  <2>2. accepted' \subseteq 1 .. Len(rows')
    <3>1. accepted' = accepted /\ 1 .. N \subseteq 1 .. Len(rows')
      BY <1>1, StoreEffect
    <3>. QED  BY <3>1 DEF TableTypeOK, N
  <2>. QED  BY <2>1, <2>2, StoreEffect DEF TableTypeOK
<1>. QED  BY <1>4, <1>7, <1>8, <1>9 DEF TableInv

LEMMA TableNotify ==
    ASSUME TableTypeOK, TableInv, NEW r \in Requests, Notify(r)
    PROVE  TableTypeOK' /\ TableInv'
<1>1. /\ rows' = rows /\ accepted' = accepted /\ request' \in [Requests -> Request]
      /\ request'[r].next = request[r].next + 1
      /\ request[r] # NoRequest /\ request[r].next <= request[r].last
  BY NotifyEffect
<1>2. \A q \in Requests : request'[q].last = request[q].last
  BY NotifyEffect DEF Others
<1>3. \A q \in Requests \ {r} : request'[q].next = request[q].next
  BY NotifyEffect DEF Others
<1>4. /\ request[r].last \in Nat \ {0} /\ request[r].next \in Nat
      /\ rows[request[r].last].batch \in Nat /\ rows[request[r].last].batch <= request[r].next
  BY <1>1, Serving
<1>5. request'[r].next \in rows[request[r].last].batch .. request[r].last + 1
  BY <1>1, <1>4
<1>6. RequestInv'
  BY <1>1, <1>2, <1>3, <1>4, <1>5 DEF TableInv, RequestInv
<1>7. RowsInv' /\ ApartRequests'
  BY <1>1, <1>2 DEF TableInv, RowsInv, ApartRequests
<1>8. TableTypeOK'
  BY <1>1, <1>2 DEF TableTypeOK
<1>. QED  BY <1>6, <1>7, <1>8 DEF TableInv

LEMMA TableEnd ==
    ASSUME TableTypeOK, TableInv, NEW r \in Requests, Abandon(r) \/ Respond(r)
    PROVE  TableTypeOK' /\ TableInv'
<1>1. /\ rows' = rows /\ request' \in [Requests -> Request]
      /\ request'[r].next = 0 /\ request'[r].last = 0
  BY EndEffect
<1>2. \A q \in Requests \ {r} :
        request'[q].next = request[q].next /\ request'[q].last = request[q].last
  BY EndEffect DEF Others
<1>3. RequestInv'
  BY <1>1, <1>2 DEF TableInv, RequestInv
<1>4. RowsInv' /\ ApartRequests'
  BY <1>1, <1>2 DEF TableInv, RowsInv, ApartRequests
<1>5. \A q \in Requests : request'[q].last \in 0 .. Len(rows)
  <2>1. Len(rows) \in Nat
    BY RowTypes
  <2>. QED  BY <1>1, <1>2, <2>1 DEF TableTypeOK
<1>6. accepted' \subseteq 1 .. Len(rows)
  <2>1. CASE Abandon(r)
    BY <2>1 DEF Abandon, TableTypeOK
  <2>2. CASE Respond(r)
    <3>1. Len(rows) \in Nat /\ request[r].last \in Nat /\ request[r].last <= Len(rows)
      BY RowTypes
    <3>2. 1 .. request[r].last \subseteq 1 .. Len(rows)
      BY <3>1
    <3>. QED  BY <2>2, <3>2 DEF Respond, TableTypeOK
  <2>. QED  BY <2>1, <2>2
<1>. QED  BY <1>1, <1>3, <1>4, <1>5, <1>6 DEF TableInv, TableTypeOK

(***************************************************************************)
(* The ids on their way.                                                   *)
(*                                                                         *)
(* A stored id is waiting for its request's notify, or it has been placed: *)
(* in the inbox, among the published, or among the missed; and it is in    *)
(* one place only.  Of one batch the published come before those in the    *)
(* inbox, and both before those that wait.                                 *)
(***************************************************************************)
Placed(n) ==
    \/ n \in missed
    \/ \E i \in 1 .. Len(inbox) : inbox[i] = n
    \/ \E i \in 1 .. Len(published) : published[i] = n

Waiting(n) == \E r \in Requests : request[r].next <= n /\ n <= request[r].last

NotifiedInv ==
    \A r \in Requests : \A n \in 1 .. Len(rows) :
        /\ request[r].last # 0
        /\ Placed(n)
        /\ rows[n].batch = rows[request[r].last].batch
        => n < request[r].next

SameBatch(n, m) == rows[n].batch = rows[m].batch

WayInv ==
    /\ \A i, j \in 1 .. Len(inbox) : i < j /\ SameBatch(inbox[i], inbox[j]) => inbox[i] < inbox[j]
    /\ \A i, j \in 1 .. Len(published) :
           i < j /\ SameBatch(published[i], published[j]) => published[i] < published[j]
    /\ \A i \in 1 .. Len(published), j \in 1 .. Len(inbox) :
           SameBatch(published[i], inbox[j]) => published[i] < inbox[j]
    /\ \A i \in 1 .. Len(inbox) : inbox[i] \notin missed
    /\ \A i \in 1 .. Len(published) : published[i] \notin missed

AccountedInv ==
    /\ \A n \in 1 .. Len(rows) : Placed(n) \/ Waiting(n)
    /\ \A n \in accepted : Placed(n)

PublishedInv ==
    /\ Len(published) = Len(log)
    /\ \A i \in 1 .. Len(published) : log[i] = rows[published[i]].device

PlaceInv == NotifiedInv /\ WayInv /\ AccountedInv /\ PublishedInv

LEMMA IdTypes ==
    ASSUME ListenerTypeOK
    PROVE  /\ Len(inbox) \in Nat /\ Len(published) \in Nat
           /\ \A i \in 1 .. Len(inbox) : inbox[i] \in 1 .. Len(rows)
           /\ \A i \in 1 .. Len(published) : published[i] \in 1 .. Len(rows)
           /\ \A n \in missed : n \in 1 .. Len(rows)
BY DEF ListenerTypeOK

LEMMA PlacedId ==
    ASSUME ListenerTypeOK, NEW n, Placed(n)
    PROVE  n \in 1 .. Len(rows)
BY IdTypes DEF Placed

(***************************************************************************)
(* Requests.                                                               *)
(***************************************************************************)
LEMMA PlaceStore ==
    ASSUME TableTypeOK, TableInv, ListenerTypeOK, PlaceInv, NEW r \in Requests,
           NEW dev \in Devices, NEW k \in 1 .. BatchSize, Store(r, dev, k), log' = log
    PROVE  ListenerTypeOK' /\ PlaceInv'
<1>. DEFINE N == Len(rows)
<1>1. /\ N \in Nat /\ k \in Nat \ {0}
      /\ request'[r].next = N + 1 /\ request'[r].last = N + k
      /\ Len(rows') = N + k
      /\ \A n \in 1 .. N : rows'[n] = rows[n] /\ rows[n].batch \in 1 .. n
      /\ \A n \in N + 1 .. N + k : rows'[n].batch = N + 1
      /\ UNCHANGED <<accepted, listening, inbox, published, missed, faults>>
  BY StoreEffect, RowTypes DEF TableInv, RowsInv
<1>2. \A q \in Requests \ {r} :
        /\ request'[q].next = request[q].next /\ request'[q].last = request[q].last
        /\ request[q].last \in Nat /\ request[q].last <= N
  BY StoreEffect, RowTypes DEF Others
<1>3. request[r].next = 0 /\ request[r].last = 0
  BY StoreEffect, IdleRequest
<1>4. ListenerTypeOK'
  <2>1. 1 .. N \subseteq 1 .. Len(rows')
    BY <1>1
  <2>2. missed \subseteq 1 .. N /\ inbox \in Seq(1 .. N) /\ published \in Seq(1 .. N)
    BY DEF ListenerTypeOK
  <2>3. inbox \in Seq(1 .. Len(rows')) /\ published \in Seq(1 .. Len(rows'))
    BY <2>1, <2>2, MoreIds
  <2>. QED  BY <1>1, <2>1, <2>2, <2>3 DEF ListenerTypeOK
<1>5. /\ \A i \in 1 .. Len(inbox) : inbox[i] \in 1 .. N
      /\ \A i \in 1 .. Len(published) : published[i] \in 1 .. N
      /\ \A n : Placed(n)' <=> Placed(n)
      /\ \A n : Placed(n) => n \in 1 .. N
  BY <1>1, IdTypes, PlacedId DEF Placed
<1>. HIDE DEF N
<1>6. NotifiedInv'
  <2>1. ASSUME NEW q \in Requests, NEW n \in 1 .. Len(rows'), request'[q].last # 0, Placed(n)',
               rows'[n].batch = rows'[request'[q].last].batch
        PROVE  n < request'[q].next
    <3>1. n \in 1 .. N /\ Placed(n) /\ rows'[n].batch = rows[n].batch /\ rows[n].batch \in 1 .. n
      BY <1>1, <1>5, <2>1
    <3>2. CASE q = r
      BY <1>1, <3>1, <3>2
    <3>3. CASE q # r
      <4>1. request[q].last \in 1 .. N /\ request'[q].last = request[q].last
        BY <1>1, <1>2, <2>1, <3>3
      <4>2. rows[n].batch = rows[request[q].last].batch
        BY <1>1, <2>1, <3>1, <4>1
      <4>. QED  BY <1>2, <2>1, <3>1, <3>3, <4>1, <4>2 DEF PlaceInv, NotifiedInv, N
    <3>. QED  BY <3>2, <3>3
  <2>. QED  BY <2>1 DEF NotifiedInv
<1>7. WayInv'
  <2>1. /\ \A i \in 1 .. Len(inbox) : rows'[inbox[i]] = rows[inbox[i]]
        /\ \A i \in 1 .. Len(published) : rows'[published[i]] = rows[published[i]]
    BY <1>1, <1>5
  <2>2. UNCHANGED <<inbox, published, missed>>
    BY <1>1
  <2>. QED  BY <2>1, <2>2 DEF PlaceInv, WayInv, SameBatch
<1>8. AccountedInv'
  <2>1. ASSUME NEW n \in 1 .. Len(rows')  PROVE Placed(n)' \/ Waiting(n)'
    <3>1. CASE n \in 1 .. N
      <4>1. Placed(n) \/ \E q \in Requests \ {r} : request[q].next <= n /\ n <= request[q].last
        BY <1>1, <1>3, <3>1 DEF PlaceInv, AccountedInv, Waiting, N
      <4>. QED  BY <1>2, <1>5, <4>1 DEF Waiting
    <3>2. CASE n \notin 1 .. N
      BY <1>1, <2>1, <3>2 DEF Waiting
    <3>. QED  BY <3>1, <3>2
  <2>. QED  BY <1>1, <1>5, <2>1 DEF PlaceInv, AccountedInv
<1>9. PublishedInv'
  BY <1>1, <1>5 DEF PlaceInv, PublishedInv
<1>. QED  BY <1>4, <1>6, <1>7, <1>8, <1>9 DEF PlaceInv

LEMMA PlaceNotify ==
    ASSUME TableTypeOK, TableInv, ListenerTypeOK, PlaceInv, NEW r \in Requests, Notify(r),
           log' = log
    PROVE  ListenerTypeOK' /\ PlaceInv'
<1>. DEFINE m == request[r].next
            b == rows[request[r].last].batch
<1>1. /\ UNCHANGED <<rows, accepted, listening, published, faults>>
      /\ request'[r].next = m + 1 /\ request'[r].last = request[r].last
      /\ \A q \in Requests \ {r} :
             request'[q].next = request[q].next /\ request'[q].last = request[q].last
  BY NotifyEffect DEF Others
<1>2. /\ m \in 1 .. Len(rows) /\ rows[m].batch = b /\ m \in Nat /\ m <= request[r].last
      /\ request[r].last # 0 /\ request[r].last \in Nat
  <2>1. request[r] # NoRequest /\ m <= request[r].last
    BY NotifyEffect
  <2>. QED  BY <2>1, Serving, RowTypes
\* Nothing of the batch that has been placed is as new as the next alert.
<1>3. \A n : Placed(n) /\ rows[n].batch = b => n < m
  BY <1>2, PlacedId DEF PlaceInv, NotifiedInv
<1>4. ~Placed(m)
  BY <1>2, <1>3
<1>5. \A q \in Requests \ {r} : request[q].last # 0 => rows[request[q].last].batch # b
  BY <1>2 DEF TableInv, ApartRequests
<1>. HIDE DEF m, b
\* Whoever listens or not, the next alert is placed, and nothing else.
<1>6. ASSUME NEW n  PROVE Placed(n)' <=> Placed(n) \/ n = m
  <2>1. CASE listening
    <3>1. inbox' = Append(inbox, m) /\ missed' = missed /\ inbox \in Seq(1 .. Len(rows))
      BY <2>1, NotifyEffect DEF ListenerTypeOK, m
    <3>2. /\ Len(inbox) \in Nat /\ Len(inbox') = Len(inbox) + 1
          /\ \A i \in 1 .. Len(inbox) : i \in 1 .. Len(inbox') /\ inbox'[i] = inbox[i]
          /\ inbox'[Len(inbox) + 1] = m /\ Len(inbox) + 1 \in 1 .. Len(inbox')
          /\ \A i \in 1 .. Len(inbox') : i \in 1 .. Len(inbox) \/ i = Len(inbox) + 1
      BY <1>2, <3>1, AppendIds
    <3>. QED  BY <1>1, <3>1, <3>2 DEF Placed
  <2>2. CASE ~listening
    BY <1>1, <2>2, NotifyEffect DEF Placed, m
  <2>. QED  BY <2>1, <2>2
<1>7. ListenerTypeOK'
  <2>1. CASE listening
    <3>1. inbox' = Append(inbox, m) /\ missed' = missed /\ inbox \in Seq(1 .. Len(rows))
      BY <2>1, NotifyEffect DEF ListenerTypeOK, m
    <3>2. inbox' \in Seq(1 .. Len(rows))
      BY <1>2, <3>1, AppendIds
    <3>. QED  BY <1>1, <3>1, <3>2 DEF ListenerTypeOK
  <2>2. CASE ~listening
    <3>1. inbox' = inbox /\ missed' = missed \cup {m}
      BY <2>2, NotifyEffect DEF m
    <3>. QED  BY <1>1, <1>2, <3>1 DEF ListenerTypeOK
  <2>. QED  BY <2>1, <2>2
<1>8. NotifiedInv'
  <2>1. ASSUME NEW q \in Requests, NEW n \in 1 .. Len(rows), request'[q].last # 0, Placed(n)',
               rows[n].batch = rows[request'[q].last].batch
        PROVE  n < request'[q].next
    <3>1. CASE q = r
      BY <1>1, <1>2, <1>3, <1>6, <2>1, <3>1 DEF b
    <3>2. CASE q # r
      <4>1. request'[q].last = request[q].last /\ request'[q].next = request[q].next
        BY <1>1, <3>2
      <4>2. Placed(n)
        BY <1>2, <1>5, <1>6, <2>1, <3>2, <4>1
      <4>. QED  BY <2>1, <4>1, <4>2 DEF PlaceInv, NotifiedInv
    <3>. QED  BY <3>1, <3>2
  <2>. QED  BY <1>1, <2>1 DEF NotifiedInv
<1>9. WayInv'
  <2>1. CASE listening
    <3>1. inbox' = Append(inbox, m) /\ missed' = missed /\ inbox \in Seq(1 .. Len(rows))
      BY <2>1, NotifyEffect DEF ListenerTypeOK, m
    <3>2. /\ Len(inbox) \in Nat /\ Len(inbox') = Len(inbox) + 1
          /\ \A i \in 1 .. Len(inbox) : inbox'[i] = inbox[i]
          /\ inbox'[Len(inbox) + 1] = m
          /\ \A i \in 1 .. Len(inbox') : i \in 1 .. Len(inbox) \/ i = Len(inbox) + 1
      BY <1>2, <3>1, AppendIds
    <3>3. /\ \A i \in 1 .. Len(inbox) : Placed(inbox[i])
          /\ \A i \in 1 .. Len(published) : Placed(published[i])
      BY DEF Placed
    <3>4. \A i, j \in 1 .. Len(inbox') :
            i < j /\ rows[inbox'[i]].batch = rows[inbox'[j]].batch => inbox'[i] < inbox'[j]
      <4>1. ASSUME NEW i \in 1 .. Len(inbox'), NEW j \in 1 .. Len(inbox'), i < j,
                   rows[inbox'[i]].batch = rows[inbox'[j]].batch
            PROVE  inbox'[i] < inbox'[j]
        <5>1. i \in 1 .. Len(inbox) /\ inbox'[i] = inbox[i]
          BY <3>2, <4>1
        <5>2. CASE j \in 1 .. Len(inbox)
          BY <3>2, <4>1, <5>1, <5>2 DEF PlaceInv, WayInv, SameBatch
        <5>3. CASE j = Len(inbox) + 1
          BY <1>2, <1>3, <3>2, <3>3, <4>1, <5>1, <5>3
        <5>. QED  BY <3>2, <5>2, <5>3
      <4>. QED  BY <4>1
    <3>5. ASSUME NEW i \in 1 .. Len(published), NEW j \in 1 .. Len(inbox'),
                 rows[published[i]].batch = rows[inbox'[j]].batch
          PROVE  published[i] < inbox'[j]
      <4>1. CASE j \in 1 .. Len(inbox)
        BY <3>2, <3>5, <4>1 DEF PlaceInv, WayInv, SameBatch
      <4>2. CASE j = Len(inbox) + 1
        BY <1>2, <1>3, <3>2, <3>3, <3>5, <4>2
      <4>. QED  BY <3>2, <4>1, <4>2
    <3>6. \A i \in 1 .. Len(inbox') : inbox'[i] \notin missed
      BY <1>4, <3>2 DEF PlaceInv, WayInv, Placed
    <3>. QED  BY <1>1, <3>1, <3>4, <3>5, <3>6 DEF PlaceInv, WayInv, SameBatch
  <2>2. CASE ~listening
    <3>1. inbox' = inbox /\ missed' = missed \cup {m}
      BY <2>2, NotifyEffect DEF m
    <3>. QED  BY <1>1, <1>4, <3>1 DEF PlaceInv, WayInv, SameBatch, Placed
  <2>. QED  BY <2>1, <2>2
<1>10. AccountedInv'
  <2>1. ASSUME NEW n \in 1 .. Len(rows)  PROVE Placed(n)' \/ Waiting(n)'
    <3>1. CASE Placed(n) \/ n = m
      BY <1>6, <3>1
    <3>2. CASE ~Placed(n) /\ n # m
      <4>1. PICK q \in Requests : request[q].next <= n /\ n <= request[q].last
        BY <3>2 DEF PlaceInv, AccountedInv, Waiting
      <4>2. request'[q].next <= n /\ n <= request'[q].last
        <5>1. CASE q = r
          BY <1>1, <1>2, <3>2, <4>1, <5>1 DEF m
        <5>. QED  BY <1>1, <4>1, <5>1
      <4>. QED  BY <4>2 DEF Waiting
    <3>. QED  BY <3>1, <3>2
  <2>. QED  BY <1>1, <1>6, <2>1 DEF PlaceInv, AccountedInv
<1>11. PublishedInv'
  BY <1>1 DEF PlaceInv, PublishedInv
<1>. QED  BY <1>7, <1>8, <1>9, <1>10, <1>11 DEF PlaceInv

\* A request that ends places what it had left, or has nothing left; what it
\* answers with has been placed.
LEMMA PlaceEnd ==
    ASSUME TableTypeOK, TableInv, ListenerTypeOK, PlaceInv, NEW r \in Requests,
           Abandon(r) \/ Respond(r), log' = log
    PROVE  ListenerTypeOK' /\ PlaceInv'
<1>. DEFINE m == request[r].next
            last == request[r].last
            b == rows[request[r].last].batch
<1>1. /\ UNCHANGED <<rows, listening, inbox, published>>
      /\ request'[r].next = 0 /\ request'[r].last = 0
      /\ \A q \in Requests \ {r} :
             request'[q].next = request[q].next /\ request'[q].last = request[q].last
  BY EndEffect DEF Others
<1>2. /\ m \in Nat \ {0} /\ b \in Nat \ {0} /\ b <= m /\ last \in 1 .. Len(rows) /\ last \in Nat
      /\ \A n \in b .. last : rows[n].batch = b
  BY EndEffect, Serving, RowTypes
<1>3. \A n : Placed(n) /\ rows[n].batch = b => n < m
  BY <1>2, PlacedId DEF PlaceInv, NotifiedInv
<1>4. \A q \in Requests \ {r} : request[q].last # 0 => rows[request[q].last].batch # b
  BY <1>2 DEF TableInv, ApartRequests
<1>5. /\ Respond(r) => m > last /\ missed' = missed /\ faults' = faults
      /\ Abandon(r) => missed' = missed \cup m .. last /\ faults' = faults + 1
  BY DEF Respond, Abandon, Fault
<1>6. Respond(r) => accepted' = accepted \cup {n \in 1 .. last : rows[n].batch = b}
  BY DEF Respond
<1>7. Abandon(r) => accepted' = accepted
  BY DEF Abandon
<1>. HIDE DEF m, last, b
<1>8. missed' = missed \cup m .. last /\ faults' \in Nat
  <2>1. faults \in Nat
    BY DEF ListenerTypeOK
  <2>2. CASE Respond(r)
    <3>1. m .. last = {}
      BY <1>2, <1>5, <2>2
    <3>. QED  BY <1>5, <2>1, <2>2, <3>1
  <2>3. CASE Abandon(r)
    BY <1>5, <2>1, <2>3
  <2>. QED  BY <2>2, <2>3
<1>9. \A n \in m .. last : n \in 1 .. Len(rows) /\ n \in b .. last /\ rows[n].batch = b /\ ~Placed(n)
  <2>1. Len(rows) \in Nat
    BY RowTypes
  <2>2. \A n \in m .. last : n \in 1 .. Len(rows) /\ n \in b .. last
    BY <1>2, <2>1
  <2>3. \A n \in m .. last : rows[n].batch = b /\ ~(n < m)
    BY <1>2, <2>2
  <2>. QED  BY <1>3, <2>2, <2>3
<1>10. \A n : Placed(n)' <=> Placed(n) \/ n \in m .. last
  BY <1>1, <1>8 DEF Placed
<1>11. ListenerTypeOK'
  BY <1>1, <1>8, <1>9 DEF ListenerTypeOK
<1>12. NotifiedInv'
  <2>1. ASSUME NEW q \in Requests, NEW n \in 1 .. Len(rows), request'[q].last # 0, Placed(n)',
               rows[n].batch = rows[request'[q].last].batch
        PROVE  n < request'[q].next
    <3>1. q # r /\ request'[q].last = request[q].last /\ request'[q].next = request[q].next
      BY <1>1, <2>1
    <3>2. Placed(n)
      BY <1>4, <1>9, <1>10, <2>1, <3>1
    <3>. QED  BY <2>1, <3>1, <3>2 DEF PlaceInv, NotifiedInv
  <2>. QED  BY <1>1, <2>1 DEF NotifiedInv
<1>13. WayInv'
  <2>1. /\ \A i \in 1 .. Len(inbox) : inbox[i] \notin m .. last
        /\ \A i \in 1 .. Len(published) : published[i] \notin m .. last
    BY <1>9 DEF Placed
  <2>. QED  BY <1>1, <1>8, <2>1 DEF PlaceInv, WayInv, SameBatch
<1>14. AccountedInv'
  <2>1. ASSUME NEW n \in 1 .. Len(rows)  PROVE Placed(n)' \/ Waiting(n)'
    <3>1. CASE Placed(n)
      BY <1>10, <3>1
    <3>2. CASE ~Placed(n)
      <4>1. PICK q \in Requests : request[q].next <= n /\ n <= request[q].last
        BY <3>2 DEF PlaceInv, AccountedInv, Waiting
      <4>2. CASE q = r
        <5>1. n \in m .. last
          BY <1>2, <4>1, <4>2 DEF m, last
        <5>. QED  BY <1>10, <5>1
      <4>3. CASE q # r
        BY <1>1, <4>1, <4>3 DEF Waiting
      <4>. QED  BY <4>2, <4>3
    <3>. QED  BY <3>1, <3>2
  <2>2. ASSUME Respond(r), NEW n \in 1 .. last, rows[n].batch = b  PROVE Placed(n)
    <3>1. n \in 1 .. Len(rows) /\ n \in Nat /\ n < m
      <4>1. Len(rows) \in Nat
        BY RowTypes
      <4>. QED  BY <1>2, <1>5, <2>2, <4>1
    <3>2. ASSUME NEW q \in Requests, request[q].next <= n, n <= request[q].last  PROVE FALSE
      <4>1. q # r
        BY <1>2, <3>1, <3>2 DEF m
      <4>2. request[q].last # 0 /\ request[q] # NoRequest
        <5>1. request[q].last \in Nat
          BY RowTypes
        <5>2. request[q].last # 0
          BY <2>2, <3>1, <3>2, <5>1
        <5>. QED  BY <5>2, IdleRequest
      <4>3. n \in rows[request[q].last].batch .. request[q].last
        <5>1. /\ rows[request[q].last].batch \in Nat /\ request[q].next \in Nat
              /\ request[q].last \in Nat /\ rows[request[q].last].batch <= request[q].next
          BY <4>2, Serving, RowTypes
        <5>. QED  BY <3>1, <3>2, <5>1
      <4>4. rows[n].batch = rows[request[q].last].batch
        BY <4>2, <4>3, Serving
      <4>. QED  BY <1>4, <2>2, <4>1, <4>2, <4>4
    <3>. QED  BY <3>1, <3>2 DEF PlaceInv, AccountedInv, Waiting
  <2>3. \A n \in accepted' : Placed(n)'
    BY <1>6, <1>7, <1>10, <2>2 DEF PlaceInv, AccountedInv
  <2>. QED  BY <1>1, <2>1, <2>3 DEF AccountedInv
<1>15. PublishedInv'
  BY <1>1 DEF PlaceInv, PublishedInv
<1>. QED  BY <1>11, <1>12, <1>13, <1>14, <1>15 DEF PlaceInv

(***************************************************************************)
(* The listener.                                                           *)
(***************************************************************************)
\* A step that leaves the table alone and moves ids from one place to another
\* keeps account of them.
LEMMA PlaceMove ==
    ASSUME ListenerTypeOK, PlaceInv, UNCHANGED <<rows, request, accepted>>,
           \A n : Placed(n)' <=> Placed(n)
    PROVE  NotifiedInv' /\ AccountedInv'
<1>1. NotifiedInv'
  BY DEF PlaceInv, NotifiedInv
<1>2. AccountedInv'
  BY DEF PlaceInv, AccountedInv, Waiting
<1>. QED  BY <1>1, <1>2

\* The head of the inbox, and what is left.
LEMMA TakeHead ==
    ASSUME ListenerTypeOK, inbox # << >>, inbox' = Tail(inbox)
    PROVE  /\ Head(inbox) \in 1 .. Len(rows)
           /\ inbox' \in Seq(1 .. Len(rows))
           /\ 1 \in 1 .. Len(inbox) /\ Head(inbox) = inbox[1]
           /\ \A i \in 1 .. Len(inbox') :
                  i \in Nat /\ i + 1 \in 1 .. Len(inbox) /\ 1 < i + 1 /\ inbox'[i] = inbox[i + 1]
           /\ \A i \in 1 .. Len(inbox) : i = 1 \/ \E j \in 1 .. Len(inbox') : inbox'[j] = inbox[i]
<1>1. inbox \in Seq(1 .. Len(rows))
  BY DEF ListenerTypeOK
<1>2. /\ Len(inbox) \in Nat \ {0} /\ Head(inbox) = inbox[1] /\ Head(inbox) \in 1 .. Len(rows)
      /\ inbox' \in Seq(1 .. Len(rows)) /\ Len(inbox') = Len(inbox) - 1
      /\ \A i \in 1 .. Len(inbox') : i + 1 \in 1 .. Len(inbox) /\ inbox'[i] = inbox[i + 1]
  BY <1>1, TailIds
<1>3. ASSUME NEW i \in 1 .. Len(inbox), i # 1  PROVE \E j \in 1 .. Len(inbox') : inbox'[j] = inbox[i]
  <2>1. i - 1 \in 1 .. Len(inbox') /\ inbox'[i - 1] = inbox[i - 1 + 1] /\ i - 1 + 1 = i
    BY <1>2, <1>3
  <2>. QED  BY <2>1
<1>4. 1 \in 1 .. Len(inbox) /\ \A i \in 1 .. Len(inbox') : i \in Nat /\ 1 < i + 1
  BY <1>2
<1>. QED  BY <1>2, <1>3, <1>4

\* What is left in the inbox is in order, and its batches begin after the head.
LEMMA RestOfInbox ==
    ASSUME TableTypeOK, ListenerTypeOK, PlaceInv,
           inbox # << >>, inbox' = Tail(inbox), rows' = rows
    PROVE  /\ \A i, j \in 1 .. Len(inbox') :
                  i < j /\ SameBatch(inbox'[i], inbox'[j]) => inbox'[i] < inbox'[j]
           /\ \A j \in 1 .. Len(inbox') :
                  SameBatch(Head(inbox), inbox'[j]) => Head(inbox) < inbox'[j]
           /\ \A i \in 1 .. Len(published), j \in 1 .. Len(inbox') :
                  SameBatch(published[i], inbox'[j]) => published[i] < inbox'[j]
           /\ \A j \in 1 .. Len(inbox') : inbox'[j] \notin missed /\ inbox'[j] # Head(inbox)
<1>1. \A i, j \in 1 .. Len(inbox') :
        i < j /\ SameBatch(inbox'[i], inbox'[j]) => inbox'[i] < inbox'[j]
  <2>1. \A i, j \in 1 .. Len(inbox') : i < j => i + 1 < j + 1
    BY TakeHead
  <2>. QED  BY <2>1, TakeHead DEF PlaceInv, WayInv
<1>2. \A j \in 1 .. Len(inbox') :
        SameBatch(Head(inbox), inbox'[j]) => Head(inbox) < inbox'[j]
  BY TakeHead DEF PlaceInv, WayInv
<1>3. \A i \in 1 .. Len(published), j \in 1 .. Len(inbox') :
        SameBatch(published[i], inbox'[j]) => published[i] < inbox'[j]
  BY TakeHead DEF PlaceInv, WayInv
<1>4. \A j \in 1 .. Len(inbox') : inbox'[j] \notin missed
  BY TakeHead DEF PlaceInv, WayInv
<1>5. ASSUME NEW j \in 1 .. Len(inbox'), inbox'[j] = Head(inbox)  PROVE FALSE
  <2>1. Head(inbox) < inbox'[j]
    BY <1>2, <1>5 DEF SameBatch
  <2>2. Head(inbox) \in Nat
    BY TakeHead, RowTypes
  <2>. QED  BY <1>5, <2>1, <2>2
<1>. QED  BY <1>1, <1>2, <1>3, <1>4, <1>5

LEMMA PlaceHandle ==
    ASSUME TypeOK, TableTypeOK, ListenerTypeOK, PlaceInv, Handle
    PROVE  ListenerTypeOK' /\ PlaceInv'
<1>. DEFINE h == Head(inbox)
<1>1. /\ inbox # << >> /\ inbox' = Tail(inbox)
      /\ published' = Append(published, h) /\ log' = Append(log, rows[h].device)
      /\ UNCHANGED <<rows, request, accepted, listening, missed, faults>>
  BY DEF Handle, Dispatch, tableVars
<1>2. /\ h \in 1 .. Len(rows) /\ h = inbox[1] /\ 1 \in 1 .. Len(inbox)
      /\ inbox' \in Seq(1 .. Len(rows)) /\ h \notin missed
  BY <1>1, TakeHead DEF PlaceInv, WayInv
<1>3. published \in Seq(1 .. Len(rows)) /\ log \in Seq(Devices) /\ rows[h].device \in Devices
  BY <1>2, RowTypes DEF ListenerTypeOK, TypeOK
<1>. HIDE DEF h
<1>4. /\ published' \in Seq(1 .. Len(rows)) /\ Len(published) \in Nat
      /\ Len(published') = Len(published) + 1
      /\ \A i \in 1 .. Len(published) : i \in 1 .. Len(published') /\ published'[i] = published[i]
      /\ published'[Len(published) + 1] = h /\ Len(published) + 1 \in 1 .. Len(published')
      /\ \A i \in 1 .. Len(published') : i \in 1 .. Len(published) \/ i = Len(published) + 1
  BY <1>1, <1>2, <1>3, AppendIds
<1>5. /\ Len(log) \in Nat /\ Len(log') = Len(log) + 1
      /\ \A i \in 1 .. Len(log) : log'[i] = log[i]
      /\ log'[Len(log) + 1] = rows[h].device
  BY <1>1, <1>3, AppendIds
<1>6. \A n : Placed(n)' <=> Placed(n)
  <2>1. ASSUME NEW n, Placed(n)  PROVE Placed(n)'
    <3>1. CASE n \in missed
      BY <1>1, <3>1 DEF Placed
    <3>2. CASE \E i \in 1 .. Len(published) : published[i] = n
      BY <1>4, <3>2 DEF Placed
    <3>3. ASSUME NEW i \in 1 .. Len(inbox), inbox[i] = n  PROVE Placed(n)'
      <4>1. i = 1 \/ \E j \in 1 .. Len(inbox') : inbox'[j] = inbox[i]
        BY <1>1, TakeHead
      <4>2. CASE i = 1
        BY <1>2, <1>4, <3>3, <4>2 DEF Placed
      <4>. QED  BY <3>3, <4>1, <4>2 DEF Placed
    <3>. QED  BY <2>1, <3>1, <3>2, <3>3 DEF Placed
  <2>2. ASSUME NEW n, Placed(n)'  PROVE Placed(n)
    BY <1>1, <1>2, <1>4, <2>2, TakeHead DEF Placed
  <2>. QED  BY <2>1, <2>2
<1>7. ListenerTypeOK'
  BY <1>1, <1>2, <1>4 DEF ListenerTypeOK
<1>8. WayInv'
  <2>1. /\ \A i, j \in 1 .. Len(inbox') :
               i < j /\ SameBatch(inbox'[i], inbox'[j]) => inbox'[i] < inbox'[j]
        /\ \A j \in 1 .. Len(inbox') : SameBatch(h, inbox'[j]) => h < inbox'[j]
        /\ \A i \in 1 .. Len(published), j \in 1 .. Len(inbox') :
               SameBatch(published[i], inbox'[j]) => published[i] < inbox'[j]
        /\ \A j \in 1 .. Len(inbox') : inbox'[j] \notin missed
    BY <1>1, RestOfInbox DEF h
  <2>2. \A i \in 1 .. Len(published) : SameBatch(published[i], h) => published[i] < h
    BY <1>2 DEF PlaceInv, WayInv
  <2>3. ASSUME NEW i \in 1 .. Len(published'), NEW j \in 1 .. Len(published'), i < j,
               SameBatch(published'[i], published'[j])
        PROVE  published'[i] < published'[j]
    <3>1. i \in 1 .. Len(published) /\ published'[i] = published[i]
      BY <1>4, <2>3
    <3>2. CASE j \in 1 .. Len(published)
      BY <1>4, <2>3, <3>1, <3>2 DEF PlaceInv, WayInv
    <3>3. CASE j = Len(published) + 1
      BY <1>4, <2>2, <2>3, <3>1, <3>3
    <3>. QED  BY <1>4, <3>2, <3>3
  <2>4. ASSUME NEW i \in 1 .. Len(published'), NEW j \in 1 .. Len(inbox'),
               SameBatch(published'[i], inbox'[j])
        PROVE  published'[i] < inbox'[j]
    BY <1>4, <2>1, <2>4
  <2>5. \A i \in 1 .. Len(published') : published'[i] \notin missed
    BY <1>2, <1>4 DEF PlaceInv, WayInv
  <2>. QED  BY <1>1, <2>1, <2>3, <2>4, <2>5 DEF WayInv, SameBatch
<1>9. PublishedInv'
  <2>1. Len(published) = Len(log) /\ \A i \in 1 .. Len(published) : log[i] = rows[published[i]].device
    BY DEF PlaceInv, PublishedInv
  <2>2. ASSUME NEW i \in 1 .. Len(published')  PROVE log'[i] = rows[published'[i]].device
    BY <1>4, <1>5, <2>1
  <2>. QED  BY <1>1, <1>4, <1>5, <2>1, <2>2 DEF PublishedInv
<1>. QED  BY <1>1, <1>6, <1>7, <1>8, <1>9, PlaceMove DEF PlaceInv

LEMMA PlaceLookupFails ==
    ASSUME TableTypeOK, ListenerTypeOK, PlaceInv, LookupFails, log' = log
    PROVE  ListenerTypeOK' /\ PlaceInv'
<1>. DEFINE h == Head(inbox)
<1>1. /\ inbox # << >> /\ inbox' = Tail(inbox) /\ missed' = missed \cup {h}
      /\ UNCHANGED <<rows, request, accepted, listening, published>> /\ faults' = faults + 1
  BY DEF LookupFails, Fault, tableVars
<1>2. /\ h \in 1 .. Len(rows) /\ h = inbox[1] /\ 1 \in 1 .. Len(inbox)
      /\ inbox' \in Seq(1 .. Len(rows))
  BY <1>1, TakeHead
<1>. HIDE DEF h
<1>3. \A n : Placed(n)' <=> Placed(n)
  <2>1. ASSUME NEW n, Placed(n)  PROVE Placed(n)'
    <3>1. CASE n \in missed \/ \E i \in 1 .. Len(published) : published[i] = n
      BY <1>1, <3>1 DEF Placed
    <3>2. ASSUME NEW i \in 1 .. Len(inbox), inbox[i] = n  PROVE Placed(n)'
      <4>1. i = 1 \/ \E j \in 1 .. Len(inbox') : inbox'[j] = inbox[i]
        BY <1>1, TakeHead
      <4>2. CASE i = 1
        BY <1>1, <1>2, <3>2, <4>2 DEF Placed
      <4>. QED  BY <3>2, <4>1, <4>2 DEF Placed
    <3>. QED  BY <2>1, <3>1, <3>2 DEF Placed
  <2>2. ASSUME NEW n, Placed(n)'  PROVE Placed(n)
    BY <1>1, <1>2, <2>2, TakeHead DEF Placed
  <2>. QED  BY <2>1, <2>2
<1>4. ListenerTypeOK'
  <2>1. faults' \in Nat
    BY <1>1 DEF ListenerTypeOK
  <2>2. missed' \subseteq 1 .. Len(rows')
    BY <1>1, <1>2 DEF ListenerTypeOK
  <2>3. inbox' \in Seq(1 .. Len(rows')) /\ published' \in Seq(1 .. Len(rows'))
    BY <1>1, <1>2 DEF ListenerTypeOK
  <2>4. listening' \in BOOLEAN
    BY <1>1 DEF ListenerTypeOK
  <2>. QED  BY <2>1, <2>2, <2>3, <2>4 DEF ListenerTypeOK
<1>5. WayInv'
  <2>1. /\ \A i, j \in 1 .. Len(inbox') :
               i < j /\ SameBatch(inbox'[i], inbox'[j]) => inbox'[i] < inbox'[j]
        /\ \A i \in 1 .. Len(published), j \in 1 .. Len(inbox') :
               SameBatch(published[i], inbox'[j]) => published[i] < inbox'[j]
        /\ \A j \in 1 .. Len(inbox') : inbox'[j] \notin missed /\ inbox'[j] # h
    BY <1>1, RestOfInbox DEF h
  \* The head came after everything published of its batch, and so was not.
  <2>2. ASSUME NEW i \in 1 .. Len(published), published[i] = h  PROVE FALSE
    <3>1. published[i] < h
      BY <1>2, <2>2 DEF PlaceInv, WayInv, SameBatch
    <3>2. h \in Nat
      BY <1>2, RowTypes
    <3>. QED  BY <2>2, <3>1, <3>2
  <2>. QED  BY <1>1, <2>1, <2>2 DEF PlaceInv, WayInv, SameBatch
<1>6. PublishedInv'
  BY <1>1 DEF PlaceInv, PublishedInv
<1>. QED  BY <1>1, <1>3, <1>4, <1>5, <1>6, PlaceMove DEF PlaceInv

LEMMA PlaceDisconnect ==
    ASSUME TableTypeOK, ListenerTypeOK, PlaceInv, Disconnect, log' = log
    PROVE  ListenerTypeOK' /\ PlaceInv'
<1>1. PICK k \in 0 .. Len(inbox) :
        /\ inbox' = SubSeq(inbox, 1, k)
        /\ missed' = missed \cup {inbox[i] : i \in k + 1 .. Len(inbox)}
  BY DEF Disconnect
<1>2. /\ UNCHANGED <<rows, request, accepted, published>>
      /\ listening' = FALSE /\ faults' = faults + 1
  BY DEF Disconnect, Fault, tableVars
<1>3. inbox \in Seq(1 .. Len(rows)) /\ Len(inbox) \in Nat
  BY DEF ListenerTypeOK
<1>4. /\ inbox' \in Seq(1 .. Len(rows)) /\ Len(inbox') = k /\ k \in Nat
      /\ \A i \in 1 .. k : i \in Nat /\ i \in 1 .. Len(inbox) /\ inbox'[i] = inbox[i]
  BY <1>1, <1>3, PrefixIds
<1>5. \A i \in k + 1 .. Len(inbox) : i \in 1 .. Len(inbox) /\ \A j \in 1 .. k : j < i
  BY <1>3, <1>4
<1>6. \A i \in 1 .. Len(inbox) : i \in 1 .. k \/ i \in k + 1 .. Len(inbox)
  BY <1>3, <1>4
<1>7. \A n : Placed(n)' <=> Placed(n)
  <2>1. ASSUME NEW n, Placed(n)  PROVE Placed(n)'
    <3>1. CASE n \in missed \/ \E i \in 1 .. Len(published) : published[i] = n
      BY <1>1, <1>2, <3>1 DEF Placed
    <3>2. ASSUME NEW i \in 1 .. Len(inbox), inbox[i] = n  PROVE Placed(n)'
      <4>1. CASE i \in 1 .. k
        BY <1>4, <3>2, <4>1 DEF Placed
      <4>2. CASE i \in k + 1 .. Len(inbox)
        BY <1>1, <3>2, <4>2 DEF Placed
      <4>. QED  BY <1>6, <4>1, <4>2
    <3>. QED  BY <2>1, <3>1, <3>2 DEF Placed
  <2>2. ASSUME NEW n, Placed(n)'  PROVE Placed(n)
    <3>1. CASE n \in missed'
      BY <1>1, <1>5, <3>1 DEF Placed
    <3>2. CASE \E i \in 1 .. Len(inbox') : inbox'[i] = n
      BY <1>4, <3>2 DEF Placed
    <3>3. CASE \E i \in 1 .. Len(published) : published[i] = n
      BY <3>3 DEF Placed
    <3>. QED  BY <1>2, <2>2, <3>1, <3>2, <3>3 DEF Placed
  <2>. QED  BY <2>1, <2>2
<1>8. ListenerTypeOK'
  <2>1. missed' \subseteq 1 .. Len(rows')
    BY <1>1, <1>2, <1>5, IdTypes DEF ListenerTypeOK
  <2>2. faults' \in Nat
    BY <1>2 DEF ListenerTypeOK
  <2>3. inbox' \in Seq(1 .. Len(rows')) /\ published' \in Seq(1 .. Len(rows'))
    BY <1>2, <1>4 DEF ListenerTypeOK
  <2>4. listening' \in BOOLEAN
    BY <1>2
  <2>. QED  BY <2>1, <2>2, <2>3, <2>4 DEF ListenerTypeOK
<1>9. WayInv'
  \* What is lost is newer in its batch than what is kept or was published.
  <2>1. ASSUME NEW i \in k + 1 .. Len(inbox), NEW j \in 1 .. k, inbox[i] = inbox[j]  PROVE FALSE
    <3>1. inbox[j] < inbox[i]
      BY <1>4, <1>5, <2>1 DEF PlaceInv, WayInv, SameBatch
    <3>2. inbox[j] \in Nat
      BY <1>4, IdTypes, RowTypes
    <3>. QED  BY <2>1, <3>1, <3>2
  <2>2. ASSUME NEW i \in k + 1 .. Len(inbox), NEW j \in 1 .. Len(published), inbox[i] = published[j]
        PROVE  FALSE
    <3>1. published[j] < inbox[i]
      BY <1>5, <2>2 DEF PlaceInv, WayInv, SameBatch
    <3>2. published[j] \in Nat
      BY IdTypes, RowTypes
    <3>. QED  BY <2>2, <3>1, <3>2
  <2>3. \A i \in 1 .. Len(inbox') : inbox'[i] \notin missed'
    BY <1>1, <1>4, <2>1 DEF PlaceInv, WayInv
  <2>4. \A i \in 1 .. Len(published) : published[i] \notin missed'
    BY <1>1, <2>2 DEF PlaceInv, WayInv
  <2>5. /\ \A i, j \in 1 .. Len(inbox') :
               i < j /\ SameBatch(inbox'[i], inbox'[j]) => inbox'[i] < inbox'[j]
        /\ \A i \in 1 .. Len(published), j \in 1 .. Len(inbox') :
               SameBatch(published[i], inbox'[j]) => published[i] < inbox'[j]
    BY <1>4 DEF PlaceInv, WayInv
  <2>. QED  BY <1>2, <2>3, <2>4, <2>5 DEF PlaceInv, WayInv, SameBatch
<1>10. PublishedInv'
  BY <1>2 DEF PlaceInv, PublishedInv
<1>. QED  BY <1>2, <1>7, <1>8, <1>9, <1>10, PlaceMove DEF PlaceInv

(***************************************************************************)
(* The chain as a whole.                                                   *)
(***************************************************************************)
SystemInv == SystemTypeOK /\ TableInv /\ PlaceInv

\* The stream goes on as AlertStream says, or nothing happens to it.
LEMMA DeliverySteps ==
    ASSUME SystemTypeOK, [SystemNext]_systemVars
    PROVE  [Next]_vars
<1>1. Listener \in Dispatchers
  BY ListenerAssumption
<1>2. CASE StreamStep
  BY <1>1, <1>2 DEF StreamStep, Next
<1>3. CASE Handle
  <2>1. inbox # << >> /\ inbox \in Seq(1 .. Len(rows))
    BY <1>3 DEF Handle, SystemTypeOK
  <2>2. Head(inbox) \in 1 .. Len(rows)
    BY <2>1, TailIds
  <2>3. rows[Head(inbox)].device \in Devices
    BY <2>2, SystemTypes, RowTypes
  <2>4. Dispatch(Listener, rows[Head(inbox)].device)
    BY <1>3 DEF Handle
  <2>. QED  BY <1>1, <2>3, <2>4 DEF Next
<1>4. CASE DeliveryStep /\ UNCHANGED vars
  BY <1>4
<1>. QED  BY <1>2, <1>3, <1>4 DEF SystemNext, systemVars

LEMMA SystemInitInv == SystemInit => SystemInv
<1>. SUFFICES ASSUME SystemInit  PROVE SystemInv
  OBVIOUS
<1>1. TypeOK
  BY TypeInit DEF SystemInit
<1>2. \A r \in Requests : request[r].next = 0 /\ request[r].last = 0
  BY DEF SystemInit, NoRequest
<1>3. /\ rows = << >> /\ accepted = {} /\ listening = FALSE /\ inbox = << >> /\ published = << >>
      /\ missed = {} /\ faults = 0 /\ log = << >>
  BY DEF SystemInit, Init
<1>4. request \in [Requests -> Request]
  BY DEF SystemInit, NoRequest, Request
<1>5. SystemTypeOK
  <2>1. \A S : << >> \in Seq(S)
    OBVIOUS
  <2>2. Len(rows) = 0 /\ rows \in Seq(AlertRow)
    BY <1>3, <2>1
  <2>3. TableTypeOK
    BY <1>2, <1>3, <1>4, <2>2 DEF TableTypeOK
  <2>4. inbox \in Seq(1 .. Len(rows)) /\ published \in Seq(1 .. Len(rows))
    BY <1>3, <2>1
  <2>5. ListenerTypeOK
    BY <1>3, <2>4 DEF ListenerTypeOK
  <2>. QED  BY <1>1, <2>3, <2>5, SystemTypes
<1>6. TableInv
  BY <1>2, <1>3 DEF TableInv, RowsInv, RequestInv, ApartRequests
<1>7. PlaceInv
  BY <1>2, <1>3 DEF PlaceInv, NotifiedInv, WayInv, AccountedInv, PublishedInv, Placed
<1>. QED  BY <1>5, <1>6, <1>7 DEF SystemInv

LEMMA SystemStep == SystemInv /\ [SystemNext]_systemVars => SystemInv'
<1>. SUFFICES ASSUME SystemInv, [SystemNext]_systemVars  PROVE SystemInv'
  OBVIOUS
<1>1. TypeOK /\ TableTypeOK /\ TableInv /\ ListenerTypeOK /\ PlaceInv
  BY SystemTypes DEF SystemInv
<1>2. TypeOK'
  BY <1>1, DeliverySteps, TypeStep DEF SystemInv
<1>. DEFINE Goal == TableTypeOK' /\ TableInv' /\ ListenerTypeOK' /\ PlaceInv'
<1>3. ASSUME UNCHANGED <<rows, request, accepted>>  PROVE TableTypeOK' /\ TableInv'
  BY <1>1, <1>3 DEF TableTypeOK, TableInv, RowsInv, RequestInv, ApartRequests
<1>4. ASSUME UNCHANGED deliveryVars, log' = log  PROVE Goal
  <2>1. ListenerTypeOK' /\ PublishedInv' /\ WayInv'
    BY <1>1, <1>4 DEF deliveryVars, tableVars, ListenerTypeOK, PlaceInv, PublishedInv, WayInv, SameBatch
  <2>2. NotifiedInv' /\ AccountedInv'
    BY <1>1, <1>4, PlaceMove DEF deliveryVars, tableVars, Placed
  <2>. QED  BY <1>3, <1>4, <2>1, <2>2 DEF deliveryVars, tableVars, PlaceInv
<1>5. ASSUME UNCHANGED systemVars  PROVE Goal
  BY <1>4, <1>5 DEF systemVars, vars
<1>6. ASSUME StreamStep, UNCHANGED deliveryVars  PROVE Goal
  <2>1. log' = log
    BY <1>6 DEF StreamStep, Subscribe, Cancel, HandlerStep, WriteAlert, Unsubscribe,
                DispatchStep, Return, Skip, TrySend, FindFull, DropOldest, BlockingSend
  <2>. QED  BY <1>4, <1>6, <2>1
<1>7. ASSUME Handle  PROVE Goal
  BY <1>1, <1>3, <1>7, PlaceHandle DEF Handle, tableVars
<1>8. ASSUME DeliveryStep, UNCHANGED vars  PROVE Goal
  <2>. USE <1>1
  <2>0. log' = log
    BY <1>8 DEF vars
  <2>1. ASSUME NEW r \in Requests, NEW dev \in Devices, NEW k \in 1 .. BatchSize, Store(r, dev, k)
        PROVE  Goal
    BY <2>0, <2>1, TableStore, PlaceStore
  <2>2. ASSUME NEW r \in Requests, Notify(r)  PROVE Goal
    BY <2>0, <2>2, TableNotify, PlaceNotify
  <2>3. ASSUME NEW r \in Requests, Abandon(r) \/ Respond(r)  PROVE Goal
    BY <2>0, <2>3, TableEnd, PlaceEnd
  <2>4. ASSUME Listen  PROVE Goal
    <3>1. ListenerTypeOK' /\ PublishedInv' /\ WayInv'
      BY <2>0, <2>4 DEF Listen, tableVars, ListenerTypeOK, PlaceInv, PublishedInv, WayInv, SameBatch
    <3>2. NotifiedInv' /\ AccountedInv'
      BY <2>4, PlaceMove DEF Listen, tableVars, Placed
    <3>. QED  BY <1>3, <2>4, <3>1, <3>2 DEF Listen, tableVars, PlaceInv
  <2>5. ASSUME LookupFails  PROVE Goal
    BY <1>3, <2>0, <2>5, PlaceLookupFails DEF LookupFails, tableVars
  <2>6. ASSUME Disconnect  PROVE Goal
    BY <1>3, <2>0, <2>6, PlaceDisconnect DEF Disconnect, tableVars
  <2>. QED  BY <1>8, <2>1, <2>2, <2>3, <2>4, <2>5, <2>6 DEF DeliveryStep
<1>9. Goal
  BY <1>5, <1>6, <1>7, <1>8 DEF SystemNext
<1>. QED  BY <1>2, <1>9 DEF SystemInv, SystemTypeOK, TableTypeOK, ListenerTypeOK

\* The types, and the invariants on the table and the ids on their way.
THEOREM SystemInvariant == SystemSpec => []SystemInv
BY SystemInitInv, SystemStep, PTL DEF SystemSpec

\* Every variable keeps its type.
THEOREM SystemTypeCorrect == SystemSpec => []SystemTypeOK
BY SystemInvariant, PTL DEF SystemInv

\* The delivery chain drives the stream as AlertStream says it may be driven.
THEOREM DeliveryImplementsStream == SystemSpec => Spec
<1>1. SystemInit => Init
  BY DEF SystemInit
<1>2. SystemInv /\ [SystemNext]_systemVars => [Next]_vars
  BY DeliverySteps DEF SystemInv
<1>. QED  BY <1>1, <1>2, SystemInvariant, PTL DEF SystemSpec, Spec

\* No alert is dispatched twice, as another alert, or after its notification was
\* counted as lost, for any number of requests and any pattern of faults.
THEOREM EachIsPublishedOnce == SystemSpec => []PublishedOnce
<1>1. SystemInv => PublishedOnce
  <2>. SUFFICES ASSUME SystemInv  PROVE PublishedOnce
    OBVIOUS
  <2>1. TableTypeOK /\ ListenerTypeOK /\ WayInv /\ PublishedInv
    BY SystemTypes DEF SystemInv, PlaceInv
  <2>2. /\ DOMAIN published = 1 .. Len(published) /\ Len(published) \in Nat
        /\ \A i \in 1 .. Len(published) : published[i] \in Nat
    BY <2>1, IdTypes, RowTypes DEF ListenerTypeOK
  <2>3. ASSUME NEW i \in 1 .. Len(published), NEW j \in 1 .. Len(published), i < j
        PROVE  published[i] # published[j]
    BY <2>1, <2>2, <2>3 DEF WayInv, SameBatch
  <2>4. \A i, j \in 1 .. Len(published) : i # j => i < j \/ j < i
    BY <2>2
  <2>5. \A i \in 1 .. Len(published) : \A j \in 1 .. Len(published) \ {i} :
          published[i] # published[j]
    BY <2>3, <2>4
  <2>. QED  BY <2>1, <2>2, <2>5 DEF WayInv, PublishedInv, PublishedOnce
<1>. QED  BY <1>1, SystemInvariant, PTL

\* Whatever other requests notify in between and whatever is lost on the way,
\* the alerts of a batch are dispatched in its order.
THEOREM BatchesInOrder == SystemSpec => []BatchInOrder
<1>1. SystemInv => BatchInOrder
  <2>. SUFFICES ASSUME SystemInv  PROVE BatchInOrder
    OBVIOUS
  <2>1. DOMAIN published = 1 .. Len(published)
    BY SystemTypes DEF SystemInv, ListenerTypeOK
  <2>. QED  BY <2>1 DEF SystemInv, PlaceInv, WayInv, SameBatch, BatchInOrder
<1>. QED  BY <1>1, SystemInvariant, PTL

\* Of every alert the device was told of, the process has kept account.
THEOREM AcceptedAreAccountedFor == SystemSpec => []AcceptedAccountedFor
<1>1. SystemInv => AcceptedAccountedFor
  <2>. SUFFICES ASSUME SystemInv  PROVE AcceptedAccountedFor
    OBVIOUS
  <2>1. DOMAIN published = 1 .. Len(published) /\ DOMAIN inbox = 1 .. Len(inbox)
    BY SystemTypes DEF SystemInv, ListenerTypeOK
  <2>. QED  BY <2>1 DEF SystemInv, PlaceInv, AccountedInv, Placed, AcceptedAccountedFor
<1>. QED  BY <1>1, SystemInvariant, PTL

\* What the stream promises a connection holds in the whole chain, where the
\* listener is the only dispatcher: its alerts are its own, in order, none twice,
\* the newest never lost, and the fan-out never waits for it.
THEOREM ConnectionsGetTheirAlerts ==
    SystemSpec => [](Isolation /\ InOrder /\ NeverBlocks /\ LostOnlyToNewer)
BY DeliveryImplementsStream, StreamIsolation, StreamOrder, BlockingSendFindsRoom,
   NewestIsKept, PTL

\* The whole chain, from the device's request to the response of a connection,
\* keeps the promise AlertFeed makes to that connection.
THEOREM DeliveryImplementsFeed == SystemSpec => ImplementsFeed
<1>1. OneDispatcher
  BY ListenerAssumption DEF OneDispatcher
<1>. QED  BY <1>1, DeliveryImplementsStream, StreamImplementsFeed, PTL
=============================================================================
