----------------------------- MODULE DevicesProofs -----------------------------
(***************************************************************************)
(* Theorems about Devices, for every number of clients, names, devices and *)
(* concurrent requests, and for every restore window.                      *)
(***************************************************************************)
EXTENDS Devices, TLAPS

LEMMA RowType ==
    ASSUME TypeOK, NEW n \in Ids
    PROVE  /\ rows[n] \in Row
           /\ rows[n].client \in Clients /\ rows[n].name \in Names
           /\ rows[n].status \in Statuses
           /\ rows[n].deletedAt \in Nat /\ rows[n].key \in Nat
<1>1. rows[n] \in Row
  BY DEF TypeOK, Ids
<1>. QED  BY <1>1 DEF Row

LEMMA LenType == TypeOK => Len(rows) \in Nat /\ 0 \notin Ids
BY DEF TypeOK, Ids

\* What a request under way holds.
LEMMA RequestType ==
    ASSUME TypeOK, NEW r \in Requests, req[r].pc # "idle"
    PROVE  /\ req[r].id \in Nat /\ req[r].row \in Row
           /\ req[r].row.client \in Clients /\ req[r].row.name \in Names
           /\ req[r].row.status \in Statuses /\ req[r].row.key \in Nat
           /\ req[r].pc # "insert" => req[r].id \in Ids
<1>1. req[r] \in Request
  BY DEF TypeOK
<1>2. req[r].id \in Nat /\ req[r].row \in Row
  BY <1>1 DEF Request
<1>3. req[r].pc # "insert" => req[r].id \in Ids
  BY DEF TypeOK
<1>. QED  BY <1>2, <1>3 DEF Row

LEMMA NewRequestType ==
    ASSUME NEW row \in Row, NEW n \in Nat,
           NEW pc \in {"insert", "rename", "update", "reclaim", "restore", "rotate"}
    PROVE  [pc |-> pc, id |-> n, row |-> row] \in Request
BY DEF Request

LEMMA NewRowType ==
    ASSUME NEW c \in Clients, NEW name \in Names, NEW status \in Statuses,
           NEW at \in Nat, NEW key \in Nat
    PROVE  [client |-> c, name |-> name, status |-> status, deletedAt |-> at, key |-> key] \in Row
BY DEF Row

LEMMA AppendRow ==
    ASSUME NEW q \in Seq(Row), NEW row \in Row
    PROVE  /\ Append(q, row) \in Seq(Row)
           /\ Len(q) \in Nat
           /\ Len(Append(q, row)) = Len(q) + 1
           /\ \A n \in 1 .. Len(q) : Append(q, row)[n] = q[n]
           /\ Append(q, row)[Len(q) + 1] = row
OBVIOUS

LEMMA ReplaceRow ==
    ASSUME NEW q \in Seq(Row), NEW row \in Row, NEW k \in 1 .. Len(q)
    PROVE  /\ [q EXCEPT ![k] = row] \in Seq(Row)
           /\ Len([q EXCEPT ![k] = row]) = Len(q)
           /\ [q EXCEPT ![k] = row][k] = row
           /\ \A n \in 1 .. Len(q) \ {k} : [q EXCEPT ![k] = row][n] = q[n]
OBVIOUS

(***************************************************************************)
(* What a step does to the table: nothing, or it appends a row, or it      *)
(* replaces one.                                                           *)
(***************************************************************************)
Appends(row) ==
    /\ rows' = Append(rows, row)
    /\ rows' \in Seq(Row) /\ Len(rows') = Len(rows) + 1
    /\ \A n \in Ids : rows'[n] = rows[n]
    /\ rows'[Len(rows) + 1] = row

Replaces(k, row) ==
    /\ k \in Ids
    /\ rows' = [rows EXCEPT ![k] = row]
    /\ rows' \in Seq(Row) /\ Len(rows') = Len(rows)
    /\ rows'[k] = row
    /\ \A n \in Ids \ {k} : rows'[n] = rows[n]

LEMMA ReplaceEffect ==
    ASSUME TypeOK, NEW k \in Ids, NEW row \in Row, rows' = [rows EXCEPT ![k] = row]
    PROVE  Replaces(k, row)
BY ReplaceRow DEF Replaces, TypeOK, Ids

LEMMA CreateEffect ==
    ASSUME TypeOK, NEW r \in Requests, Create(r)
    PROVE  /\ Appends(req[r].row)
           /\ req[r].row.deletedAt = 0 =>
                  ~NameTaken(req[r].row.client, req[r].row.name, 0)
<1>1. req[r].row \in Row
  BY RequestType DEF Create
<1>2. rows' = Append(rows, req[r].row)
  BY LenType DEF Create, Write
<1>3. Appends(req[r].row)
  BY <1>1, <1>2, AppendRow DEF Appends, TypeOK, Ids
<1>. QED  BY <1>3 DEF Create, Write

\* Update keeps client, deletedAt and key of the row as it is.
LEMMA UpdateEffect ==
    ASSUME TypeOK, NEW r \in Requests, Update(r)
    PROVE  \E row \in Row :
              /\ Replaces(req[r].id, row)
              /\ row.client = rows[req[r].id].client
              /\ row.deletedAt = rows[req[r].id].deletedAt
              /\ row.key = rows[req[r].id].key
              /\ row.deletedAt = 0 => ~NameTaken(row.client, row.name, req[r].id)
<1>. DEFINE k == req[r].id
            row == [client |-> rows[k].client, name |-> req[r].row.name,
                    status |-> req[r].row.status, deletedAt |-> rows[k].deletedAt,
                    key |-> rows[k].key]
<1>1. k \in Ids
  BY RequestType DEF Update
<1>2. row \in Row
  BY <1>1, RowType, RequestType, NewRowType DEF Update
<1>3. Write(r, k, row)
  BY DEF Update
<1>4. /\ row.client = rows[k].client /\ row.deletedAt = rows[k].deletedAt
      /\ row.key = rows[k].key
  OBVIOUS
<1>. HIDE DEF row
<1>5. Replaces(k, row)
  BY <1>1, <1>2, <1>3, ReplaceEffect DEF Write
<1>. QED  BY <1>2, <1>3, <1>4, <1>5 DEF Write

LEMMA RestoreEffect ==
    ASSUME TypeOK, NEW r \in Requests, Restore(r)
    PROVE  \E row \in Row :
              /\ Replaces(req[r].id, row)
              /\ row.client = rows[req[r].id].client
              /\ row.key = rows[req[r].id].key
              /\ row.deletedAt = 0
              /\ ~NameTaken(row.client, row.name, req[r].id)
<1>. DEFINE k == req[r].id
            row == [client |-> rows[k].client, name |-> rows[k].name,
                    status |-> "inactive", deletedAt |-> 0, key |-> rows[k].key]
<1>1. k \in Ids
  BY RequestType DEF Restore
<1>2. row \in Row
  BY <1>1, RowType, NewRowType, StatusAssumption
<1>3. Write(r, k, row)
  BY DEF Restore
<1>4. row.client = rows[k].client /\ row.deletedAt = 0 /\ row.key = rows[k].key
  OBVIOUS
<1>. HIDE DEF row
<1>5. Replaces(k, row)
  BY <1>1, <1>2, <1>3, ReplaceEffect DEF Write
<1>. QED  BY <1>2, <1>3, <1>4, <1>5 DEF Write

LEMMA UpdateAPIKeyHashEffect ==
    ASSUME TypeOK, NEW r \in Requests, UpdateAPIKeyHash(r)
    PROVE  \E row \in Row :
              /\ Replaces(req[r].id, row)
              /\ row.client = rows[req[r].id].client
              /\ row.name = rows[req[r].id].name
              /\ row.deletedAt = rows[req[r].id].deletedAt
              /\ row.key = req[r].row.key
<1>. DEFINE k == req[r].id
            row == [client |-> rows[k].client, name |-> rows[k].name,
                    status |-> rows[k].status, deletedAt |-> rows[k].deletedAt,
                    key |-> req[r].row.key]
<1>1. k \in Ids
  BY RequestType DEF UpdateAPIKeyHash
<1>2. row \in Row
  BY <1>1, RowType, RequestType, NewRowType DEF UpdateAPIKeyHash
<1>3. rows' = [rows EXCEPT ![k] = row]
  BY DEF UpdateAPIKeyHash
<1>4. /\ row.client = rows[k].client /\ row.name = rows[k].name
      /\ row.deletedAt = rows[k].deletedAt /\ row.key = req[r].row.key
  OBVIOUS
<1>. HIDE DEF row
<1>. QED  BY <1>1, <1>2, <1>3, <1>4, ReplaceEffect

LEMMA DeleteDeviceEffect ==
    ASSUME TypeOK, NEW k \in Ids, DeleteDevice(k)
    PROVE  \E row \in Row :
              /\ Replaces(k, row)
              /\ row.client = rows[k].client /\ row.name = rows[k].name
              /\ row.key = rows[k].key
              /\ row.deletedAt # 0
              /\ rows[k].deletedAt # 0 => row.deletedAt = rows[k].deletedAt
<1>. DEFINE at == IF IsDeleted(k) THEN rows[k].deletedAt ELSE now
            row == [client |-> rows[k].client, name |-> rows[k].name,
                    status |-> rows[k].status, deletedAt |-> at, key |-> rows[k].key]
<1>1. at \in Nat /\ at # 0 /\ (rows[k].deletedAt # 0 => at = rows[k].deletedAt)
  BY RowType DEF IsDeleted, TypeOK
<1>. HIDE DEF at
<1>2. row \in Row
  BY <1>1, RowType, NewRowType
<1>3. rows' = [rows EXCEPT ![k] = row]
  BY DEF DeleteDevice, at
<1>4. /\ row.client = rows[k].client /\ row.name = rows[k].name
      /\ row.key = rows[k].key /\ row.deletedAt = at
  OBVIOUS
<1>. HIDE DEF row
<1>. QED  BY <1>1, <1>2, <1>3, <1>4, ReplaceEffect

(***************************************************************************)
(* Type correctness.                                                       *)
(***************************************************************************)
LEMMA StartType ==
    ASSUME TypeOK, NEW r \in Requests, NEW n \in Nat, NEW row \in Row,
           NEW pc \in {"insert", "rename", "update", "reclaim", "restore", "rotate"},
           pc = "insert" \/ n \in Ids,
           Start(r, pc, n, row), keys' \in {keys, keys + 1}
    PROVE  TypeOK'
<1>1. [pc |-> pc, id |-> n, row |-> row] \in Request
  BY NewRequestType
<1>2. req' \in [Requests -> Request]
  BY <1>1 DEF Start, TypeOK
<1>3. \A q \in Requests : req'[q].pc \notin {"idle", "insert"} => req'[q].id \in Ids
  BY DEF Start, TypeOK
<1>4. rows' = rows /\ now' = now /\ dead' = dead /\ expired' = expired /\ Ids' = Ids
  BY DEF Start, Ids
<1>5. keys' \in Nat
  BY DEF TypeOK
<1>. QED  BY <1>2, <1>3, <1>4, <1>5 DEF TypeOK

LEMMA FinishType ==
    ASSUME TypeOK, NEW r \in Requests, Finish(r)
    PROVE  /\ req' \in [Requests -> Request]
           /\ req'[r].pc = "idle" /\ \A q \in Requests \ {r} : req'[q] = req[q]
           /\ \A q \in Requests : req'[q].pc \notin {"idle", "insert"} => req'[q].id \in Ids
<1>1. Idle \in Request /\ Idle.pc = "idle"
  BY DEF Idle, Request
<1>. QED  BY <1>1 DEF Finish, TypeOK

LEMMA TypeStep == TypeOK /\ [Next]_vars => TypeOK'
<1>. SUFFICES ASSUME TypeOK, [Next]_vars  PROVE TypeOK'
  OBVIOUS
<1>0. Len(rows) \in Nat /\ 0 \in Nat /\ Ids \subseteq Nat
  BY LenType DEF Ids
<1>1. CASE UNCHANGED vars
  BY <1>1 DEF vars, TypeOK, Ids
<1>2. ASSUME NEW r \in Requests, Read(r)  PROVE TypeOK'
  <2>1. ASSUME NEW c \in Clients, NEW name \in Names, NEW status \in Statuses,
               CreateDevice(r, c, name, status)  PROVE TypeOK'
    <3>1. [client |-> c, name |-> name, status |-> status,
           deletedAt |-> 0, key |-> keys + 1] \in Row
      BY NewRowType DEF TypeOK
    <3>. QED  BY <1>0, <2>1, <3>1, StartType DEF CreateDevice
  <2>2. ASSUME NEW n \in Ids, NEW status \in Statuses, NEW name \in Names,
               Rename(r, n, name, status)  PROVE TypeOK'
    <3>1. [client |-> rows[n].client, name |-> name, status |-> status,
           deletedAt |-> 0, key |-> rows[n].key] \in Row
      BY RowType, NewRowType
    <3>. QED  BY <1>0, <2>2, <3>1, StartType DEF Rename
  <2>3. ASSUME NEW n \in Ids, NEW status \in Statuses, SetStatus(r, n, status)  PROVE TypeOK'
    <3>1. [client |-> rows[n].client, name |-> rows[n].name, status |-> status,
           deletedAt |-> 0, key |-> rows[n].key] \in Row
      BY RowType, NewRowType
    <3>. QED  BY <1>0, <2>3, <3>1, StartType DEF SetStatus
  <2>4. ASSUME NEW n \in Ids, RestoreDevice(r, n)  PROVE TypeOK'
    BY <1>0, <2>4, RowType, StartType DEF RestoreDevice
  <2>5. ASSUME NEW n \in Ids, RotateAPIKey(r, n)  PROVE TypeOK'
    <3>1. [client |-> rows[n].client, name |-> rows[n].name, status |-> rows[n].status,
           deletedAt |-> 0, key |-> keys + 1] \in Row
      <4>1. keys + 1 \in Nat
        BY DEF TypeOK
      <4>. QED  BY <1>0, <4>1, RowType, NewRowType
    <3>. QED  BY <1>0, <2>5, <3>1, StartType DEF RotateAPIKey
  <2>. QED  BY <1>2, <2>1, <2>2, <2>3, <2>4, <2>5 DEF Read
<1>3. ASSUME NEW r \in Requests, CheckName(r)  PROVE TypeOK'
  <2>1. /\ req[r].row \in Row /\ req[r].id \in Nat /\ req[r].id \in Ids
    BY <1>3, RequestType DEF CheckName
  <2>2. \A pc \in {"update", "restore"} :
          [pc |-> pc, id |-> req[r].id, row |-> req[r].row] \in Request
    BY <2>1, NewRequestType
  <2>3. Idle \in Request /\ Idle.pc = "idle"
    BY DEF Idle, Request
  <2>4. req' = [req EXCEPT ![r] = Idle] \/
        \E pc \in {"update", "restore"} :
            req' = [req EXCEPT ![r] = [pc |-> pc, id |-> req[r].id, row |-> req[r].row]]
    BY <1>3 DEF CheckName
  <2>5. req' \in [Requests -> Request]
    BY <2>2, <2>3, <2>4 DEF TypeOK
  <2>6. \A q \in Requests : req'[q].pc \notin {"idle", "insert"} => req'[q].id \in Ids
    BY <2>1, <2>3, <2>4 DEF TypeOK
  <2>. QED  BY <1>3, <2>5, <2>6 DEF CheckName, TypeOK, Ids
<1>4. ASSUME NEW r \in Requests, Create(r)  PROVE TypeOK'
  <2>1. /\ rows' \in Seq(Row) /\ Ids \subseteq Ids'
    BY <1>0, <1>4, CreateEffect DEF Appends, Ids
  <2>. QED  BY <1>4, <2>1, FinishType DEF Create, Write, TypeOK
<1>5. ASSUME NEW r \in Requests, Update(r) \/ Restore(r)  PROVE TypeOK'
  <2>1. /\ rows' \in Seq(Row) /\ Ids' = Ids
    BY <1>5, UpdateEffect, RestoreEffect DEF Replaces, Ids
  <2>2. Finish(r) /\ UNCHANGED <<now, keys, dead, expired>>
    BY <1>5 DEF Update, Restore, Write
  <2>. QED  BY <2>1, <2>2, FinishType DEF TypeOK
<1>6. ASSUME NEW r \in Requests, UpdateAPIKeyHash(r)  PROVE TypeOK'
  <2>1. /\ rows' \in Seq(Row) /\ Ids' = Ids
    BY <1>6, UpdateAPIKeyHashEffect DEF Replaces, Ids
  <2>2. Finish(r) /\ UNCHANGED <<now, keys, expired>>
    BY <1>6 DEF UpdateAPIKeyHash
  <2>3. dead' \subseteq Nat
    <3>1. req[r].id \in Ids
      BY <1>6, RequestType DEF UpdateAPIKeyHash
    <3>. QED  BY <1>6, <3>1, RowType DEF UpdateAPIKeyHash, TypeOK
  <2>. QED  BY <2>1, <2>2, <2>3, FinishType DEF TypeOK
<1>7. ASSUME NEW r \in Requests, Fail(r)  PROVE TypeOK'
  BY <1>7, FinishType DEF Fail, TypeOK, Ids
<1>8. ASSUME NEW n \in Ids, DeleteDevice(n)  PROVE TypeOK'
  <2>1. /\ rows' \in Seq(Row) /\ Ids' = Ids
    BY <1>8, DeleteDeviceEffect DEF Replaces, Ids
  <2>. QED  BY <1>8, <2>1 DEF DeleteDevice, TypeOK
<1>9. CASE Tick
  <2>1. now' \in Nat \ {0} /\ expired' \subseteq Ids
    BY <1>9 DEF Tick, TypeOK
  <2>. QED  BY <1>9, <2>1 DEF Tick, TypeOK, Ids
<1>. QED  BY <1>1, <1>2, <1>3, <1>4, <1>5, <1>6, <1>7, <1>8, <1>9 DEF Next

\* Every variable keeps its type; in particular every request that is about to
\* write to a device writes to a stored row.
THEOREM TypeCorrect == Spec => []TypeOK
<1>1. Init => TypeOK
  BY DEF Init, TypeOK, Ids, Idle, Request
<1>. QED  BY <1>1, TypeStep, PTL DEF Spec

(***************************************************************************)
(* Names.                                                                  *)
(***************************************************************************)
\* A row is replaced by one whose name is free, or deleted, or what it was.
LEMMA UniqueReplaced ==
    ASSUME TypeOK, NamesUnique, NEW k, NEW row \in Row, Replaces(k, row),
           \/ ~NameTaken(row.client, row.name, k)
           \/ row.deletedAt # 0
           \/ /\ row.client = rows[k].client /\ row.name = rows[k].name
              /\ rows[k].deletedAt = 0
    PROVE  NamesUnique'
<1>1. Ids' = Ids
  BY DEF Replaces, Ids
<1>. SUFFICES ASSUME NEW m \in Ids, NEW n \in Ids, m # n,
                     rows'[m].deletedAt = 0, rows'[n].deletedAt = 0,
                     rows'[m].client = rows'[n].client, rows'[m].name = rows'[n].name
              PROVE  FALSE
  BY <1>1 DEF NamesUnique, IsDeleted
<1>2. CASE m # k /\ n # k
  BY <1>2 DEF Replaces, NamesUnique, IsDeleted
<1>3. CASE m = k \/ n = k
  <2>1. PICK j \in Ids \ {k} :
            /\ rows[j].deletedAt = 0 /\ row.deletedAt = 0
            /\ rows[j].client = row.client /\ rows[j].name = row.name
    BY <1>3 DEF Replaces
  <2>. QED  BY <2>1 DEF NameTaken, NamesUnique, IsDeleted, Replaces
<1>. QED  BY <1>2, <1>3

LEMMA UniqueAppended ==
    ASSUME TypeOK, NamesUnique, NEW row \in Row, Appends(row),
           row.deletedAt = 0 => ~NameTaken(row.client, row.name, 0)
    PROVE  NamesUnique'
<1>1. Len(rows) \in Nat /\ Ids' = Ids \cup {Len(rows) + 1} /\ Len(rows) + 1 \notin Ids
  BY LenType DEF Appends, Ids
<1>. SUFFICES ASSUME NEW m \in Ids', NEW n \in Ids', m # n,
                     rows'[m].deletedAt = 0, rows'[n].deletedAt = 0,
                     rows'[m].client = rows'[n].client, rows'[m].name = rows'[n].name
              PROVE  FALSE
  BY DEF NamesUnique, IsDeleted
<1>2. CASE m \in Ids /\ n \in Ids
  BY <1>2 DEF Appends, NamesUnique, IsDeleted
<1>3. CASE m \notin Ids \/ n \notin Ids
  <2>1. PICK j \in Ids :
            /\ rows[j].deletedAt = 0 /\ row.deletedAt = 0
            /\ rows[j].client = row.client /\ rows[j].name = row.name
    BY <1>1, <1>3 DEF Appends
  <2>2. j # 0
    BY <2>1 DEF Ids
  <2>. QED  BY <2>1, <2>2 DEF NameTaken, IsDeleted
<1>. QED  BY <1>2, <1>3

LEMMA UniqueStep == TypeOK /\ NamesUnique /\ [Next]_vars => NamesUnique'
<1>. SUFFICES ASSUME TypeOK, NamesUnique, [Next]_vars  PROVE NamesUnique'
  OBVIOUS
<1>1. CASE rows' = rows
  BY <1>1 DEF NamesUnique, IsDeleted, Ids
<1>2. ASSUME NEW r \in Requests, Create(r)  PROVE NamesUnique'
  <2>1. req[r].row \in Row
    BY <1>2, RequestType DEF Create
  <2>. QED  BY <1>2, <2>1, CreateEffect, UniqueAppended
<1>3. ASSUME NEW r \in Requests, Update(r)  PROVE NamesUnique'
  BY <1>3, UpdateEffect, UniqueReplaced
<1>4. ASSUME NEW r \in Requests, Restore(r)  PROVE NamesUnique'
  BY <1>4, RestoreEffect, UniqueReplaced
<1>5. ASSUME NEW r \in Requests, UpdateAPIKeyHash(r)  PROVE NamesUnique'
  BY <1>5, UpdateAPIKeyHashEffect, UniqueReplaced
<1>6. ASSUME NEW n \in Ids, DeleteDevice(n)  PROVE NamesUnique'
  BY <1>6, DeleteDeviceEffect, UniqueReplaced
<1>7. ASSUME NEW r \in Requests, Read(r) \/ CheckName(r) \/ Fail(r)  PROVE rows' = rows
  BY <1>7 DEF Read, CreateDevice, Rename, SetStatus, RestoreDevice, RotateAPIKey, Start,
              CheckName, Fail
<1>. QED  BY <1>1, <1>2, <1>3, <1>4, <1>5, <1>6, <1>7 DEF Next, vars, Tick

\* At no time has a client two devices of one name that are not deleted,
\* however its creations, patches, deletions and restores interleave.
THEOREM LiveNamesAreUnique == Spec => []NamesUnique
<1>1. Init => NamesUnique
  BY DEF Init, NamesUnique, Ids
<1>. QED  BY <1>1, TypeCorrect, UniqueStep, PTL DEF Spec

(***************************************************************************)
(* Keys.                                                                   *)
(*                                                                         *)
(* A key about to be stored is in no row, is not dead, and is stored by no *)
(* other request: only then can the step that stores it kill the old one.  *)
(***************************************************************************)
\* Request r has generated a key and not stored it.
Holds(r) == req[r].pc \in {"insert", "rotate"}

KeysInv ==
    /\ dead \subseteq 1 .. keys
    /\ \A n \in Ids : /\ rows[n].key \in 1 .. keys /\ rows[n].key \notin dead
                      /\ \A m \in Ids \ {n} : rows[m].key # rows[n].key
    /\ \A r \in Requests : Holds(r) =>
           /\ req[r].row.key \in 1 .. keys /\ req[r].row.key \notin dead
           /\ \A n \in Ids : rows[n].key # req[r].row.key
           /\ \A q \in Requests \ {r} : Holds(q) => req[q].row.key # req[r].row.key

\* A request starts, with a new key if it will store one.
LEMMA KeysStart ==
    ASSUME TypeOK, KeysInv, NEW r \in Requests, NEW pc, NEW n, NEW row,
           Start(r, pc, n, row),
           \/ pc \in {"insert", "rotate"} /\ keys' = keys + 1 /\ row.key = keys + 1
           \/ pc \notin {"insert", "rotate"} /\ keys' = keys
    PROVE  KeysInv'
<1>1. /\ rows' = rows /\ Ids' = Ids /\ dead' = dead
      /\ req'[r].pc = pc /\ req'[r].row = row
      /\ \A q \in Requests \ {r} : req'[q] = req[q]
  BY DEF Start, TypeOK, Ids
<1>2. keys \in Nat /\ keys' \in Nat /\ keys <= keys'
  BY DEF TypeOK
<1>3. dead' \subseteq 1 .. keys'
  BY <1>1, <1>2 DEF KeysInv
<1>4. \A m \in Ids' : /\ rows'[m].key \in 1 .. keys' /\ rows'[m].key \notin dead'
                      /\ \A k \in Ids' \ {m} : rows'[k].key # rows'[m].key
  BY <1>1, <1>2 DEF KeysInv
<1>5. ASSUME NEW q \in Requests, Holds(q)'
      PROVE  /\ req'[q].row.key \in 1 .. keys' /\ req'[q].row.key \notin dead'
             /\ \A m \in Ids' : rows'[m].key # req'[q].row.key
             /\ \A p \in Requests \ {q} : Holds(p)' => req'[p].row.key # req'[q].row.key
  BY <1>1, <1>2, <1>5 DEF KeysInv, Holds
<1>. QED  BY <1>3, <1>4, <1>5 DEF KeysInv

\* No row gets another key, and no request holds one that it did not hold.
LEMMA KeysQuiet ==
    ASSUME TypeOK, KeysInv, keys' = keys, dead' = dead, Ids' = Ids,
           \A n \in Ids : rows'[n].key = rows[n].key,
           \A r \in Requests : Holds(r)' => Holds(r) /\ req'[r] = req[r]
    PROVE  KeysInv'
<1>1. \A r \in Requests : Holds(r)' =>
         /\ req'[r].row.key \in 1 .. keys /\ req'[r].row.key \notin dead
         /\ \A n \in Ids : rows'[n].key # req'[r].row.key
         /\ \A q \in Requests \ {r} : Holds(q)' => req'[q].row.key # req'[r].row.key
  BY DEF KeysInv
<1>. QED  BY <1>1 DEF KeysInv

LEMMA FinishHolds ==
    ASSUME TypeOK, NEW r \in Requests, Finish(r)
    PROVE  /\ ~Holds(r)'
           /\ \A q \in Requests \ {r} : req'[q] = req[q]
           /\ \A q \in Requests : Holds(q)' => Holds(q) /\ req'[q] = req[q]
BY FinishType DEF Holds

\* Request r stores the key it holds in a new row.
LEMMA KeysAppended ==
    ASSUME TypeOK, KeysInv, NEW r \in Requests, Holds(r), Appends(req[r].row), Finish(r),
           keys' = keys, dead' = dead
    PROVE  KeysInv'
<1>1. /\ Ids' = Ids \cup {Len(rows) + 1} /\ Len(rows) + 1 \notin Ids
      /\ rows'[Len(rows) + 1] = req[r].row
      /\ \A n \in Ids : rows'[n] = rows[n]
  BY LenType DEF Appends, Ids
<1>2. \A n \in Ids' : /\ rows'[n].key \in 1 .. keys /\ rows'[n].key \notin dead
                      /\ \A m \in Ids' \ {n} : rows'[m].key # rows'[n].key
  BY <1>1 DEF KeysInv
<1>3. \A q \in Requests : Holds(q)' =>
         /\ req'[q].row.key \in 1 .. keys /\ req'[q].row.key \notin dead
         /\ \A n \in Ids' : rows'[n].key # req'[q].row.key
         /\ \A p \in Requests \ {q} : Holds(p)' => req'[p].row.key # req'[q].row.key
  BY <1>1, FinishHolds DEF KeysInv
<1>. QED  BY <1>2, <1>3 DEF KeysInv

\* Request r puts the key it holds in place of the one in row k.
LEMMA KeysReplaced ==
    ASSUME TypeOK, KeysInv, NEW r \in Requests, Holds(r), Finish(r),
           NEW k, NEW row, Replaces(k, row), row.key = req[r].row.key,
           keys' = keys, dead' = dead \cup {rows[k].key}
    PROVE  KeysInv'
<1>1. /\ Ids' = Ids /\ k \in Ids /\ rows'[k] = row
      /\ \A n \in Ids \ {k} : rows'[n] = rows[n]
  BY DEF Replaces, Ids
<1>2. \A n \in Ids : /\ rows'[n].key \in 1 .. keys /\ rows'[n].key \notin dead'
                     /\ \A m \in Ids \ {n} : rows'[m].key # rows'[n].key
  BY <1>1 DEF KeysInv
<1>3. \A q \in Requests : Holds(q)' =>
         /\ req'[q].row.key \in 1 .. keys /\ req'[q].row.key \notin dead'
         /\ \A n \in Ids : rows'[n].key # req'[q].row.key
         /\ \A p \in Requests \ {q} : Holds(p)' => req'[p].row.key # req'[q].row.key
  BY <1>1, FinishHolds DEF KeysInv
<1>. QED  BY <1>1, <1>2, <1>3 DEF KeysInv

LEMMA KeysStep == TypeOK /\ KeysInv /\ [Next]_vars => KeysInv'
<1>. SUFFICES ASSUME TypeOK, KeysInv, [Next]_vars  PROVE KeysInv'
  OBVIOUS
<1>1. CASE UNCHANGED vars \/ Tick
  BY <1>1, KeysQuiet DEF vars, Tick, Ids, Holds
<1>2. ASSUME NEW r \in Requests, Read(r)  PROVE KeysInv'
  <2>1. ASSUME NEW c \in Clients, NEW name \in Names, NEW status \in Statuses,
               CreateDevice(r, c, name, status)  PROVE KeysInv'
    <3>1. PICK row \in {[client |-> c, name |-> name, status |-> status,
                         deletedAt |-> 0, key |-> keys + 1]} : Start(r, "insert", 0, row)
      BY <2>1 DEF CreateDevice
    <3>. QED  BY <2>1, <3>1, KeysStart DEF CreateDevice
  <2>2. ASSUME NEW n \in Ids, NEW status \in Statuses, NEW name \in Names,
               Rename(r, n, name, status)  PROVE KeysInv'
    BY <2>2, KeysStart DEF Rename
  <2>3. ASSUME NEW n \in Ids, NEW status \in Statuses, SetStatus(r, n, status)  PROVE KeysInv'
    BY <2>3, KeysStart DEF SetStatus
  <2>4. ASSUME NEW n \in Ids, RestoreDevice(r, n)  PROVE KeysInv'
    BY <2>4, KeysStart DEF RestoreDevice
  <2>5. ASSUME NEW n \in Ids, RotateAPIKey(r, n)  PROVE KeysInv'
    <3>1. PICK row \in {[client |-> rows[n].client, name |-> rows[n].name,
                         status |-> rows[n].status, deletedAt |-> 0, key |-> keys + 1]} :
             Start(r, "rotate", n, row)
      BY <2>5 DEF RotateAPIKey
    <3>. QED  BY <2>5, <3>1, KeysStart DEF RotateAPIKey
  <2>. QED  BY <1>2, <2>1, <2>2, <2>3, <2>4, <2>5 DEF Read
<1>3. ASSUME NEW r \in Requests, CheckName(r)  PROVE KeysInv'
  <2>1. ~Holds(r)' /\ \A q \in Requests \ {r} : req'[q] = req[q]
    BY <1>3 DEF CheckName, Holds, Idle, TypeOK
  <2>. QED  BY <1>3, <2>1, KeysQuiet DEF CheckName, Ids, Holds
<1>4. ASSUME NEW r \in Requests, Create(r)  PROVE KeysInv'
  BY <1>4, CreateEffect, KeysAppended DEF Create, Write, Holds
<1>5. ASSUME NEW r \in Requests, Update(r) \/ Restore(r)  PROVE KeysInv'
  <2>1. Ids' = Ids /\ \A n \in Ids : rows'[n].key = rows[n].key
    BY <1>5, UpdateEffect, RestoreEffect DEF Replaces, Ids
  <2>2. Finish(r) /\ keys' = keys /\ dead' = dead
    BY <1>5 DEF Update, Restore, Write
  <2>. QED  BY <2>1, <2>2, FinishHolds, KeysQuiet
<1>6. ASSUME NEW r \in Requests, UpdateAPIKeyHash(r)  PROVE KeysInv'
  <2>1. /\ Finish(r) /\ Holds(r) /\ keys' = keys
        /\ dead' = dead \cup {rows[req[r].id].key}
    BY <1>6 DEF UpdateAPIKeyHash, Holds
  <2>. QED  BY <1>6, <2>1, UpdateAPIKeyHashEffect, KeysReplaced
<1>7. ASSUME NEW r \in Requests, Fail(r)  PROVE KeysInv'
  BY <1>7, FinishHolds, KeysQuiet DEF Fail, Ids
<1>8. ASSUME NEW n \in Ids, DeleteDevice(n)  PROVE KeysInv'
  <2>1. Ids' = Ids /\ \A m \in Ids : rows'[m].key = rows[m].key
    BY <1>8, DeleteDeviceEffect DEF Replaces, Ids
  <2>. QED  BY <1>8, <2>1, KeysQuiet DEF DeleteDevice, Holds
<1>. QED  BY <1>1, <1>2, <1>3, <1>4, <1>5, <1>6, <1>7, <1>8 DEF Next

\* A key that was rotated away is in no row ever after, and no two devices share
\* one, so a device key authenticates one device, and a dead one authenticates none.
THEOREM RotatedKeysStayDead == Spec => []KeysStayDead
<1>1. Init => KeysInv
  BY DEF Init, KeysInv, Ids, Holds, Idle
<1>2. KeysInv => KeysStayDead
  BY DEF KeysInv, KeysStayDead
<1>. QED  BY <1>1, <1>2, TypeCorrect, KeysStep, PTL DEF Spec

(***************************************************************************)
(* Closed windows.                                                         *)
(***************************************************************************)
ExpiredInv ==
    /\ expired \subseteq Ids
    /\ \A n \in expired : rows[n].deletedAt # 0 /\ rows[n].deletedAt + Window < now
    /\ \A r \in Requests : req[r].pc \in {"reclaim", "restore"} => req[r].id \notin expired

\* The devices of expired keep the time of their deletion, and no request gets
\* to restoring a device that it was not restoring before.
LEMMA ExpiredQuiet ==
    ASSUME TypeOK, ExpiredInv, expired' = expired, now' = now, Ids \subseteq Ids',
           \A n \in expired : rows'[n].deletedAt = rows[n].deletedAt,
           \A r \in Requests : req'[r].pc \in {"reclaim", "restore"} =>
               req[r].pc \in {"reclaim", "restore"} /\ req'[r].id = req[r].id
    PROVE  ExpiredInv'
BY DEF ExpiredInv

LEMMA ExpiredStep == TypeOK /\ ExpiredInv /\ [Next]_vars => ExpiredInv'
<1>. SUFFICES ASSUME TypeOK, ExpiredInv, [Next]_vars  PROVE ExpiredInv'
  OBVIOUS
<1>0. Len(rows) \in Nat /\ Window \in Nat /\ now \in Nat
  BY LenType, BoundAssumption DEF TypeOK
<1>1. CASE UNCHANGED vars
  BY <1>1 DEF vars, ExpiredInv, Ids
<1>2. CASE Tick
  <2>1. \A n \in Ids : rows[n].deletedAt \in Nat
    BY RowType
  <2>2. \A n \in expired' :
          /\ n \in Ids /\ rows[n].deletedAt # 0 /\ rows[n].deletedAt + Window < now + 1
          /\ n \in expired \/ ~Restoring(n)
    BY <1>0, <1>2, <2>1 DEF Tick, ExpiredInv, IsDeleted
  <2>. QED  BY <1>2, <2>2 DEF Tick, ExpiredInv, Restoring, Ids
<1>3. ASSUME NEW r \in Requests, NEW pc, NEW n, NEW row, Start(r, pc, n, row),
             pc # "restore", pc = "reclaim" => n \notin expired
      PROVE  ExpiredInv'
  <2>1. /\ req'[r].pc = pc /\ req'[r].id = n
        /\ \A q \in Requests \ {r} : req'[q] = req[q]
        /\ rows' = rows /\ now' = now /\ expired' = expired /\ Ids' = Ids
    BY <1>3 DEF Start, TypeOK, Ids
  <2>. QED  BY <1>3, <2>1 DEF ExpiredInv
<1>4. ASSUME NEW r \in Requests, Read(r)  PROVE ExpiredInv'
  <2>1. ASSUME NEW n \in Ids, RestoreDevice(r, n)  PROVE ExpiredInv'
    <3>1. n \notin expired
      BY <1>0, <2>1, RowType DEF RestoreDevice, ExpiredInv
    <3>. QED  BY <1>3, <2>1, <3>1 DEF RestoreDevice
  <2>2. ASSUME NEW c \in Clients, NEW name \in Names, NEW status \in Statuses,
               CreateDevice(r, c, name, status)  PROVE ExpiredInv'
    BY <1>3, <2>2 DEF CreateDevice
  <2>3. ASSUME NEW n \in Ids, NEW status \in Statuses, NEW name \in Names,
               Rename(r, n, name, status)  PROVE ExpiredInv'
    BY <1>3, <2>3 DEF Rename
  <2>4. ASSUME NEW n \in Ids, NEW status \in Statuses, SetStatus(r, n, status)  PROVE ExpiredInv'
    BY <1>3, <2>4 DEF SetStatus
  <2>5. ASSUME NEW n \in Ids, RotateAPIKey(r, n)  PROVE ExpiredInv'
    BY <1>3, <2>5 DEF RotateAPIKey
  <2>. QED  BY <1>4, <2>1, <2>2, <2>3, <2>4, <2>5 DEF Read
<1>5. ASSUME NEW r \in Requests, CheckName(r)  PROVE ExpiredInv'
  <2>1. req'[r].pc \in {"reclaim", "restore"} =>
            req[r].pc \in {"reclaim", "restore"} /\ req'[r].id = req[r].id
    BY <1>5 DEF CheckName, Idle, TypeOK
  <2>2. \A q \in Requests \ {r} : req'[q] = req[q]
    BY <1>5 DEF CheckName, TypeOK
  <2>. QED  BY <1>5, <2>1, <2>2, ExpiredQuiet DEF CheckName, Ids
<1>6. ASSUME NEW r \in Requests, Create(r)  PROVE ExpiredInv'
  <2>1. Ids \subseteq Ids' /\ \A n \in expired : rows'[n].deletedAt = rows[n].deletedAt
    BY <1>0, <1>6, CreateEffect DEF Appends, ExpiredInv, Ids
  <2>. QED  BY <1>6, <2>1, FinishType, ExpiredQuiet DEF Create, Write
<1>7. ASSUME NEW r \in Requests, Update(r) \/ UpdateAPIKeyHash(r)  PROVE ExpiredInv'
  <2>1. Ids' = Ids /\ \A n \in Ids : rows'[n].deletedAt = rows[n].deletedAt
    BY <1>7, UpdateEffect, UpdateAPIKeyHashEffect DEF Replaces, Ids
  <2>2. Finish(r) /\ now' = now /\ expired' = expired
    BY <1>7 DEF Update, UpdateAPIKeyHash, Write
  <2>. QED  BY <2>1, <2>2, FinishType, ExpiredQuiet DEF ExpiredInv
<1>8. ASSUME NEW r \in Requests, Restore(r)  PROVE ExpiredInv'
  <2>1. req[r].id \notin expired
    BY <1>8 DEF Restore, ExpiredInv
  <2>2. Ids' = Ids /\ \A n \in expired : rows'[n].deletedAt = rows[n].deletedAt
    BY <1>8, <2>1, RestoreEffect DEF Replaces, ExpiredInv, Ids
  <2>. QED  BY <1>8, <2>2, FinishType, ExpiredQuiet DEF Restore, Write
<1>9. ASSUME NEW r \in Requests, Fail(r)  PROVE ExpiredInv'
  BY <1>9, FinishType, ExpiredQuiet DEF Fail, Ids
<1>10. ASSUME NEW n \in Ids, DeleteDevice(n)  PROVE ExpiredInv'
  <2>1. Ids' = Ids /\ \A m \in expired : rows'[m].deletedAt = rows[m].deletedAt
    BY <1>10, DeleteDeviceEffect DEF Replaces, ExpiredInv, Ids
  <2>. QED  BY <1>10, <2>1, ExpiredQuiet DEF DeleteDevice
<1>. QED
  BY <1>1, <1>2, <1>4, <1>5, <1>6, <1>7, <1>8, <1>9, <1>10 DEF Next

\* A device whose restore window closed with no restore under way is deleted for
\* good, whatever is deleted again, patched or rotated meanwhile.
THEOREM ClosedWindowsStayClosed == Spec => []ExpiredStaysDeleted
<1>1. Init => ExpiredInv
  BY DEF Init, ExpiredInv, Idle
<1>2. ExpiredInv => ExpiredStaysDeleted
  BY DEF ExpiredInv, ExpiredStaysDeleted, IsDeleted
<1>. QED  BY <1>1, <1>2, TypeCorrect, ExpiredStep, PTL DEF Spec

\* A key that was rotated away, or whose device can no more be restored, is no
\* live device's: what DeviceReads says of DeviceAuth over the abstract registry
\* holds between any two statements of the requests.
MuteKeys == dead \cup {rows[n].key : n \in expired}

THEOREM MuteKeysOpenNothing ==
    Spec => [](\A n \in Ids : rows[n].key \in MuteKeys => IsDeleted(n))
<1>1. TypeOK /\ KeysStayDead /\ ExpiredStaysDeleted
        => \A n \in Ids : rows[n].key \in MuteKeys => IsDeleted(n)
  BY DEF TypeOK, KeysStayDead, ExpiredStaysDeleted, MuteKeys
<1>. QED  BY <1>1, TypeCorrect, RotatedKeysStayDead, ClosedWindowsStayClosed, PTL

(***************************************************************************)
(* The key of a deleted device.                                            *)
(***************************************************************************)
LEMMA KeyKept ==
    TypeOK /\ [Next]_vars => \A n \in Ids : IsDeleted(n) => rows'[n].key = rows[n].key
<1>. SUFFICES ASSUME TypeOK, [Next]_vars, NEW n \in Ids, IsDeleted(n)
              PROVE  rows'[n].key = rows[n].key
  OBVIOUS
<1>1. CASE rows' = rows
  BY <1>1
<1>2. ASSUME NEW r \in Requests, Create(r)  PROVE rows'[n].key = rows[n].key
  BY <1>2, CreateEffect DEF Appends
<1>3. ASSUME NEW r \in Requests, Update(r) \/ Restore(r)  PROVE rows'[n].key = rows[n].key
  BY <1>3, UpdateEffect, RestoreEffect DEF Replaces
<1>4. ASSUME NEW r \in Requests, UpdateAPIKeyHash(r)  PROVE rows'[n].key = rows[n].key
  <2>1. n # req[r].id
    BY <1>4 DEF UpdateAPIKeyHash
  <2>. QED  BY <1>4, <2>1, UpdateAPIKeyHashEffect DEF Replaces
<1>5. ASSUME NEW k \in Ids, DeleteDevice(k)  PROVE rows'[n].key = rows[n].key
  BY <1>5, DeleteDeviceEffect DEF Replaces
<1>6. ASSUME NEW r \in Requests, Read(r) \/ CheckName(r) \/ Fail(r)  PROVE rows' = rows
  BY <1>6 DEF Read, CreateDevice, Rename, SetStatus, RestoreDevice, RotateAPIKey, Start,
              CheckName, Fail
<1>. QED  BY <1>1, <1>2, <1>3, <1>4, <1>5, <1>6 DEF Next, vars, Tick

\* No request rotates the key of a deleted device, also not one that found the
\* device before it was deleted.
THEOREM DeletedDevicesKeepTheirKey == Spec => DeletedKeepsKey
<1>1. TypeOK /\ [Next]_vars => [\A n \in Ids : IsDeleted(n) => rows'[n].key = rows[n].key]_vars
  BY KeyKept
<1>. QED  BY <1>1, TypeCorrect, PTL DEF Spec, DeletedKeepsKey

-----------------------------------------------------------------------------
(***************************************************************************)
(* Devices implements DeviceRegistry: what is shown above of names, of     *)
(* keys and of closed windows is what the guards of DeviceRegistry ask.    *)
(* First, what a change of a row changes in the view.                      *)
(***************************************************************************)
ShownRow == [client : Clients, name : Names, status : Statuses, deleted : BOOLEAN, key : Nat]

LEMMA ShownDeletion == ASSUME NEW row  PROVE Shown(row).deleted = (row.deletedAt # 0)
BY Zenon DEF Shown

LEMMA ShownType == ASSUME NEW row \in Row  PROVE Shown(row) \in ShownRow
BY DEF Shown, Row, ShownRow

LEMMA ViewType ==
    ASSUME TypeOK
    PROVE  /\ View \in Seq(ShownRow) /\ Len(View) = Len(rows)
           /\ \A n \in Ids : View[n] = Shown(rows[n])
<1>1. \A n \in Ids : Shown(rows[n]) \in ShownRow
  BY RowType, ShownType
<1>2. Len(rows) \in Nat /\ View = [n \in 1 .. Len(rows) |-> Shown(rows[n])]
  BY LenType DEF View, Ids
<1>3. View \in Seq(ShownRow) /\ Len(View) = Len(rows)
  BY <1>1, <1>2 DEF Ids
<1>. QED  BY <1>2, <1>3 DEF Ids

\* The fields of a device in the view.
LEMMA ViewRow ==
    ASSUME TypeOK, NEW n \in Ids
    PROVE  /\ View[n].client = rows[n].client /\ View[n].name = rows[n].name
           /\ View[n].status = rows[n].status /\ View[n].key = rows[n].key
           /\ View[n].deleted <=> IsDeleted(n)
<1>1. View[n] = Shown(rows[n])
  BY ViewType
<1>2. /\ View[n].client = rows[n].client /\ View[n].name = rows[n].name
      /\ View[n].status = rows[n].status /\ View[n].key = rows[n].key
  BY <1>1 DEF Shown
<1>3. View[n].deleted <=> IsDeleted(n)
  <2>1. View[n].deleted = (rows[n].deletedAt # 0)
    BY <1>1, ShownDeletion, Zenon
  <2>. QED  BY <2>1, Zenon DEF IsDeleted
<1>. QED  BY <1>2, <1>3

\* A row that is not deleted, and one that is, in the view.
LEMMA ShownLive ==
    ASSUME NEW c, NEW name, NEW status, NEW key
    PROVE  Shown([client |-> c, name |-> name, status |-> status, deletedAt |-> 0, key |-> key])
           = [client |-> c, name |-> name, status |-> status, deleted |-> FALSE, key |-> key]
<1>1. (0 # 0) = FALSE
  OBVIOUS
<1>. QED  BY <1>1, Zenon DEF Shown

LEMMA ShownDeleted ==
    ASSUME NEW c, NEW name, NEW status, NEW at, at # 0, NEW key
    PROVE  Shown([client |-> c, name |-> name, status |-> status, deletedAt |-> at, key |-> key])
           = [client |-> c, name |-> name, status |-> status, deleted |-> TRUE, key |-> key]
<1>1. (at # 0) = TRUE
  OBVIOUS
<1>. QED  BY <1>1, Zenon DEF Shown

LEMMA RegistryIds == TypeOK => Registry!Ids = Ids
BY ViewType DEF Registry!Ids, Ids

LEMMA ViewReplaced ==
    ASSUME TypeOK, NEW k \in Ids, NEW row \in Row, rows' = [rows EXCEPT ![k] = row]
    PROVE  View' = [View EXCEPT ![k] = Shown(row)]
<1>1. Replaces(k, row)
  BY ReplaceEffect
<1>2. /\ Ids' = Ids /\ rows'[k] = row
      /\ \A n \in Ids \ {k} : rows'[n] = rows[n]
  BY <1>1 DEF Replaces, Ids
<1>3. View' = [n \in Ids |-> Shown(rows'[n])]
  BY <1>2 DEF View
<1>4. \A n \in Ids : Shown(rows'[n]) = IF n = k THEN Shown(row) ELSE Shown(rows[n])
  BY <1>2
<1>. QED  BY <1>3, <1>4 DEF View

LEMMA AppendShown ==
    ASSUME NEW q \in Seq(ShownRow), NEW row \in ShownRow
    PROVE  /\ Append(q, row) \in Seq(ShownRow)
           /\ Len(Append(q, row)) = Len(q) + 1
           /\ \A n \in 1 .. Len(q) : Append(q, row)[n] = q[n]
           /\ Append(q, row)[Len(q) + 1] = row
OBVIOUS

LEMMA ViewAppended ==
    ASSUME TypeOK, NEW row \in Row, Appends(row)
    PROVE  View' = Append(View, Shown(row))
<1>. DEFINE shown == Shown(row)
<1>1. /\ Len(rows) \in Nat /\ Ids' = 1 .. Len(rows) + 1 /\ Ids = 1 .. Len(rows)
      /\ rows'[Len(rows) + 1] = row
      /\ \A n \in Ids : rows'[n] = rows[n]
  BY LenType DEF Appends, Ids
<1>2. View' = [n \in 1 .. Len(rows) + 1 |-> Shown(rows'[n])]
  BY <1>1 DEF View
<1>3. \A n \in 1 .. Len(rows) + 1 :
          Shown(rows'[n]) = IF n = Len(rows) + 1 THEN shown ELSE View[n]
  BY <1>1, ViewType
<1>4. shown \in ShownRow
  BY ShownType
<1>. HIDE DEF shown
<1>5. View' = [n \in 1 .. Len(rows) + 1 |-> IF n = Len(rows) + 1 THEN shown ELSE View[n]]
  BY <1>2, <1>3
<1>6. /\ Append(View, shown) \in Seq(ShownRow) /\ Len(Append(View, shown)) = Len(rows) + 1
      /\ \A n \in 1 .. Len(rows) : Append(View, shown)[n] = View[n]
      /\ Append(View, shown)[Len(rows) + 1] = shown
  BY <1>1, <1>4, ViewType, AppendShown
<1>7. /\ Append(View, shown) = [n \in 1 .. Len(rows) + 1 |-> Append(View, shown)[n]]
      /\ 1 .. Len(rows) + 1 = 1 .. Len(rows) \cup {Len(rows) + 1}
  <2>1. ASSUME NEW q \in Seq(ShownRow)  PROVE q = [n \in 1 .. Len(q) |-> q[n]]
    OBVIOUS
  <2>2. ASSUME NEW n \in Nat  PROVE 1 .. n + 1 = 1 .. n \cup {n + 1}
    OBVIOUS
  <2>. QED  BY <1>1, <1>6, <2>1, <2>2
<1>8. \A n \in 1 .. Len(rows) + 1 :
          Append(View, shown)[n] = IF n = Len(rows) + 1 THEN shown ELSE View[n]
  BY <1>6, <1>7
<1>. QED  BY <1>5, <1>7, <1>8 DEF shown

(***************************************************************************)
(* The guards.                                                             *)
(***************************************************************************)
LEMMA FreeName ==
    ASSUME TypeOK, NEW c, NEW name, NEW k, ~NameTaken(c, name, k)
    PROVE  Registry!NameFree(c, name, k)
<1>1. ASSUME NEW m \in Ids \ {k}, View[m].client = c, View[m].name = name
      PROVE  View[m].deleted
  BY <1>1, ViewRow DEF NameTaken
<1>. QED  BY <1>1, RegistryIds DEF Registry!NameFree

LEMMA FreshKey ==
    ASSUME TypeOK, KeysInv, NEW r \in Requests, Holds(r)
    PROVE  Registry!Unused(req[r].row.key)
<1>1. \A n \in Ids : View[n].key # req[r].row.key
  BY ViewRow DEF KeysInv
<1>. QED  BY <1>1, RegistryIds DEF KeysInv, Registry!Unused

\* A device is inserted as one that is not deleted, and keys are bounded.
InsertInv ==
    /\ keys \in 0 .. MaxKeys
    /\ \A r \in Requests : req[r].pc = "insert" => req[r].row.deletedAt = 0

LEMMA InsertInit == Init => InsertInv
BY BoundAssumption DEF Init, InsertInv, Idle

LEMMA InsertStep == TypeOK /\ InsertInv /\ [Next]_vars => InsertInv'
<1>. SUFFICES ASSUME TypeOK, InsertInv, [Next]_vars  PROVE InsertInv'
  OBVIOUS
<1>0. MaxKeys \in Nat /\ keys \in Nat
  BY BoundAssumption DEF TypeOK
<1>1. ASSUME NEW r \in Requests, NEW pc, NEW n, NEW row, Start(r, pc, n, row),
             keys' \in 0 .. MaxKeys, pc = "insert" => row.deletedAt = 0
      PROVE  InsertInv'
  BY <1>1 DEF Start, TypeOK, InsertInv
<1>2. ASSUME NEW r \in Requests, Read(r)  PROVE InsertInv'
  <2>1. ASSUME NEW c \in Clients, NEW name \in Names, NEW status \in Statuses,
               CreateDevice(r, c, name, status)  PROVE InsertInv'
    <3>1. keys' \in 0 .. MaxKeys
      BY <1>0, <2>1 DEF CreateDevice
    <3>. QED  BY <1>1, <2>1, <3>1 DEF CreateDevice
  <2>2. ASSUME NEW n \in Ids, NEW status \in Statuses, NEW name \in Names,
               Rename(r, n, name, status)  PROVE InsertInv'
    BY <1>1, <2>2 DEF Rename, InsertInv
  <2>3. ASSUME NEW n \in Ids, NEW status \in Statuses, SetStatus(r, n, status)  PROVE InsertInv'
    BY <1>1, <2>3 DEF SetStatus, InsertInv
  <2>4. ASSUME NEW n \in Ids, RestoreDevice(r, n)  PROVE InsertInv'
    BY <1>1, <2>4 DEF RestoreDevice, InsertInv
  <2>5. ASSUME NEW n \in Ids, RotateAPIKey(r, n)  PROVE InsertInv'
    <3>1. keys' \in 0 .. MaxKeys
      BY <1>0, <2>5 DEF RotateAPIKey
    <3>. QED  BY <1>1, <2>5, <3>1 DEF RotateAPIKey
  <2>. QED  BY <1>2, <2>1, <2>2, <2>3, <2>4, <2>5 DEF Read
<1>3. ASSUME NEW r \in Requests, CheckName(r)  PROVE InsertInv'
  <2>1. keys' = keys /\ req'[r].pc # "insert" /\ \A q \in Requests \ {r} : req'[q] = req[q]
    BY <1>3 DEF CheckName, Idle, TypeOK
  <2>. QED  BY <2>1 DEF InsertInv
<1>4. ASSUME NEW r \in Requests, Finish(r), keys' = keys  PROVE InsertInv'
  BY <1>4, FinishType DEF InsertInv
<1>5. ASSUME NEW r \in Requests,
             Create(r) \/ Update(r) \/ Restore(r) \/ UpdateAPIKeyHash(r) \/ Fail(r)
      PROVE  InsertInv'
  BY <1>4, <1>5 DEF Create, Update, Restore, UpdateAPIKeyHash, Fail, Write
<1>6. ASSUME UNCHANGED vars \/ Tick \/ \E n \in Ids : DeleteDevice(n)  PROVE InsertInv'
  BY <1>6 DEF vars, Tick, DeleteDevice, InsertInv
<1>. QED  BY <1>2, <1>3, <1>5, <1>6 DEF Next

(***************************************************************************)
(* Every statement that writes is one step of DeviceRegistry.              *)
(***************************************************************************)
RegistryInv == TypeOK /\ KeysInv /\ ExpiredInv /\ InsertInv

LEMMA CreateIsAdd ==
    ASSUME RegistryInv, NEW r \in Requests, Create(r)
    PROVE  Registry!RegistryNext
<1>. DEFINE row == req[r].row
<1>1. row \in Row /\ row.deletedAt = 0 /\ req[r].pc = "insert"
  BY RequestType DEF Create, RegistryInv, InsertInv
<1>2. Shown(row) = [client |-> row.client, name |-> row.name, status |-> row.status,
                    deleted |-> FALSE, key |-> row.key]
  BY <1>1 DEF Shown
<1>3. View' = Append(View, Shown(row))
  BY <1>1, CreateEffect, ViewAppended DEF RegistryInv
<1>4. Len(View) < MaxDevices
  BY ViewType DEF Create, RegistryInv
<1>5. Registry!NameFree(row.client, row.name, 0)
  BY <1>1, CreateEffect, FreeName DEF RegistryInv
<1>6. Registry!Unused(row.key) /\ row.key \in 1 .. keys
  BY <1>1, FreshKey DEF RegistryInv, KeysInv, Holds
<1>7. row.client \in Clients /\ row.name \in Names /\ row.status \in Statuses
      /\ row.key \in 1 .. MaxKeys
  BY <1>1, <1>6, BoundAssumption DEF Row, RegistryInv, InsertInv
<1>8. UNCHANGED <<dead, expired>>
  BY DEF Create
<1>. HIDE DEF row
<1>9. Registry!Add(row.client, row.name, row.status, row.key)
  BY <1>2, <1>3, <1>4, <1>5, <1>6, <1>8 DEF Registry!Add
<1>. QED  BY <1>7, <1>9 DEF Registry!RegistryNext

LEMMA UpdateIsPatch ==
    ASSUME RegistryInv, NEW r \in Requests, Update(r)
    PROVE  Registry!RegistryNext
<1>. DEFINE k == req[r].id
            name == req[r].row.name
            status == req[r].row.status
            row == [client |-> rows[k].client, name |-> name, status |-> status,
                    deletedAt |-> rows[k].deletedAt, key |-> rows[k].key]
<1>1. k \in Ids /\ name \in Names /\ status \in Statuses
  BY RequestType DEF Update, RegistryInv
<1>2. row \in Row
  BY <1>1, RowType, NewRowType DEF RegistryInv
<1>3. rows' = [rows EXCEPT ![k] = row]
      /\ (rows[k].deletedAt = 0 => ~NameTaken(rows[k].client, name, k))
  BY <1>1 DEF Update, Write
<1>4. Shown(row) = [client |-> View[k].client, name |-> name, status |-> status,
                    deleted |-> View[k].deleted, key |-> View[k].key]
  <2>1. View[k] = Shown(rows[k])
    BY <1>1, ViewType DEF RegistryInv
  <2>. QED  BY <2>1 DEF Shown
<1>. HIDE DEF row
<1>5. View' = [View EXCEPT ![k] = Shown(row)]
  BY <1>1, <1>2, <1>3, ViewReplaced DEF RegistryInv
<1>6. View[k].deleted \/ Registry!NameFree(View[k].client, name, k)
  <2>1. CASE rows[k].deletedAt = 0
    BY <1>1, <1>3, <2>1, FreeName, ViewRow DEF RegistryInv
  <2>2. CASE rows[k].deletedAt # 0
    BY <1>1, <2>2, ViewRow DEF RegistryInv, IsDeleted
  <2>. QED  BY <2>1, <2>2
<1>7. UNCHANGED <<dead, expired>>
  BY DEF Update
<1>8. k \in Registry!Ids
  BY <1>1, RegistryIds DEF RegistryInv
<1>. HIDE DEF k, name, status
<1>9. Registry!Patch(k, name, status)
  BY <1>4, <1>5, <1>6, <1>7 DEF Registry!Patch
<1>. QED  BY <1>1, <1>8, <1>9 DEF Registry!RegistryNext

LEMMA RestoreIsRestore ==
    ASSUME RegistryInv, NEW r \in Requests, Restore(r)
    PROVE  Registry!RegistryNext
<1>. DEFINE k == req[r].id
            row == [client |-> rows[k].client, name |-> rows[k].name,
                    status |-> "inactive", deletedAt |-> 0, key |-> rows[k].key]
<1>1. k \in Ids /\ k \notin expired
  BY RequestType DEF Restore, RegistryInv, ExpiredInv
<1>2. row \in Row
  BY <1>1, RowType, NewRowType, StatusAssumption DEF RegistryInv
<1>3. rows' = [rows EXCEPT ![k] = row] /\ ~NameTaken(rows[k].client, rows[k].name, k)
  BY <1>1 DEF Restore, Write
<1>4. Shown(row) = [client |-> View[k].client, name |-> View[k].name, status |-> "inactive",
                    deleted |-> FALSE, key |-> View[k].key]
  BY <1>1, ViewRow, ShownLive DEF RegistryInv
<1>. HIDE DEF row
<1>5. View' = [View EXCEPT ![k] = Shown(row)]
  BY <1>1, <1>2, <1>3, ViewReplaced DEF RegistryInv
<1>6. Registry!NameFree(View[k].client, View[k].name, k)
  BY <1>1, <1>3, FreeName, ViewRow DEF RegistryInv
<1>7. UNCHANGED <<dead, expired>>
  BY DEF Restore
<1>8. k \in Registry!Ids
  BY <1>1, RegistryIds DEF RegistryInv
<1>. HIDE DEF k
<1>9. Registry!Restore(k)
  BY <1>1, <1>4, <1>5, <1>6, <1>7 DEF Registry!Restore
<1>. QED  BY <1>8, <1>9 DEF Registry!RegistryNext

LEMMA UpdateAPIKeyHashIsRotate ==
    ASSUME RegistryInv, NEW r \in Requests, UpdateAPIKeyHash(r)
    PROVE  Registry!RegistryNext
<1>. DEFINE k == req[r].id
            new == req[r].row.key
            row == [client |-> rows[k].client, name |-> rows[k].name,
                    status |-> rows[k].status, deletedAt |-> rows[k].deletedAt, key |-> new]
<1>1. k \in Ids /\ ~IsDeleted(k) /\ Holds(r)
  BY RequestType DEF UpdateAPIKeyHash, RegistryInv, Holds
<1>2. new \in 1 .. MaxKeys /\ new \in Nat
  BY <1>1, BoundAssumption DEF RegistryInv, KeysInv, InsertInv
<1>3. row \in Row
  BY <1>1, <1>2, RowType, NewRowType DEF RegistryInv
<1>4. rows' = [rows EXCEPT ![k] = row] /\ dead' = dead \cup {rows[k].key} /\ expired' = expired
  BY DEF UpdateAPIKeyHash
<1>5. Shown(row) = [client |-> View[k].client, name |-> View[k].name,
                    status |-> View[k].status, deleted |-> FALSE, key |-> new]
  <2>1. row = [client |-> View[k].client, name |-> View[k].name,
               status |-> View[k].status, deletedAt |-> 0, key |-> new]
    BY <1>1, ViewRow DEF RegistryInv, IsDeleted
  <2>. HIDE DEF row
  <2>. QED  BY <2>1, ShownLive
<1>. HIDE DEF row
<1>6. View' = [View EXCEPT ![k] = Shown(row)]
  BY <1>1, <1>3, <1>4, ViewReplaced DEF RegistryInv
<1>7. ~View[k].deleted /\ View[k].key = rows[k].key
  BY <1>1, ViewRow DEF RegistryInv
<1>8. Registry!Unused(new)
  BY <1>1, FreshKey DEF RegistryInv
<1>9. k \in Registry!Ids
  BY <1>1, RegistryIds DEF RegistryInv
<1>. HIDE DEF k, new
<1>10. Registry!Rotate(k, new)
  BY <1>4, <1>5, <1>6, <1>7, <1>8 DEF Registry!Rotate
<1>. QED  BY <1>2, <1>9, <1>10 DEF Registry!RegistryNext

LEMMA DeleteDeviceIsDelete ==
    ASSUME RegistryInv, NEW k \in Ids, DeleteDevice(k)
    PROVE  Registry!RegistryNext
<1>. DEFINE at == IF IsDeleted(k) THEN rows[k].deletedAt ELSE now
            row == [client |-> rows[k].client, name |-> rows[k].name,
                    status |-> rows[k].status, deletedAt |-> at, key |-> rows[k].key]
<1>1. at \in Nat /\ at # 0
  BY RowType DEF IsDeleted, TypeOK, RegistryInv
<1>2. rows' = [rows EXCEPT ![k] = row] /\ UNCHANGED <<dead, expired>>
  BY DEF DeleteDevice
<1>. HIDE DEF at
<1>3. row \in Row
  BY <1>1, RowType, NewRowType DEF RegistryInv
<1>4. Shown(row) = [client |-> View[k].client, name |-> View[k].name,
                    status |-> View[k].status, deleted |-> TRUE, key |-> View[k].key]
  <2>1. row = [client |-> View[k].client, name |-> View[k].name,
               status |-> View[k].status, deletedAt |-> at, key |-> View[k].key]
    BY ViewRow DEF RegistryInv
  <2>. HIDE DEF row
  <2>. QED  BY <1>1, <2>1, ShownDeleted
<1>. HIDE DEF row
<1>5. View' = [View EXCEPT ![k] = Shown(row)]
  BY <1>2, <1>3, ViewReplaced DEF RegistryInv
<1>6. Registry!Delete(k)
  BY <1>2, <1>4, <1>5 DEF Registry!Delete
<1>7. k \in Registry!Ids
  BY RegistryIds DEF RegistryInv
<1>. QED  BY <1>6, <1>7 DEF Registry!RegistryNext

LEMMA TickIsFinalize ==
    ASSUME RegistryInv, Tick
    PROVE  Registry!RegistryNext
<1>. DEFINE S == {n \in Ids : /\ IsDeleted(n)
                              /\ rows[n].deletedAt + Window < now + 1 /\ ~Restoring(n)}
<1>1. expired' = expired \cup S /\ rows' = rows /\ dead' = dead
  BY DEF Tick
<1>2. View' = View
  BY <1>1 DEF View, Ids
<1>3. \A n \in Ids : IsDeleted(n) => View[n].deleted
  BY ViewRow DEF RegistryInv
<1>4. S \in SUBSET {n \in Registry!Ids : View[n].deleted}
  BY <1>3, RegistryIds DEF RegistryInv
<1>. HIDE DEF S
<1>5. Registry!Finalize
  BY <1>1, <1>2, <1>4 DEF Registry!Finalize
<1>. QED  BY <1>5 DEF Registry!RegistryNext

LEMMA RegistryStep == RegistryInv /\ [Next]_vars => [Registry!RegistryNext]_(Registry!registryVars)
<1>. SUFFICES ASSUME RegistryInv, [Next]_vars
              PROVE  Registry!RegistryNext \/ UNCHANGED <<View, dead, expired>>
  BY DEF Registry!registryVars
<1>1. ASSUME rows' = rows, dead' = dead, expired' = expired
      PROVE  UNCHANGED <<View, dead, expired>>
  BY <1>1 DEF View, Ids
<1>2. ASSUME NEW r \in Requests, Read(r) \/ CheckName(r) \/ Fail(r)
      PROVE  UNCHANGED <<View, dead, expired>>
  BY <1>1, <1>2 DEF Read, CreateDevice, Rename, SetStatus, RestoreDevice, RotateAPIKey,
                    Start, CheckName, Fail
<1>3. CASE UNCHANGED vars
  BY <1>1, <1>3 DEF vars
<1>. QED
  BY <1>2, <1>3, CreateIsAdd, UpdateIsPatch, RestoreIsRestore, UpdateAPIKeyHashIsRotate,
     DeleteDeviceIsDelete, TickIsFinalize
  DEF Next

\* Whatever requests interleave, and at whichever statement they fail, the table
\* goes through states that DeviceRegistry reaches: every step of a request is one
\* of its steps, as the table is at that moment, or changes nothing that it shows.
THEOREM DevicesImplementRegistry == Spec => ImplementsRegistry
<1>1. Init => RegistryInv /\ Registry!RegistryInit
  <2>. SUFFICES ASSUME Init  PROVE RegistryInv /\ Registry!RegistryInit
    OBVIOUS
  <2>1. TypeOK
    BY DEF Init, TypeOK, Ids, Idle, Request
  <2>2. KeysInv /\ ExpiredInv
    BY DEF Init, KeysInv, ExpiredInv, Ids, Holds, Idle
  <2>3. View \in Seq(ShownRow) /\ Len(View) = 0
    BY <2>1, ViewType DEF Init
  <2>4. View = << >>
    BY <2>3
  <2>5. dead = {} /\ expired = {}
    BY DEF Init
  <2>. QED  BY <2>1, <2>2, <2>4, <2>5, InsertInit DEF RegistryInv, Registry!RegistryInit
<1>2. RegistryInv /\ [Next]_vars => RegistryInv'
  BY TypeStep, KeysStep, ExpiredStep, InsertStep DEF RegistryInv
<1>. QED
  BY <1>1, <1>2, RegistryStep, PTL DEF Spec, ImplementsRegistry, Registry!RegistrySpec
=============================================================================
