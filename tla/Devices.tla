------------------------------- MODULE Devices -------------------------------
(***************************************************************************)
(* The device registry: core/services/device/device_service.go on          *)
(* core/repository/device/device_repository.go and the devices table.      *)
(*                                                                         *)
(* Creating, patching, restoring a device and rotating its key each read   *)
(* first and write later, on two connections and in no transaction, with   *)
(* any other request in between.  What protects the row then is what the   *)
(* one statement that writes says: its WHERE, its SET list, and the        *)
(* partial unique index on the names of the devices not deleted.           *)
(***************************************************************************)
EXTENDS Naturals, Sequences

CONSTANTS
    Clients,     \* authenticated clients
    Names,       \* device names, up to lower()
    Statuses,    \* values of device_status
    Requests,    \* goroutines that serve /devices
    Window,      \* DEVICE_RESTORE_WINDOW_DAYS, in clock units
    MaxDevices,  \* bound on the rows of devices
    MaxKeys,     \* bound on the API keys generated
    MaxTime      \* bound on the clock

ASSUME StatusAssumption == "inactive" \in Statuses
ASSUME BoundAssumption == {Window, MaxDevices, MaxKeys, MaxTime} \subseteq Nat

VARIABLES
    now,      \* the clock of the program and the database, from 1
    rows,     \* the devices table in insertion order, the position is the id
    keys,     \* the number of API keys generated; key k is the k-th
    req,      \* [Requests -> Request]: the request in progress
    dead,     \* history: keys that a rotation has replaced
    expired   \* history: devices whose restore window closed with no restore under way

vars == <<now, rows, keys, req, dead, expired>>

\* deletedAt is 0 for NULL.  Type, tags and metadata go the way of status.
Row == [client : Clients, name : Names, status : Statuses, deletedAt : Nat, key : Nat]

\* row is the device the service holds: the one it read, with its changes.
Request == [pc : {"idle"}] \cup
           [pc : {"insert", "rename", "update", "reclaim", "restore", "rotate"},
            id : Nat, row : Row]

Idle == [pc |-> "idle"]

Ids == 1 .. Len(rows)
IsDeleted(n) == rows[n].deletedAt # 0

\* ExistsActiveName, and what idx_devices_client_name_active_unique forbids.
NameTaken(c, name, exclude) ==
    \E n \in Ids \ {exclude} :
        rows[n].client = c /\ rows[n].name = name /\ ~IsDeleted(n)

-----------------------------------------------------------------------------
Init ==
    /\ now = 1
    /\ rows = << >>
    /\ keys = 0
    /\ req = [r \in Requests |-> Idle]
    /\ dead = {}
    /\ expired = {}

Start(r, pc, n, row) ==
    /\ req[r].pc = "idle"
    /\ req' = [req EXCEPT ![r] = [pc |-> pc, id |-> n, row |-> row]]
    /\ UNCHANGED <<now, rows, dead, expired>>

Finish(r) == req' = [req EXCEPT ![r] = Idle]

(***************************************************************************)
(* The reads.  A device of another client, or in the wrong state, is       *)
(* refused at once and nothing changes.                                    *)
(***************************************************************************)
\* CreateDevice up to the INSERT.
CreateDevice(r, c, name, status) ==
    /\ ~NameTaken(c, name, 0)
    /\ keys < MaxKeys
    /\ keys' = keys + 1
    /\ Start(r, "insert", 0, [client |-> c, name |-> name, status |-> status,
                              deletedAt |-> 0, key |-> keys + 1])

\* UpdateDevice with a name in the body.  The status is the body's, or the one read.
Rename(r, n, name, status) ==
    /\ ~IsDeleted(n)
    /\ Start(r, "rename", n, [client |-> rows[n].client, name |-> name, status |-> status,
                              deletedAt |-> 0, key |-> rows[n].key])
    /\ UNCHANGED keys

\* UpdateDevice without one.
SetStatus(r, n, status) ==
    /\ ~IsDeleted(n)
    /\ Start(r, "update", n, [client |-> rows[n].client, name |-> rows[n].name,
                              status |-> status, deletedAt |-> 0, key |-> rows[n].key])
    /\ UNCHANGED keys

RestoreDevice(r, n) ==
    /\ IsDeleted(n)
    /\ now <= rows[n].deletedAt + Window
    /\ Start(r, "reclaim", n, rows[n])
    /\ UNCHANGED keys

RotateAPIKey(r, n) ==
    /\ ~IsDeleted(n)
    /\ keys < MaxKeys
    /\ keys' = keys + 1
    /\ Start(r, "rotate", n, [client |-> rows[n].client, name |-> rows[n].name,
                              status |-> rows[n].status, deletedAt |-> 0, key |-> keys + 1])

\* ExistsActiveName of UpdateDevice and RestoreDevice.
CheckName(r) ==
    /\ req[r].pc \in {"rename", "reclaim"}
    /\ req' = [req EXCEPT ![r] =
           IF NameTaken(req[r].row.client, req[r].row.name, req[r].id)
           THEN Idle
           ELSE [pc |-> IF req[r].pc = "rename" THEN "update" ELSE "restore",
                 id |-> req[r].id, row |-> req[r].row]]
    /\ UNCHANGED <<now, rows, keys, dead, expired>>

(***************************************************************************)
(* The writes.                                                             *)
(***************************************************************************)
\* Variant: the table has no unique index.
WriteUnchecked(r, n, row) ==
    /\ rows' = IF n \in Ids THEN [rows EXCEPT ![n] = row] ELSE Append(rows, row)
    /\ Finish(r)

\* A statement of r leaves the device as row, unless the unique index refuses.
Write(r, n, row) ==
    /\ ~(row.deletedAt = 0 /\ NameTaken(row.client, row.name, n))
    /\ rows' = IF n \in Ids THEN [rows EXCEPT ![n] = row] ELSE Append(rows, row)
    /\ Finish(r)

Create(r) ==
    /\ req[r].pc = "insert"
    /\ Len(rows) < MaxDevices
    /\ Write(r, 0, req[r].row)
    /\ UNCHANGED <<now, keys, dead, expired>>

\* Variant: api_key_hash is in the SET list too.
UpdateAll(r) ==
    /\ req[r].pc = "update"
    /\ Write(r, req[r].id,
             [client |-> req[r].row.client, name |-> req[r].row.name,
              status |-> req[r].row.status, deletedAt |-> rows[req[r].id].deletedAt,
              key |-> req[r].row.key])
    /\ UNCHANGED <<now, keys, dead, expired>>

\* Sets what the service holds, whatever the row has become since it was read.
Update(r) ==
    /\ req[r].pc = "update"
    /\ LET old == rows[req[r].id] IN
           Write(r, req[r].id,
                 [client |-> old.client, name |-> req[r].row.name, status |-> req[r].row.status,
                  deletedAt |-> old.deletedAt, key |-> old.key])
    /\ UNCHANGED <<now, keys, dead, expired>>

Restore(r) ==
    /\ req[r].pc = "restore"
    /\ LET old == rows[req[r].id] IN
           Write(r, req[r].id,
                 [client |-> old.client, name |-> old.name, status |-> "inactive",
                  deletedAt |-> 0, key |-> old.key])
    /\ UNCHANGED <<now, keys, dead, expired>>

\* Variant: the statement does not look at deleted_at.
UpdateAnyAPIKeyHash(r) ==
    /\ req[r].pc = "rotate"
    /\ LET old == rows[req[r].id] IN
           /\ rows' = [rows EXCEPT ![req[r].id] = [old EXCEPT !.key = req[r].row.key]]
           /\ dead' = dead \cup {old.key}
    /\ Finish(r)
    /\ UNCHANGED <<now, keys, expired>>

\* deleted_at IS NULL is part of the statement; otherwise ErrDeviceNotFound.
UpdateAPIKeyHash(r) ==
    /\ req[r].pc = "rotate"
    /\ ~IsDeleted(req[r].id)
    /\ LET old == rows[req[r].id] IN
           /\ rows' = [rows EXCEPT ![req[r].id] =
                  [client |-> old.client, name |-> old.name, status |-> old.status,
                   deletedAt |-> old.deletedAt, key |-> req[r].row.key]]
           /\ dead' = dead \cup {old.key}
    /\ Finish(r)
    /\ UNCHANGED <<now, keys, expired>>

\* Variant: deleted_at is set again.
DeleteAgain(n) ==
    /\ rows' = [rows EXCEPT ![n] = [rows[n] EXCEPT !.deletedAt = now]]
    /\ UNCHANGED <<now, keys, req, dead, expired>>

\* Variant: the row is deleted for real.
DeleteRow(n) ==
    /\ n = Len(rows)
    /\ rows' = SubSeq(rows, 1, n - 1)
    /\ UNCHANGED <<now, keys, req, dead, expired>>

\* DeleteDevice is one statement; COALESCE keeps the time of the first deletion.
DeleteDevice(n) ==
    /\ LET old == rows[n] IN
           rows' = [rows EXCEPT ![n] =
               [client |-> old.client, name |-> old.name, status |-> old.status,
                deletedAt |-> IF IsDeleted(n) THEN old.deletedAt ELSE now, key |-> old.key]]
    /\ UNCHANGED <<now, keys, req, dead, expired>>

\* The statement is refused (the name is taken by now, the device is deleted),
\* a database call fails, or the process dies.
Fail(r) ==
    /\ req[r].pc # "idle"
    /\ Finish(r)
    /\ UNCHANGED <<now, rows, keys, dead, expired>>

-----------------------------------------------------------------------------
\* A restore of device n has passed its checks on the window.
Restoring(n) == \E r \in Requests : req[r].pc \in {"reclaim", "restore"} /\ req[r].id = n

Tick ==
    /\ now < MaxTime
    /\ now' = now + 1
    /\ expired' = expired \cup
           {n \in Ids : IsDeleted(n) /\ rows[n].deletedAt + Window < now + 1 /\ ~Restoring(n)}
    /\ UNCHANGED <<rows, keys, req, dead>>

Read(r) ==
    \/ \E c \in Clients, name \in Names, status \in Statuses : CreateDevice(r, c, name, status)
    \/ \E n \in Ids : \/ \E status \in Statuses : \/ SetStatus(r, n, status)
                                                  \/ \E name \in Names : Rename(r, n, name, status)
                      \/ RestoreDevice(r, n)
                      \/ RotateAPIKey(r, n)

Next ==
    \/ \E r \in Requests : \/ Read(r)
                           \/ CheckName(r)
                           \/ Create(r) \/ Update(r) \/ Restore(r) \/ UpdateAPIKeyHash(r)
                           \/ Fail(r)
    \/ \E n \in Ids : DeleteDevice(n)
    \/ Tick

Spec == Init /\ [][Next]_vars

-----------------------------------------------------------------------------
(***************************************************************************)
(* Properties                                                              *)
(***************************************************************************)
TypeOK ==
    /\ now \in Nat \ {0}
    /\ rows \in Seq(Row)
    /\ keys \in Nat
    /\ req \in [Requests -> Request]
    /\ \A r \in Requests : req[r].pc \notin {"idle", "insert"} => req[r].id \in Ids
    /\ dead \subseteq Nat
    /\ expired \subseteq Ids

\* A client never has two devices of one name that are not deleted, although
\* create, rename and restore all look first and write later, and a patch that
\* comes late renames a device deleted meanwhile with no index to stop it.
NamesUnique ==
    \A m, n \in Ids :
        /\ m # n
        /\ ~IsDeleted(m) /\ ~IsDeleted(n)
        /\ rows[m].client = rows[n].client
        => rows[m].name # rows[n].name

\* A key that was rotated away never authenticates anything again: no two
\* devices share a key, and no patch or restore that read the device before the
\* rotation puts the old key back.
KeysStayDead ==
    \A n \in Ids : /\ rows[n].key \notin dead
                   /\ \A m \in Ids \ {n} : rows[m].key # rows[n].key

\* A device whose restore window has closed with no restore under way is
\* deleted for good: deleting it again does not reopen the window, and no
\* patch that is still under way brings it back.
ExpiredStaysDeleted == \A n \in expired : IsDeleted(n)

\* The key of a deleted device is never rotated, not even by a request that
\* found the device before it was deleted.
DeletedKeepsKey ==
    [][\A n \in Ids : IsDeleted(n) => rows'[n].key = rows[n].key]_vars

\* What the table says, with the times and the requests left out.
Shown(row) == [client |-> row.client, name |-> row.name, status |-> row.status,
               deleted |-> row.deletedAt # 0, key |-> row.key]

View == [n \in Ids |-> Shown(rows[n])]

Registry == INSTANCE DeviceRegistry
            WITH devices <- View, retired <- dead, final <- expired, Keys <- 1 .. MaxKeys

\* However the statements of the requests interleave, what a reader of the table
\* sees changes by steps of DeviceRegistry only, each statement by one or not at all:
\* what a create, a rotation or a restore writes is admissible when it is written.
\* A patch writes what it read, and so late that it may put back another's field or
\* change a device deleted meanwhile: DeviceRegistry allows it both.
ImplementsRegistry == Registry!RegistrySpec

\* "Device đã delete không thể update": as long as a device is deleted its
\* name and its status stay what they are.
DeletedNotUpdated ==
    [][\A n \in Ids : IsDeleted(n) /\ IsDeleted(n)' =>
           /\ rows'[n].name = rows[n].name
           /\ rows'[n].status = rows[n].status]_vars
=============================================================================
