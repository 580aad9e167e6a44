---------------------------- MODULE DeviceRegistry ----------------------------
(***************************************************************************)
(* What the device registry promises, whatever requests overlap: every     *)
(* statement that writes changes one device, or none.  Live names of a     *)
(* client differ, a key is given to one device once, a deletion that has   *)
(* become final is never undone.  A patch is not promised to have read     *)
(* what it changes.  There is no clock and no request here; Devices        *)
(* implements this, and DeviceReads reads it.                              *)
(***************************************************************************)
EXTENDS Naturals, Sequences

CONSTANTS
    Clients,     \* authenticated clients
    Names,       \* device names, up to lower()
    Statuses,    \* values of device_status
    Keys,        \* API keys
    MaxDevices   \* bound on the devices

ASSUME RegistryAssumption == "inactive" \in Statuses /\ MaxDevices \in Nat

VARIABLES
    devices,  \* in the order of creation, the position is the id
    retired,  \* keys that a rotation has replaced
    final     \* devices whose deletion is final

registryVars == <<devices, retired, final>>

Device == [client : Clients, name : Names, status : Statuses, deleted : BOOLEAN, key : Keys]

Ids == 1 .. Len(devices)

\* Nobody else's: no live device of client c but n itself has the name.
NameFree(c, name, n) ==
    \A m \in Ids \ {n} :
        devices[m].client = c /\ devices[m].name = name => devices[m].deleted

Unused(k) == k \notin retired /\ \A n \in Ids : devices[n].key # k

RegistryInit ==
    /\ devices = << >>
    /\ retired = {}
    /\ final = {}

Add(c, name, status, k) ==
    /\ Len(devices) < MaxDevices
    /\ NameFree(c, name, 0)
    /\ Unused(k)
    /\ devices' = Append(devices, [client |-> c, name |-> name, status |-> status,
                                   deleted |-> FALSE, key |-> k])
    /\ UNCHANGED <<retired, final>>

\* A deleted device may be patched still, by a request that found it alive.
Patch(n, name, status) ==
    /\ devices[n].deleted \/ NameFree(devices[n].client, name, n)
    /\ devices' = [devices EXCEPT ![n] =
           [client |-> devices[n].client, name |-> name, status |-> status,
            deleted |-> devices[n].deleted, key |-> devices[n].key]]
    /\ UNCHANGED <<retired, final>>

Rotate(n, k) ==
    /\ ~devices[n].deleted
    /\ Unused(k)
    /\ devices' = [devices EXCEPT ![n] =
           [client |-> devices[n].client, name |-> devices[n].name,
            status |-> devices[n].status, deleted |-> FALSE, key |-> k]]
    /\ retired' = retired \cup {devices[n].key}
    /\ UNCHANGED final

Delete(n) ==
    /\ devices' = [devices EXCEPT ![n] =
           [client |-> devices[n].client, name |-> devices[n].name,
            status |-> devices[n].status, deleted |-> TRUE, key |-> devices[n].key]]
    /\ UNCHANGED <<retired, final>>

\* Of a device that is alive too: of two restores that overlap the second finds it so.
Restore(n) ==
    /\ n \notin final
    /\ NameFree(devices[n].client, devices[n].name, n)
    /\ devices' = [devices EXCEPT ![n] =
           [client |-> devices[n].client, name |-> devices[n].name,
            status |-> "inactive", deleted |-> FALSE, key |-> devices[n].key]]
    /\ UNCHANGED <<retired, final>>

Finalize ==
    /\ \E S \in SUBSET {n \in Ids : devices[n].deleted} : final' = final \cup S
    /\ UNCHANGED <<devices, retired>>

RegistryNext ==
    \/ \E c \in Clients, name \in Names, status \in Statuses, k \in Keys : Add(c, name, status, k)
    \/ \E n \in Ids : \/ \E name \in Names, status \in Statuses : Patch(n, name, status)
                      \/ \E k \in Keys : Rotate(n, k)
                      \/ Delete(n)
                      \/ Restore(n)
    \/ Finalize

RegistrySpec == RegistryInit /\ [][RegistryNext]_registryVars
=============================================================================
