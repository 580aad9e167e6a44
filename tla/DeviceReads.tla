------------------------------ MODULE DeviceReads ------------------------------
(***************************************************************************)
(* The readers of the devices table while requests change it: GET          *)
(* /devices page by page, and the lookup of a device by its API key that   *)
(* lets an event request pass (core/middleware/device_auth.go).            *)
(*                                                                         *)
(* A page is a COUNT and then a SELECT, with no snapshot in common.  The   *)
(* order is newest first, so that a new device pushes the others on; but a *)
(* device may also leave the result, when it is deleted or its status      *)
(* changes, and then the others move up past what the client has read.     *)
(*                                                                         *)
(* Readers see nothing but the table, so that what changes it is           *)
(* DeviceRegistry, one step for each statement that writes.                *)
(***************************************************************************)
EXTENDS DeviceRegistry, FiniteSets, Pagination

CONSTANTS
    AnyStatus,  \* no filter on the status
    PageSizes   \* sizes that clients ask for

ASSUME ReadsAssumption == AnyStatus \notin Statuses /\ PageSizes \subseteq Nat

VARIABLES
    walk,      \* the walk of one client over the pages
    missing,   \* devices that matched when it began and that it was not handed yet
    gone,      \* history: how often a device left the result during the walk
    slipped    \* history: how many devices entered the result since the last COUNT

readVars == <<walk, missing, gone, slipped>>
vars == <<registryVars, readVars>>

Walk == [pc : {"start", "count", "list", "done"}, client : Clients,
         status : Statuses \cup {AnyStatus}, deleted : BOOLEAN,
         page : Nat, size : 1 .. MaxPageSize, total : Nat]

-----------------------------------------------------------------------------
\* The WHERE of both queries.
Matching ==
    {n \in Ids : /\ devices[n].client = walk.client
                 /\ walk.deleted \/ ~devices[n].deleted
                 /\ walk.status \in {AnyStatus, devices[n].status}}

\* ORDER BY created_at DESC; no two devices of a client are created at one instant.
Position(n) == 1 + Cardinality({m \in Matching : m > n})

\* The histories count no further than there are devices left to miss.
Capped(n, S) == IF S # {} /\ n <= Cardinality(S) THEN n ELSE Cardinality(S)

ReadsInit ==
    /\ RegistryInit
    /\ walk \in [pc : {"start"}, client : Clients, status : Statuses \cup {AnyStatus},
                 deleted : BOOLEAN, page : {1},
                 size : {n \in PageSizes : ValidPage(1, n)}, total : {0}]
    /\ missing = {}
    /\ gone = 0
    /\ slipped = 0

Begin ==
    /\ walk.pc = "start"
    /\ walk' = [walk EXCEPT !.pc = "count"]
    /\ missing' = Matching
    /\ UNCHANGED <<registryVars, gone, slipped>>

\* The COUNT of List.
CountDevices ==
    /\ walk.pc = "count"
    /\ walk' = [walk EXCEPT !.pc = "list", !.total = Cardinality(Matching)]
    /\ slipped' = 0
    /\ UNCHANGED <<registryVars, missing, gone>>

\* The SELECT of List and the answer, whose has_next comes from the COUNT.
ListDevices ==
    /\ walk.pc = "list"
    /\ missing' = missing \ {n \in Matching : OnPage(Position(n), walk.page, walk.size)}
    /\ walk' = IF HasNext(walk.page, walk.total, walk.size)
               THEN [walk EXCEPT !.pc = "count", !.page = @ + 1, !.total = 0]
               ELSE [walk EXCEPT !.pc = "done"]
    /\ gone' = Capped(gone, missing')
    /\ slipped' = IF HasNext(walk.page, walk.total, walk.size) THEN 0 ELSE Capped(slipped, missing')
    /\ UNCHANGED registryVars

-----------------------------------------------------------------------------
\* Variant: the lookup takes deleted devices too.
FindAnyByAPIKeyHash(k) == {n \in Ids : devices[n].key = k}

FindByAPIKeyHash(k) == {n \in Ids : devices[n].key = k /\ ~devices[n].deleted}

\* DeviceAuth lets an event request with key k pass.
Admits(k) == FindByAPIKeyHash(k) # {}

-----------------------------------------------------------------------------
\* A request changes the table; the histories note what they do to the walk.
\* A behaviour ends with its walk.
Change ==
    /\ walk.pc # "done"
    /\ RegistryNext
    /\ UNCHANGED <<walk, missing>>
    /\ gone' = Capped(gone + Cardinality(Matching \ Matching'), missing)
    /\ slipped' = IF walk.pc = "list"
                  THEN Capped(slipped + Cardinality(Matching' \ Matching), missing)
                  ELSE slipped

ReadsNext ==
    \/ Begin \/ CountDevices \/ ListDevices
    \/ Change

ReadsSpec == ReadsInit /\ [][ReadsNext]_vars

-----------------------------------------------------------------------------
(***************************************************************************)
(* Properties                                                              *)
(***************************************************************************)
ReadsTypeOK ==
    /\ walk \in Walk
    /\ missing \subseteq Ids
    /\ {gone, slipped} \subseteq 0 .. MaxDevices

\* Of the devices that matched when the walk began it misses no more than have
\* left the result meanwhile, plus those that came in between the last COUNT and
\* its SELECT: new devices and stale totals of earlier pages cost nothing.
MissesAreExplained ==
    walk.pc = "done" => Cardinality(missing) <= gone + slipped

\* A key that was rotated away, or whose device was deleted and can no more be
\* restored, opens nothing: no event request passes with it again.
MuteKeysRefused ==
    \A k \in Keys : k \in retired \/ (\E n \in final : devices[n].key = k) => ~Admits(k)
=============================================================================
