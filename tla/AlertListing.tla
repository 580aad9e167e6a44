---------------------------- MODULE AlertListing ----------------------------
(***************************************************************************)
(* GET /alerts: core/services/alert/alert_query_service.go, the List of    *)
(* core/repository/alert/alert_repository.go, utils/pagination.            *)
(*                                                                         *)
(* A page is two queries with no snapshot in common: the rows of the page, *)
(* then the COUNT its has_next comes from.  A client walks the pages while *)
(* its devices go on storing alerts, which may land anywhere in the order, *)
(* for the order is by the device's occurred_at and then by a random id.   *)
(* A search also looks at the names of the devices, which change: with it  *)
(* alerts leave the result and come back, and the others move up or down.  *)
(***************************************************************************)
EXTENDS Naturals, FiniteSets, Pagination

CONSTANTS
    Clients,     \* authenticated clients
    Devices,     \* devices that raise alerts
    Owner,       \* [Devices -> Clients]
    Severities,  \* values of alert_severity
    Times,       \* values of occurred_at
    AlertIds,    \* random ids, compared as numbers
    Texts,       \* names of devices, and what an alert says: its message and type
    Searches,    \* terms that normalizeSearch lets through, ids of devices among them
    ILike,       \* [Searches -> SUBSET Texts], the texts that contain a term
    None,        \* an absent filter
    MaxRenames   \* bound: renames of devices

ASSUME OwnerAssumption == Owner \in [Devices -> Clients]
ASSUME NumberAssumption == Times \subseteq Nat /\ AlertIds \subseteq Nat
ASSUME NoneAssumption == None \notin Devices \cup Times \cup Searches
ASSUME SearchAssumption == ILike \in [Searches -> SUBSET Texts]
ASSUME RenameAssumption == MaxRenames \in Nat

VARIABLES
    alerts,   \* the alerts table, append-only
    names,    \* [Devices -> Texts], the column devices.name
    renames,  \* how many there were
    walk,     \* the walk of one client over the pages
    seen,     \* how often the walk has been handed each alert
    owed,     \* history: the alerts that matched when the walk began
    gone,     \* history: how often an alert has left the result since then
    come      \* history: how often an alert has come into it since then

tables == <<alerts, names, renames>>
history == <<owed, gone, come>>
vars == <<tables, walk, seen, history>>

Alert == [id : AlertIds, device : Devices, severity : Severities, at : Times, text : Texts]

\* A set of severities that is empty filters nothing, as a nil slice does.
Filter == [device : Devices \cup {None}, severities : SUBSET Severities,
           from : Times \cup {None}, to : Times \cup {None},
           search : Searches \cup {None}]

\* rows is what the last list query returned, total what the last COUNT did.
Walk == [pc : {"start", "list", "count", "done"}, client : Clients, filter : Filter,
         page : Nat, size : Nat, rows : SUBSET Alert, total : Nat]

-----------------------------------------------------------------------------
\* The check of the time range; anything else is refused.
ValidRange(f) == f.from # None /\ f.to # None => f.from <= f.to

\* The search: in the alert, in the name its device has now, or for its device's id.
Found(a, s) == a.text \in ILike[s] \/ names[a.device] \in ILike[s] \/ a.device = s

\* The FROM and WHERE of both queries.
Matching(c, f) ==
    {a \in alerts :
        /\ Owner[a.device] = c
        /\ f.device \in {None, a.device}
        /\ f.severities = {} \/ a.severity \in f.severities
        /\ f.from # None => a.at >= f.from
        /\ f.to # None => a.at <= f.to
        /\ f.search # None => Found(a, f.search)}

\* The result of the queries of the walk, now.
Result == Matching(walk.client, walk.filter)

\* ORDER BY occurred_at DESC, id DESC
Before(a, b) == a.at > b.at \/ (a.at = b.at /\ a.id > b.id)

\* Rows of S in that order, from 1.
Position(a, S) == 1 + Cardinality({b \in S : Before(b, a)})

\* LIMIT and OFFSET
Slice(S, page, size) == {a \in S : OnPage(Position(a, S), page, size)}

-----------------------------------------------------------------------------
Init ==
    /\ alerts = {}
    /\ names \in [Devices -> Texts]
    /\ renames = 0
    /\ walk \in [pc : {"start"}, client : Clients,
                 filter : {f \in Filter : ValidRange(f)},
                 page : {1}, size : {n \in 1 .. MaxPageSize : ValidPage(1, n)},
                 rows : {{}}, total : {0}]
    /\ seen = [n \in AlertIds |-> 0]
    /\ owed = {}
    /\ gone = 0
    /\ come = 0

\* What a change of the tables does to the walk, whose end ends the behaviour.
Follow ==
    /\ walk.pc # "done"
    /\ UNCHANGED <<walk, seen, owed>>
    /\ gone' = IF walk.pc = "start" THEN 0 ELSE gone + Cardinality(Result \ Result')
    /\ come' = IF walk.pc = "start" THEN 0 ELSE come + Cardinality(Result' \ Result)

\* Variant: an alert replaces what its device sent at that time.
InsertReplacing(a) ==
    /\ \A b \in alerts : b.id # a.id
    /\ alerts' = {b \in alerts : b.device # a.device \/ b.at # a.at} \cup {a}
    /\ UNCHANGED <<names, renames>>
    /\ Follow

\* A device stores an alert.
Insert(a) ==
    /\ \A b \in alerts : b.id # a.id
    /\ alerts' = alerts \cup {a}
    /\ UNCHANGED <<names, renames>>
    /\ Follow

\* A patch renames a device.  Two may share a name when one of them is deleted.
Rename(d, text) ==
    /\ renames < MaxRenames
    /\ text # names[d]
    /\ names' = [names EXCEPT ![d] = text]
    /\ renames' = renames + 1
    /\ UNCHANGED alerts
    /\ Follow

Begin ==
    /\ walk.pc = "start"
    /\ walk' = [walk EXCEPT !.pc = "list"]
    /\ owed' = Result
    /\ UNCHANGED <<tables, seen, gone, come>>

\* The list query.
ListPage ==
    /\ walk.pc = "list"
    /\ LET rows == Slice(Result, walk.page, walk.size) IN
           /\ walk' = [walk EXCEPT !.pc = "count", !.rows = rows]
           /\ seen' = [n \in AlertIds |-> IF \E a \in rows : a.id = n THEN seen[n] + 1 ELSE seen[n]]
    /\ UNCHANGED <<tables, history>>

\* Variant: in the COUNT the upper bound of the time is exclusive.
CountBelow ==
    /\ walk.pc = "count"
    /\ LET total == Cardinality({a \in Result : a.at # walk.filter.to}) IN
           walk' = [walk EXCEPT !.total = total,
                                !.pc = IF HasNext(walk.page, total, walk.size) THEN "list" ELSE "done",
                                !.page = IF HasNext(walk.page, total, walk.size) THEN @ + 1 ELSE @]
    /\ UNCHANGED <<tables, seen, history>>

\* The COUNT query and the answer, with which a walk goes on or ends.
CountPage ==
    /\ walk.pc = "count"
    /\ LET total == Cardinality(Result) IN
           walk' = [walk EXCEPT !.total = total,
                                !.pc = IF HasNext(walk.page, total, walk.size) THEN "list" ELSE "done",
                                !.page = IF HasNext(walk.page, total, walk.size) THEN @ + 1 ELSE @]
    /\ UNCHANGED <<tables, seen, history>>

Next ==
    \/ \E a \in Alert : Insert(a)
    \/ \E d \in Devices, text \in Texts : Rename(d, text)
    \/ Begin \/ ListPage \/ CountPage

Spec == Init /\ [][Next]_vars
-----------------------------------------------------------------------------
(***************************************************************************)
(* Properties                                                              *)
(***************************************************************************)
TypeOK ==
    /\ alerts \subseteq Alert
    /\ names \in [Devices -> Texts]
    /\ renames \in 0 .. MaxRenames
    /\ walk \in Walk
    /\ seen \in [AlertIds -> Nat]
    /\ owed \subseteq alerts
    /\ gone \in Nat /\ come \in Nat

\* The alerts that the walk still owes.
Missed == {a \in owed : seen[a.id] = 0}

\* Of the alerts that matched when the walk began, one that has come to a page
\* with no next one has missed no more than have left the result meanwhile:
\* alerts that are stored or found anew push others from page to page, and rows
\* and total come from two queries, but neither costs it any.
MissesHaveLeft ==
    walk.pc = "done" => Cardinality(Missed) <= gone

\* Only a search looks at what can change: a walk without one misses nothing,
\* and its last total counts every row up to its last.
PlainWalkMissesNothing ==
    walk.pc = "done" /\ walk.filter.search = None =>
        /\ Missed = {}
        /\ Offset(walk.page, walk.size) + Cardinality(walk.rows) <= walk.total

\* An alert is handed out again only because others that were stored, or found
\* anew, since the walk began have pushed it on, at least one for each repetition.
RepeatsWerePushed ==
    \A n \in AlertIds : seen[n] <= 1 + come

\* The total of an answer is less than what its rows imply only by alerts that
\* have left the result: the rows of a page and those of the pages before it
\* have been counted.
TotalCoversPage ==
    walk.pc = "done" =>
        Offset(walk.page, walk.size) + Cardinality(walk.rows) <= walk.total + gone
=============================================================================
