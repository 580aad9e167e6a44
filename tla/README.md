# AlertHub: specifications, model checking and proofs

AlertHub is a Go service (gin, PostgreSQL, Redis) that takes alerts from
devices, stores them, streams them to the browser sessions of the devices'
owners, escalates bursts, and manages the accounts and devices around this.
This directory specifies its core in TLA+, checks the specifications with TLC on
small instances and proves theorems about them with TLAPS for all instances.
Paths below are relative to the repository.

## 1. The system

```
 device ── POST /events, /events/batch ──> IngestService ──INSERT──> alerts (PostgreSQL)
                                               │ pg_notify(alert_channel, {client, alert})
                      ┌────────────────────────┴──────────────┐
              AlertListener (1 goroutine)           EscalationListener (1 goroutine)
                      │ FindByID, Dispatch                    │ FindByID, HandleNewAlert
              streamService: subscriber map                   │ scan window, claim cooldown (Redis),
                      │ one channel of 32 per connection      │ INSERT marker, pg_notify
              SSE handlers ──> clients                        └──> alerts, alert_channel
 client ── GET /alerts ──> queryService ──> alerts           (COUNT and page are two queries)
 client ── /auth/* ──> authService ──> clients, client_tokens   (some behind Auth, a JWT)
 client ── /devices/* ──> deviceService ──> devices <── DeviceAuth, before every event
```

No request uses a transaction across two calls of a repository; `CreateBatch` is
the only transaction there is. The only lock in the program is that of the
subscriber map. Everything else that protects the state is in SQL statements
(their WHERE, COALESCE, a partial unique index), in Redis' SET NX, or in the way
channels are used. That is what the models are about.

| Component | State | Operations | What is hard |
|---|---|---|---|
| alert stream, `core/services/alert/alert_stream_service.go`, `core/handlers/alert/alert_stream_handler.go` | subscriber map, one bounded channel per connection | Subscribe, Unsubscribe, Dispatch, the handler's select loop | Dispatch works on a copy with no lock held and drops the oldest alert of a full channel in three separate channel operations, the last of which blocks |
| alert delivery, `alert_ingest_service.go`, `alert_listener.go`, `alert_notifier.go`, `alert_repository.go` | alerts table, LISTEN session, notifications under way | IngestEvent, IngestBatch, listen, handleNotification | rows and notifications are separate; a notification reaches only who listens now; sessions break |
| alert listing, `alert_query_service.go`, `alert_repository.go` (List), `utils/pagination` | none of its own | ListAlerts | rows and total are two queries; alerts arrive anywhere in the order while a client walks the pages |
| escalation, `alert_escalation_service.go`, `alert_escalation_listener.go`, `cooldown_redis.go` | cooldown keys in Redis, markers in the alerts table | HandleNewAlert, listen | several instances handle the same notification; five calls that can each fail; clocks |
| refresh tokens, `services/auth`, `repository/client_token` | client_tokens | Register, Login, Refresh, Logout, LogoutAll, RevokeSession | a refresh is four statements and other requests run between them |
| device registry, `services/device`, `repository/device` | devices | create, update, delete, restore, rotate key | check and write are two statements, the row is written back as it was read |
| device list, `services/device` (ListDevices), `repository/device` (List) | none of its own | ListDevices | total and rows are two queries; devices come and leave while a client walks the pages |
| registration and clients, `services/auth`, `repository/client`, `router/auth` | clients | Register, Login, the seed of the sample client | two registrations of one address; the lookup ignores case, the constraint does not |
| authentication, `middleware/auth.go`, `middleware/device_auth.go`, `utils/token` | none (JWT), devices | Auth, DeviceAuth | an access token outlives every revocation; a key must die with its rotation or its device |
| wiring, pool, configuration, routing, DTOs, generated docs | none, or that of libraries | | both listeners keep a connection of the pool |

What makes each component correct:

- **stream**: a client sees nothing that is not its own; alerts in order and
  none twice; a stalled connection stops nobody; an alert is lost only to
  overflow, and then the oldest goes.
- **delivery**: a stored alert is dispatched at most once and batches in order;
  what a device was told is accepted is not forgotten in silence; what is stored
  while a connection is open is shown, or something newer is.
- **listing**: a walk over the pages misses nothing that was there at its start and
  repeats only what was pushed on; with a search, whose result changes with the names
  of devices, what it misses is accounted for by what has left the result.
- **escalation**: at most one escalation of a device and type per cooldown,
  each with real evidence; a burst is escalated when nothing fails; markers
  escalate nothing; the pipeline comes to rest.
- **refresh tokens**: one usable token per session, no replay, a revocation is
  never undone, a family that is dead stays dead.
- **accounts**: one account per address, unless two registrations overlapped;
  every token belongs to an account.
- **devices**: live names of a client are unique, rotated keys are dead, closed
  restore windows stay closed, deleted devices keep their key; whatever overlaps,
  every statement is a step that `DeviceRegistry` allows on the table as it is at that
  moment. It is no promise that a request looks and writes at once: a patch may
  put back a field that another has changed since, or change a deleted device.
- **device list and keys**: a walk misses only what its devices' comings and goings
  explain; a key that is dead for good opens nothing.

`PROJECT.json` lists the hazards of the code line by line, with the properties
that cover each, and says of the others why none does.

## 2. The modules

| Module | Models | Checked by | Proved in |
|---|---|---|---|
| `AlertFeed` | the promise of the SSE endpoint to one connection (abstract) | through `AlertStream` | `AlertStreamProofs`, `AlertDeliveryProofs` |
| `AlertStream` | Dispatch and the stream handler | `AlertStreamFanOut` | `AlertStreamProofs` |
| `AlertDelivery` | extends `AlertStream` by ingestion and the AlertListener | `DeliveryChain`, `DeliveryGap` | `AlertDeliveryProofs` |
| `Pagination` | `utils/pagination`: offsets, pages, `has_next` | through the two that page | `PaginationProofs` |
| `AlertListing` | pages of GET /alerts and a walk over them; extends `Pagination` | `ListingWalk` | `AlertListingProofs` |
| `Escalation` | HandleNewAlert on several instances | `EscalationFaults`, `EscalationProgress`, `EscalationBurned` | `EscalationProofs` |
| `RefreshTokens` | sessions and rotation | `RefreshRotation`, `RefreshStraggler` | `AccountsProofs` |
| `Accounts` | extends `RefreshTokens` by registration, the seed, login by address and access tokens | `RefreshRotation` | `AccountsProofs` |
| `DeviceRegistry` | the promise of the registry: every statement that writes is one step on the table as it is (abstract) | through `Devices` and `DeviceReads` | `DevicesProofs` |
| `Devices` | the requests that write the registry, statement by statement | `DevicesRequests`, `DevicesPatched` | `DevicesProofs` |
| `DeviceReads` | extends `DeviceRegistry` by a walk over GET /devices and by DeviceAuth | `DeviceReads` | `DeviceReadsProofs` |

`Devices` implements `DeviceRegistry` (`ImplementsRegistry`), and `DeviceReads` is
built on `DeviceRegistry`: readers see nothing but the table, so that what holds
for them over the abstract writers holds over the real ones.

`MC<module>` gives TLC what a `.cfg` cannot say: owner functions and symmetry
sets. Definitions marked *Variant* are seeded faults: each is a form of the
definition below it that a plausible slip would produce (a lost guard, a missing
COALESCE, an off-by-one, a swapped order). No specification uses them. Put in the
place of the original they show that a property notices: `PROJECT.json` names
for every property of every run the variant that breaks it.

**How state and actions correspond to the code**

- *AlertStream.* `subscribers`, `sub` are the map of `streamService`, `queue`
  the channels, `handler` the place of an HTTP handler in `Stream`. A call of
  Dispatch is one step per channel operation: `Dispatch` (copy under RLock),
  then for each subscriber of the copy in any order `Skip`, `TrySend`, or
  `FindFull`, `DropOldest` and `BlockingSend`. `WriteAlert` is the select case
  that takes from the channel and writes; with the request cancelled, select may
  still take it. `written` is what went to the response, `log` numbers the
  alerts in the order of Dispatch, `since` and `until` are history.
- *AlertDelivery.* `rows` is the table, `request` a request handler between its
  INSERT and its last NOTIFY, `inbox` what PostgreSQL has sent to the session,
  `published` relates the numbers of AlertStream to rows. `Handle` is
  handleNotification: it *is* a Dispatch step of AlertStream. `Abandon` is a
  failed NOTIFY or a lost request, `Disconnect` the end of the session with some
  part of what was sent lost. Data refused by validation leaves no trace and is
  not modelled.
- *AlertListing.* `walk` is a client that asks for page 1, 2, ... until
  `has_next` is false. `ListPage` and `CountPage` are the two queries of one
  request; `Insert` runs between any two. `Before` is the ORDER BY, with
  random ids that break ties. `Found` is the search: an alert says `text` (message and
  type), `ILike` gives the texts that contain a term, `names` is the column that a patch
  changes (`Rename`). `owed`, `gone` and `come` are history.
- *Escalation.* `worker` is HandleNewAlert between two calls: scan, claim,
  insert, notify. `expires` is the Redis key. `now` is one clock for all
  instances, the database and Redis; `occurred_at` is up to `Skew` away from it
  in both directions. `FaultKinds` are the ways a call can fail, including a
  claim that succeeds with its reply lost. The Redis client's own retry is then a
  refusal or an error, both of which end the handling. For a marker, `of`,
  `scan` and `claim` are history.
- *RefreshTokens.* One step per SQL statement. FindByHash and the checks on the
  row are one step (`Accept`, `DetectReuse`), since nothing but the row decides.
  `answered` is the set of tokens some caller was given; a caller may present any of
  them at any time, twice or concurrently. `from`, `ended`, `raced` are history.
- *Accounts.* `joining` is a registration, or the seed of a process that starts,
  between its look for the address and its INSERT; `clients` is the table, with
  `known` the history of what the look saw. `Lower` is lower() of the database: the
  look and the login compare by it, the unique constraint does not. The clock and
  the refresh tokens are those of `RefreshTokens`, whose steps it takes; logout,
  the list of sessions and their revocation are behind `Authenticated`, which asks
  for an access token issued with some refresh token and not expired.
- *DeviceRegistry, DeviceReads.* `Change` is any statement that writes. `walk` asks for
  page 1, 2, ... until `has_next` is false; `CountDevices` and `ListDevices` are the two
  queries of one request. `missing`, `gone`, `slipped` are history. `FindByAPIKeyHash` is
  the lookup of DeviceAuth.
- *Devices.* One step per SQL statement: a request reads (`CreateDevice`,
  `Rename`, `SetStatus`, `RestoreDevice`, `RotateAPIKey`), may check the name,
  and writes (`Create`, `Update`, `Restore`, `UpdateAPIKeyHash`). `Write` is
  the unique index. Type, tags and metadata go the way of `status`.

## 3. The runs

Bounds are constants of the modules (`Max...`) and appear in guards only. All
runs set CHECK_DEADLOCK FALSE because the environment may stop: no device must
send, no client must come, and the bounds end every behaviour; that the program
does not get stuck is what the liveness properties say.

| Run | Question | Bounds and why they suffice |
|---|---|---|
| `AlertStreamFanOut` | order, no duplicates, no blocked fan-out, losses; is the stream an AlertFeed; does Dispatch return | 2 connections, channel of 2, 4 alerts: a channel overflows twice while it is being drained, one connection leaves in the middle of a Dispatch; only dispatchers are fair |
| `DeliveryChain` | the whole way of an alert | 2 requests, batches of up to 2, 3 alerts, channel of 1, one fault of any kind at any place, an owner and a stranger |
| `DeliveryGap` | *violated*: "sends `event: alert` whenever one of the client's devices ingests an alert" | see findings |
| `ListingWalk` | walks while alerts arrive and devices are renamed | 3 alerts of 2 devices of a client, in any order of their random ids (times and owners that differ are left to the proofs), with and without a search, pages of 1 and 2: totals the size divides and does not; 2 renames, so that a device leaves the search and comes back |
| `EscalationFaults` | spacing under all faults | 2 instances, 2 faults of 9 kinds, cooldown 1, alerts from past and future; a threshold of 1 keeps it small, which the proofs make up for |
| `EscalationProgress` | bursts are escalated, escalations are bursts, the pipeline settles | threshold 2, window 1, cooldown 2, clock to 3: a burst may straddle windows and outlive a cooldown; devices may send the marker type |
| `EscalationBurned` | *violated*: a skipped alert is a duplicate | see findings |
| `RefreshRotation` | accounts, rotation and revocation, on `Accounts` | 2 accounts, one address in two spellings, 2 requests at a time, each a refresh or a registration, 3 tokens (a chain of two rotations, or two successors of one token), one failure, expiry of both kinds of token |
| `RefreshStraggler` | *violated*: reuse revokes the family | see findings |
| `DevicesRequests` | registry under interleaving, and is it a DeviceRegistry | 2 clients, 2 devices, 2 names, 3 keys, 2 requests at a time, a clock that closes a restore window; one status, so that its changes are left to the proofs |
| `DevicesPatched` | *violated*: deleted devices are not updated | see findings |
| `DeviceReads` | walks over the devices and key lookups while the table changes | 3 devices of one client, all of which may be live, pages of 1 and 2, and a size above the maximum that is refused: totals the size divides and does not; up to three pages, of which deletions move devices to an earlier one and restores to a later one; with and without `include_deleted`; every change between any two queries. One status, so that the status filter and changes of status are left to the proofs |

**Fairness.** Weak fairness, always on steps of goroutines that the Go scheduler
runs whenever they can: a call of Dispatch that has begun (`DispatchFairness`),
request handlers between INSERT and answer, listeners and their reconnect, the
stream handler's receive. Nothing is assumed of devices, clients, faults or the
clock. `DispatchReturns` assumes nothing of the handlers: a connection may stall
for ever. `ServesFeed` and `StoredIsShown` assume that a handler whose channel is
not empty gets to write. A bounded number of faults means that progress is claimed
only for systems in which faults cease.

**Preconditions.** `InOrder`, `NeverBlocks` and `LostOnlyToNewer` hold for one
dispatcher, which is what `server.Run` starts; with two, the blocking send can
block. `Isolation` needs no such assumption. `BurstEscalated` is stated for alerts
that were stored and handled at one moment of the clock, with no fault so far; the run has the
clock stand still while an alert is under way, the theorem does not need that.
`OneUsableToken` exempts families in which two rotations overlapped (`raced`):
two refreshes that both pass the checks do get two live tokens, as four unrelated
statements must. `EndedStaysEnded` says the same of revocations: a family revoked
whole stays dead if nobody was inserting into it at that moment. `TwinsOverlapped` is
the same for registrations: the comment of `auth_handler.go:35` that an account is
created "with a unique email" holds up to overlapping registrations that differ in
case, and the second of two that do not differ is answered 500, not the 409 of line 42,
because the error of the constraint is not mapped. `MissesAreExplained` bounds what a
walk over the devices may miss by what left the result, and by what came in
between a COUNT and its SELECT on the last page; it assumes that no two devices of a client are created
at one instant, as the ORDER BY has no tie-break.

## 4. Findings

1. `EscalationBurned` (`alert_escalation_service.go:87`). The cooldown is claimed
   before the marker is inserted and not given back when the insert fails: until
   it expires every alert of the burst is skipped, although README.md:164 says an
   alert is skipped because another instance has claimed it and so as not to emit
   a duplicate. Nothing was emitted.
2. `DeliveryGap` (`alert_listener.go:61`). What is notified while the listener has
   no session is not seen again; the stream does not send every ingested alert.
   `StoredIsShown` says what does hold.
3. `RefreshStraggler` (`auth_service.go:98`). A refresh under way inserts its
   successor after its family was revoked for reuse, so that the family has a
   live token. `EndedStaysEnded` says when revocation is final.
4. `DevicesPatched` (`device_repository.go:162`). A patch that read the device
   before its deletion changes it afterwards, which README.md:523 excludes. The key
   is safe (`DeletedKeepsKey`), because the statement for it repeats the check.

## 5. What is proved

Every theorem is for all values of the constants, under the ASSUMEs of the modules
(a capacity of at least one, cooldown and threshold of at least one, at least one
process, numbers where numbers are meant). Every safety invariant and every action
property of the passing runs is a theorem. The shape is the same throughout: an inductive invariant `Inv`
with named parts, `Init => Inv`, `Inv /\ [Next]_vars => Inv'` with one step per action,
and the properties as consequences.

- **AlertStreamProofs.** `TypeCorrect`; `BlockingSendFindsRoom`: a dispatcher that
  is about to send owns the last place, since the only other process that touches
  the channel takes from it; `StreamIsolation`, for any number of dispatchers: every
  entry of a channel was put there by a call whose copy of the map was made
  while the subscriber was in it; `StreamOrder`: what has reached a connection is
  older than the alert in the dispatcher's hands; `StreamImplementsFeed`: the
  steps of the stream are steps of `AlertFeed` or stutter.
  `NewestIsKept` and `WithinCapacityNothingIsLost` come from one invariant about loss,
  `DeliveredInv`, which neither statement is strong enough to be. `ApartInv`: no two calls
  of Dispatch carry one alert, and a channel holds no alert twice and none that a call
  has yet to send there. `KeptInv`, for one dispatcher: of every alert a subscribed connection
  is owed, that one or a newer one has reached it or is in a call that has yet to
  send it. `FullInv`: a connection whose channel a call has found full is owed more than
  BufferSize alerts. `LossInv`: a connection that is owed no more than BufferSize alerts has
  each of them, or a call has yet to send it. `FullInv` is where the second theorem counts: the
  alerts in the full channel and the one in hand are BufferSize + 1 different alerts owed, so
  that what a call drops is never taken from a connection `LossInv` speaks of. The second
  theorem holds for any number of dispatchers, the first for one.
- **AlertDeliveryProofs.** `SystemTypeCorrect`, `EachIsPublishedOnce`, `BatchesInOrder`,
  `AcceptedAreAccountedFor` are about what has been dispatched or answered, but what makes
  them true is decided when rows are stored and notified. `SystemInv` follows an id on its way.
  `TableInv`: the rows of a request are consecutive, it has a tail of them left to
  notify, and no two requests in progress share a batch. `PlaceInv`: whatever has been placed of
  the batch of a request comes before what it notifies next (`NotifiedInv`); of one batch
  the published come before those in the inbox, each in order, and nothing that is
  there is also missed (`WayInv`); every stored id is placed or waits for a request, and
  every accepted one is placed (`AccountedInv`). No alert is published twice, since each
  is newer in its batch than all that was published of it before. `DeliveryImplementsStream`: a
  step of the chain is a step of `AlertStream` with the listener as its dispatcher, or
  leaves the stream alone; so `ConnectionsGetTheirAlerts` and `DeliveryImplementsFeed`, from the
  theorems about the stream.
- **EscalationProofs.** `TypeCorrect`; `EscalationsAreSpaced`: the key in Redis never
  expires before claim + cooldown of any marker or of any worker that holds a claim,
  hence the next claim is late enough; `EscalationsHaveEvidence`: what a worker holds
  as sources was, and stays, a burst in its window; `BurstsAreEscalated`, which asks for
  neither prompt handling nor a bound on anything: while nothing has failed, a key that was added to at
  this moment is below the threshold, or its cooldown is active, or one of its alerts is
  still to be notified, queued, scanned or claimed for (`HeardInv`), and that scan will see every row there
  is; and whatever is claimed has a marker or a worker about to insert it (`ClaimedInv`). A tick
  is harmless as nothing is fresh after it.
- **AccountsProofs**, on `RefreshTokens`. `TypeCorrect`; `NothingIsTakenBack`; `RotationStaysInFamily`:
  a request between its statements holds a token and a successor of one family,
  marked before it is linked; `EndedFamiliesStayEnded`: no request is about to
  insert into a family that ended; `OneTokenIsUsable`: in a family that is not raced one
  request at most rotates (`Sole`); it holds the one token that was handed out and not
  replaced, until it replaces it by one that nobody has been given (`Holding`); and what
  was handed out for a token replaced it, so that no two came from the same (`Chained`).
  On `Accounts`. `AccountsTypeCorrect`; `AccountsImplementTokens`: every step of
  `Accounts` is a step of `RefreshTokens` or leaves the tokens alone, so that all of the above
  holds with accounts around it (`AccountsKeepSessions`); `TwinsTakeOverlap`: whoever is about to
  insert an address saw, among the accounts it knew, none that matches (`TwinInv`).
- **DevicesProofs.** `TypeCorrect`; `LiveNamesAreUnique`; `RotatedKeysStayDead`: keys in
  the hands of requests are fresh, keys on rows differ from each other and from
  the dead; `ClosedWindowsStayClosed`: no restore of an expired device is under way;
  `DeletedDevicesKeepTheirKey`; `MuteKeysOpenNothing`: what `DeviceReads` says of keys over
  the abstract registry holds between any two statements; `DevicesImplementRegistry`: a write maps to one step of
  `DeviceRegistry`, the tick that closes a restore window to `Finalize`, and everything else
  stutters. The invariant (`RegistryInv`) is that of the other theorems, which makes new
  keys and restored devices admissible, with `InsertInv`: what is about to be inserted is alive.
- **PaginationProofs.** Lemmas only: offsets of neighbouring pages meet, `has_next` is
  false exactly when the page reaches the total, and positions in a finite strict order differ
  and lie between 1 and the number of rows (`RankType`, `RankInjective`), so that no more
  rows come after a position than are left (`RowsAfter`).
- **AlertListingProofs.** `TypeCorrect`, `WalkMissesHaveLeft`, `PlainWalksMissNothing`,
  `RepeatsArePushed`, `TotalsCoverPages`, all from one invariant, `WalkInv`. Of the alerts still
  owed, those that are not in the result, or stand before the position the walk has come to, are
  no more than have left it (`LateInv`): when rows leave, those that move up past that position are no
  more than left before it, since all that stay there stay there (`LeaversMakeLate`). An alert was seen at
  most once more than alerts came into the result, and that once only if the walk has passed
  its position, which an alert that left the result keeps (`RepeatInv`). No offset exceeds
  the result by more than has left (`TotalInv`). Without a search nothing leaves (`PlainInv`).
- **DeviceReadsProofs.** `ReadsTypeCorrect`; `MuteKeysStayRefused`: keys of devices are
  distinct and not retired, final devices deleted (`RegInv`); `WalkMissesAreExplained`: the missing
  devices at positions the walk has passed (`Late`) are no more than have left (`LateInv`), since a
  device that leaves moves the others up by one and one that enters moves none of them up;
  and a total that ends the walk too early is short by no more than entered (`SlippedInv`).

Only model-checked: liveness and fairness (`DispatchReturns`, `ServesFeed`, `StoredIsShown`,
`AlwaysSettles`), which TLAPS does not reach: it has no ENABLED and so no rule for WF. The
four runs that expect a violation state what is not true and have nothing to prove.

## 6. What is not modelled

- Heartbeats and write errors of the stream: they change no state.
- How ILIKE compares (case, wildcards in the term, trigram indexes): what a term finds is
  any set of texts. The wording of errors.
- The INSERT of an event after its key was looked up: a key that dies in between still
  stores that one event, and nothing in the repository says otherwise.
- Backoff durations: only that a session comes back some time. `listen` never
  returns nil, so that the backoff is never reset; no property depends on it.
- The purge that `purge_after` announces: there is no code for it.
- Different clocks: instances, database and Redis share one. With skew between
  them cooldowns and windows shift by the skew.
- `cooldown_memory.go`: only tests construct it. It checks and sets under a mutex,
  which is the one atomic step that `Escalation` has for SET NX.
- The signature of access tokens and the hashes of keys, tokens and passwords: a
  caller presents what it was given, and hashes do not collide.
- The connection pool. Both listeners keep a connection for good and ask for
  another while they hold it; with the constant MaxConns of 10 that cannot block, since every
  other use of a connection ends.
- Integers of fixed width: (page - 1) * page_size overflows for a page nobody walks to.
- GET /clients/me, routing tables, request ids, configuration, DTOs, generated
  documentation: no state, or read once. See `PROJECT.json`.

## 7. Plan

Order of work, the first ten done:

1. `AlertStream` and `AlertFeed`, with proofs: the heart of the program.
2. `Escalation`, with proofs.
3. `RefreshTokens`, with proofs.
4. `Devices`, with proofs.
5. `AlertDelivery`, the composition, and `AlertListing`.
6. `Accounts` on `RefreshTokens`; `DeviceRegistry` as the promise of `Devices`; `DeviceReads`
   on it; `Pagination` shared by both walks. Proofs for all of them.
7. `OneUsableToken` and the properties of `AlertListing` as theorems.
8. Proofs for `AlertDelivery`.
9. `LostOnlyToNewer` and `NoLossWithinCapacity` as theorems.
10. `BurstEscalated` as a theorem.
11. `DeviceReads` over `Devices` itself: the composition in one specification, which
    implements `ReadsSpec`, so that `MissesAreExplained` need not be carried over by argument.
12. The safety part of `StoredIsShown` as one statement of the chain: what was accepted
    while a connection was open is written, on its way, pushed out by something newer, or missed.
