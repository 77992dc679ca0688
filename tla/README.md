# BookWarehouse Ebooks for Silo: a TLA+ verification project

The plugin is the ebook backend between the `silo.ebooks` portal and an external
BookWarehouse server: it forwards the portal's requests, follows them until they are settled,
serves the catalog and the files of its books, and keeps its own settings in PostgreSQL. These modules model
the parts of it that keep state or work on it concurrently. TLC checks them on small
instances, and TLAPS proves every safety property of the runs for every value of the constants. All paths below are relative to the repository;
`PROJECT.json` maps every definition to its lines.

## 1. Inventory

### Components, state, operations

| Component | State it keeps | Operations | Modelled in |
|---|---|---|---|
| `internal/store/request.go` | table `forwarded_request` | `UpsertForwardedRequest`, `MarkPolled`, `ListNonTerminal`, `RequestStats` | `ForwardedRequests`; order and limit of the list in `ReconcilerTick` |
| `internal/consumer` | nothing but its invocations | `HandleEvent`: upsert *submitted*, `AddMonitoring`, upsert *acknowledged* or *failed*, publish, ack or nack | `RequestLifecycle` |
| `internal/reconciler` | `tickMu`, per instance | `Tick`: list, poll each row, `MarkPolled` or upsert, publish | `RequestLifecycle`, `ReconcilerTick` |
| `internal/scheduler`, `internal/event` | nothing | start of a tick; publication whose error is only logged | `RequestLifecycle` |
| `cmd/.../main.go` | atomic pointers to consumer dependencies and reconciler, the pool | the Configure callback | `RequestLifecycle` (pools), `PluginConfig` (settings), `ConfigureGenerations` (the order of its switches) |
| `internal/store/store.go` | the `app_config` row | `GetAppConfig`, `UpdateAppConfig`, `ImportLegacyAppConfig` | `PluginConfig` |
| `internal/runtime`, `internal/server` | `s.deps.Config` | `Configure`; `PATCH /api/v1/admin/config`; read-only diagnostics | `PluginConfig` |
| `internal/bookwarehouse/client.go` | base URL and key under a lock, cover size behind an atomic pointer | `Reconfigure`, `SetDefaultCoverSize`, upstream calls | `PluginConfig`; its calls in the other modules |
| `internal/catalog` list and search, `bookwarehouse/catalog.go` | none; a scroll's state is its cursor | `List`, `Search`, `ListBooksDeduped`, `ListBooks` | `CatalogPaging` |
| `bookwarehouse/browse.go` and its routes | none; a scroll's state is its cursor | `ListGenres`; authors, series and tags are always empty | `CatalogPaging` (genres) |
| cover and file routes, `internal/tokens`, `GetStreamWithRange` | none; a download's state is what the reader has | `Verify`, `Cover`, `File` | `MediaDelivery` |
| `internal/httproutes` | the handler pointer | `Handle`: an RPC to HTTP and its complete answer back | `MediaDelivery`; the pointer in `PluginConfig` |
| `external_search.go`, `internal/request`, `internal/migrate`, manifest | none; schema | one upstream call each, mapped; migrations, static data | not modelled |

### How they interact

The host calls the plugin: `Configure` (serially, again after every restart),
`HandleEvent` (at least once, until it returns no error, possibly several at a time), the
reconciler's cron (every minute) and HTTP requests. Consumer and
reconciler share the table; the reconciler's loop works on rows it listed
before. Both call the upstream through a client that the admin server may reconfigure
under them. Both talk to the portal through `Publish`, whose failure nobody sees.
Configure makes a new pool, client, server and reconciler and switches the parts over
one after the other while invocations on the old ones go on; then it closes the old pool.
A download is a request of its own for every part: each goes through the handler, the secret and the link
of its moment, and between two of them everything may have changed.

### What is hard

- *Duplicates and retries*: a second `HandleEvent` for a request that is in progress or
  settled; a nack after the upstream accepted; a lost reply.
- *Stale snapshots*: a failed poll rewrites the status and id of the row as it was listed.
- *Failure between two steps*: each statement may fail before or after its commit, the
  process may die between any two calls, the tick's budget may end anywhere.
- *Reconfiguration*: two reconcilers with two mutexes; invocations on a closed pool; a
  PATCH that overlaps with a Configure or another PATCH.
- *Order and limits*: the list is cut at 200 rows and the loop at 45 s; the fan-out of a
  catalog page is bounded; page numbers move when books come and go.
- *Bodies*: the client's 30 s also cover the body of a file, an error after the first byte is
  dropped, and a file may be replaced between two ranges of it.

`PROJECT.json` lists these as hazards, each with its line and the properties that
would catch it.

### What makes each component correct

- *Requests*: an acknowledged event is not lost; a terminal status is final; an external id
  is the request's own and is kept; nobody hears of a fulfilment that is not true; every
  request is settled at last and its outcome told.
- *Ticks*: rows are polled in turn and none starves.
- *Settings*: no client mixes the base URL and the key of two saves; at rest every part works
  with the row; the row wins over the host once the operator has saved.
- *Catalog*: one card per work on a page, no gap in a scroll, no empty page in its middle, no cursor that leads back,
  and an end.
- *Downloads*: what a reader puts together is of one version of the file, what it takes for whole is
  whole, nothing is fetched twice, and it ends.
- *Configure*: whoever is in force has an open pool, and there are never more than two.

## 2. Modules

    ForwardedRequests        the table and its two statements (no variables)
      RequestLifecycle       consumer + reconciler + Configure + upstream + host
        RequestPromise       the abstract specification, by INSTANCE ... WITH
        MCRequestLifecycle   constants for TLC
      ForwardedRequestsProofs, RequestLifecycleProofs, DeliveredOnceProofs
    PluginConfig             app_config, Configure, PATCH, client settings
      MCPluginConfig, PluginConfigProofs
    ConfigureGenerations     abstract: the order of Configure's switches and pools;
                             PluginConfig implements it
      ConfigureGenerationsProofs
    ReconcilerTick           order, limit and budget of Tick
      MCReconcilerTick, ReconcilerTickProofs
    CatalogPaging            scrolling through the deduplicated list and the genres
      MCCatalogPaging, CatalogPagingProofs
    MediaDelivery            signed links, covers and files, with a reader that resumes
      MCMediaDelivery, MediaDeliveryProofs

**ForwardedRequests.** A table is a function from request ids to rows; `Merge` is the
`ON CONFLICT DO UPDATE` (terminal guard, the three COALESCEs, `auto_monitor OR`), `Polled`
the `SET` of `MarkPolled`. The insert half of the upsert is the merge into a row of NULLs.
`error_text` is whether it is NULL, `last_polled` a number with 0 for NULL.

**RequestLifecycle.** One action per database or network call. For a handler:
`HandleEvent` (first upsert), `AddMonitoring`, `PersistAcknowledged` or `PersistFailed`,
`TellPortal`, `Ack`; an invocation keeps the generation of the dependencies it loaded, so
its statements fail when that pool is closed. For a tick: `TickStart` (TryLock and
listing), then per row `GetMonitoring`, `RecordPoll`, `PublishChange`; `BudgetExpires` is
the early exit. A snapshot row holds the id and status as listed. `ConfigureConsumer`,
`ConfigureReconciler`, `ClosePool` are the callback in its order. A monitor of the
upstream stands for a set of requests, because BookWarehouse may answer a second
submission with an id it handed out before; it moves through any status strings, also
unknown ones, until it is imported or failed. Here the list has no limit and a tick
takes its rows in any order; `ReconcilerTick` has both.

**RequestPromise.** What the portal may rely on: an accepted request is pending
until it is imported or failed, once and for all, and is imported or called fulfilled
only when its book is available. The mapping reads `outcome` from the row's status,
`available` from the upstream's list and `told` from what was sent.

**PluginConfig.** A configuration is base URL, key, cover size and signing secret. The import
is three actions (read, write, read again), then the switch of the HTTP server, the
consumer and the reconciler, then the closing of the old pool. A PATCH is five actions:
read, persist, assign `s.deps.Config`, `Reconfigure`, `SetDefaultCoverSize`. The assignment is an
unsynchronised write of a struct, so two at a time may mix their fields, and a string that both change may
come out as neither's (`Raced`, `Torn`): a Go string is a pointer and a length.

**ConfigureGenerations.** Three variables: the generation of the consumer, that of the reconciler, and the open
pools. `PluginConfig` maps its `serving` to the first two and has every statement and every failure between them: that it implements
this module (`KeepsGenerations`) is a check with content. The three steps that `RequestLifecycle` has of Configure are steps of this
module as they are written, so there is nothing to check; that they are the code's is what `PluginConfig` shows. What follows from the
order (`WorkersHavePools`, `TwoPools`) is proved once.

**ReconcilerTick.** `last_polled` is its rank among the stamps and NULL sorts first
(the statement orders by `COALESCE(last_polled, year 1), request_id`). A poll takes some seconds of the
budget; one that outlasts it is cut off and leaves no stamp. Rows without external id
(orphans) are listed but not polled.

**CatalogPaging.** The upstream's list is a sequence of editions. One action per upstream
page of a fan-out; between two of them editions may be added or removed anywhere. An
edition is its identity and the normalised work it is of. `Deduped` appends the editions of a page at the places
`Fresh`: those whose key neither the fan-out nor an earlier place of the page has. A scroll through genres has one
upstream page per request and no deduplication, and its next cursor is made of the page number the answer has (`NextGenres`), which
is 0 if it has none. What the upstream does with genres is not in the repository, so every answer may have its page number or not
(`Echoing`), and be the page of the cursor or the first one (`ReadsCursor`).

**MediaDelivery.** Bytes are chunks of a version of the file. A call is a request to the handler in force (`Gate`: the
router and `Verify`), the headers of the upstream (`GetStream`), chunk after chunk of the body (`Copy`), and the
answer (`Finish`, `BreakOff`), which the adapter sends only when the handler has returned. `Window` is how many chunks arrive
in the client's 30 s. `Relayed` is what the plugin passes on: status, ETag, Content-Length and Content-Range of
the upstream, and the part of the body that was copied. `Received` is the external reader: it asks with Range for
what it has not got, joins a 206 only to what has the same ETag, and starts over with anything else.

**History variables** (they never occur in a guard): `sent`, `waiting`, `pairs`, `apart`, `since`,
`steady`, and `host` and `configure.alone` of PluginConfig.

**Faulty variants.** Definitions commented "A faulty variant" are plausible bugs, several of
them bugs the code's own comments say it once had. No specification uses them: `PROJECT.json` pairs each with the definition
it replaces and the property that then fails.

## 3. Runs

| Run (cfg) | Question | Bounds | Distinct states |
|---|---|---|---|
| Redelivery | is no acknowledged request lost, does no late write undo an outcome, is the composed system a RequestPromise, is `IInv` invariant? | 1 request and one of another backend, 2 handlers, 1 tick, 2 ids, 1 duplicate, 2 faults of any kind | 901,719 |
| InOrder | do requests mix, restart, or contradict each other when each event is delivered once; is a recorded outcome told, and the error of a poll cleared? | 2 requests, 2 ids, an unknown status, 2 faults out of poll, reply, budget, fairness | 251,033 |
| Settles | is every request settled, the promise kept in time, and nothing acknowledged lost, across reconfigurations? | 1 request, 1 handler, 2 ticks, 1 duplicate, 2 generations, 1 fault of any kind, fairness | 738,749 |
| RedeliveryContradicts | *violated*: is the portal told one outcome under redelivery? | 1 duplicate, no fault | - |
| Overlap | *violated*: does the mutex exclude overlapping ticks? | 2 generations, no fault | - |
| Settings | do settings stay in step through races, failures and a crash; is Configure a ConfigureGenerations? | 2 PATCHes, 2 generations, 1 fault | 1,823,576 |
| HostSecret | *violated*: is the secret in force the host's? | 1 PATCH, 1 generation, 1 crash | - |
| Rotation | are rows polled in turn, and does none starve? | 5 rows, 1 orphan, limit 3, 1 fault, fairness | 41,748 |
| Starvation | *violated*: the same with as many orphans as the list has places | 3 orphans | - |
| Scroll | does a scroll show everything, once per page, and does one through books end? | lists of 0 to 3 of 5 editions in every order, up to 4, 3 limits, fan-out 2, 1 removal or failure; the same lists of genres, with and without page number, cursor read or not; fairness | 2,328,694 |
| GenreScroll | *violated*: does a scroll through genres end if the answers have page 0? | the same lists up to 3, no fault, `cursor` read, fairness | - |
| Media | is a download of one version, whole, never fetched twice, and does it end? | files of 1 to 3 chunks and covers of 1 or 2, 2 of them in time, 4 kept links, 2 secrets, 4 faults (expiry, secret, crash, broken or refused request, replaced file), fairness | 215,111 |

Why the bounds suffice. The lifecycle's conflicts are between at most two writers of one
row, so one row with two handlers and a tick, or two ticks and a handler, meets every pair;
two requests with a shared monitor meet every mix-up of rows. Two faults allow a failure
and the failure of its retry. Two generations give one old and one new holder of
everything. For settings two PATCHes and one Configure are every pair of writers. The
rotation is scaled: limit 3 for 200, a budget of 20 s with polls of 1 s or 10 s for 45 s with
polls of up to 10 s; what matters is that both the limit and the budget end before the rows do: after one slow poll
the second is cut off by the end of the budget.
For the scroll the maximal limit is 2, the default target 3, the upstream's page 1 and the fan-out 2,
so that a page is filled by one call, by several, or not at all; a limit of 3 is above the maximum. A file of three chunks with two in time is one that
no single request can deliver; four faults are enough for a file to be replaced by a shorter one while a link
expires and the process dies.

`CHECK_DEADLOCK FALSE` stands where the system may really stop: all requests settled and all
budgets of faults, duplicates and generations used up (lifecycle runs), all rows settled
(ticks), the scroll or the download at its end. The settings runs do check for deadlock: an operator can always save.
Symmetry (handlers, ticks, external ids, PATCHes) is used in runs without liveness only.

### Fairness

- *Lifecycle*: an event that is due is delivered again (the host's contract, and the reason
  for the nack paths); calls of an invocation return (the upstream client and the contexts
  have timeouts, see `client.go` and `reconciler.go`); the cron fires whenever a tick could start; a process
  that was started is configured; an upstream monitor is imported or fails. Duplicates, faults, reconfigurations and
  moves of the upstream between active statuses have no fairness.
- *InOrder* leaves out lost publications, database failures and crashes: nothing in the code repeats a
  publication, so with them an outcome may remain untold.
- *Ticks*: the cron, the progress of a tick (whose alternatives include being cut off), and the
  consumer finishing all events but the orphans'. Rows join the table under no fairness. That none starves does not assume
  that polls are fast: a budget in which one slow poll ends is enough, because
  stamping moves a row to the end of the order.
- *Scroll* and *GenreScroll*: the portal asks for the next page and an upstream call ends.
- *Media*: the reader asks again for what it has not got and fetches a new link when it is refused, calls return (the
  client's timeout), and the host configures a process it started and a secret that was changed. Faults have none.

## 4. What is proved

Every invariant and action property of the passing runs, and both refinements, are theorems, for every value of the constants
that satisfies the modules' named assumptions. TLC evaluates these on every run: `NoneIsNoId`, `PayloadAssumption`,
`UpstreamAssumption`, `BoundAssumption` (RequestLifecycle); `ConfigAssumption`, `LimitAssumption` (PluginConfig);
`RowAssumption`, `TimeAssumption` (ReconcilerTick); `CatalogAssumption`, `PagingAssumption` (CatalogPaging); `LinkAssumption`,
`TransferAssumption` (MediaDelivery). They are typings and the facts the code rests on, such as that a key made of an id is never
a key made of a title (`"id:"`, `"ta:"`).

| Module | Theorems | Inductive invariant |
|---|---|---|
| `RequestLifecycleProofs` | `TypeCorrect`, `TerminalIsStable`, `ExternalIdIsKept`, `AcknowledgedIsTrackable`, `StuckRowsAreDiagnosed`, `ExternalIdIsOwn`, `FulfilmentIsTrue`, `AutoMonitorIsKept`, `Invariance`, `KeepsThePromise`; with one Configure `TicksAreSole` | `IInv`; `MutexInv` |
| `DeliveredOnceProofs` | without redelivery `OutcomesAgree`; with one Configure also `ImportsShowNoError`, `StatusGoesOn` | `OnceInv`, `SoleInv` |
| `PluginConfigProofs` | `SettingsAreTyped`, `PairsAreKept`, `KeysStayWithTheirUpstream`, `SavedSettingsAreInForce`, `OperatorsRowWins`, `BlankKeyIsKept`, `KeepsTheGenerations` | `PairsKept`; `GenInv`, `ForceInv` |
| `ConfigureGenerationsProofs` | `PoolsOfWorkers` | `GInv` |
| `ReconcilerTickProofs` | `RanksAreRanks`, `PollsRotate` | `RotationInv` |
| `CatalogPagingProofs` | `OneCardOfAWork`, `ScrollsSkipNothing`, `PagesAreNotBlank`, `CursorsLeadOn` | `PagingInv` |
| `MediaDeliveryProofs` | `MediaIsTyped`, `DownloadsAreOfOneVersion`, `CompleteDownloadsAreWhole`, `ProgressIsKept` | `MediaInv` |

The bounds of the runs (numbers of requests, handlers, ticks, generations, rows, books, chunks, faults) are arbitrary numbers here,
and all kinds of failure may occur unless a hypothesis says otherwise.

**Why `IInv`.** None of the safety properties is inductive: whether a handler may
write `acknowledged` with the id it holds depends on what happened between its calls. `IInv`
adds what an invocation in flight *knows* (`HandlerKnows`, `TickKnows`): its request has a
row, the id it was given was handed out for its request, a row it listed could be polled, an
import it was told of is true. The table, the monitors and the events change under it, but
this knowledge cannot be undone, since external ids and terminal statuses are kept and monitors
only gain requests. `Growth` proves this of every step once;
`KnowledgeKept`, `HandlerKept`, `TickKept` carry it over to the invocations a step does not touch, and
each action is left with the row and the invocation it changes. The facts about the two
statements are lemmas of `ForwardedRequestsProofs`. `TerminalIsStable` and `ExternalIdIsKept`
follow from `Growth` alone.

**Refinement.** `PromiseStep` shows that each action, under `IInv`, is a step of
RequestPromise or a stutter: a statement is `Accept` or `Settle` of the one request it writes (`RowStep`),
a publication `Announce` (`PublishStep`), a change of the upstream `BecomeAvailable` of the
requests of that monitor (`UpstreamStep`). The last needs `MonitoredIsAccepted`: the upstream works
only for requests with a row.

**One delivery, one generation.** Three properties of `InOrder` do not hold of the code in general, so their theorems have
hypotheses on the constants. `DeliveredOnce` is that nothing makes the host deliver an event twice: `MaxDups = 0`, and neither crashes nor
failing statements among the faults. `OneGeneration` is `MaxGen <= 1`. The run InOrder satisfies both. They are needed:
RedeliveryContradicts breaks `OutcomesNeverContradict` with a duplicate, and so does a nacked event that comes again after a tick
imported its row; with two ticks and a second Configure TLC refutes `ImportedHasNoError` and `StatusNeverRestarts`, since the failed poll
of one tick may land after the success of the other; Overlap breaks `TicksNeverOverlap`. `OnceInv` says that each request is in the hands of one
handler at most, that nothing was written of a request the upstream has not decided, and that whoever holds an outcome holds
the one the upstream will keep. `SoleInv` adds that the one tick's list is what the table still says.
`TicksAreSole` needs `OneGeneration` alone: `MutexInv` is that each Reconciler runs one tick at a time, whatever is delivered or fails.

**Why `PairsKept`.** That no client mixes a base URL with a foreign key says nothing of the
values a PATCH or a Configure is about to hand over. `PairsKept` adds that the row's
pair, and each pair a writer past its statement holds, was saved together. `pairs` only grows, so a
writer's pair stays good whatever the others do in between.

**Generations.** That PluginConfig implements ConfigureGenerations needs an invariant: `GenInv` says what each phase of a Configure implies: before its first switch both parts are on the
generation before, its own pool is the only other one that is open, and at its end both are on its own. The abstract invariant
`GInv` then gives `PoolsOfWorkers`.

**Settings in force.** `ForceInv` says what a writer knows as long as no other one is at work and no commit went unreported: a Configure
past its last read has the row (`AloneKnows`), a save past its statement has written what it will assign (`SaveKnows`), and each part it has
already switched works with that (`InForce`). `SettingsInForce` is the case in which all of them have ended. It compares base URL, key and cover
size; the signing secret of a save is not in force before the next Configure, and HostSecret shows what becomes of it then. `OperatorsRowWins` and
`BlankKeyIsKept` are action properties and follow step by step from the same invariant.

**Rotation.** `last_polled` is a rank, so a poll renumbers the stamps; that they stay different numbers up to their count
(`RanksOK`) is proved by counting. `FairRotation` needs to know why a row that waits comes first: its stamp is older than that of every row polled
since (`OlderWait`). So whatever the limit cuts off, a list that has the later row has the waiting one too
(`ListedTogether`), and the loop comes to it first.

**Scrolls.** `NothingSkipped` is about the end of a scroll. `PagingInv` carries it there: every edition at a place the pages before the cursor cover
(`PassedAreShown`) was shown, or is on the page the fan-out is filling; a book that is added moves others only to later places. This
rests on lemmas about the operators: `DedupedPage` (deduplication keeps a card of every work, and one only; by counting the places that are
not skipped, `Numbered`), `PageOf` (the n-th page is the n-th slice of the list), `Cursors` (the cursor leads to the next page or the list ends with this one),
`Inserted`, `Removed`. `CursorsLeadOn` is what the end of a scroll through books rests on: the call in progress is never behind the portal's cursor.
Of genres `PagingInv` says less: their cursor may lead back to the first page (`EndsAfter`), and a page that leads on may be blank. But a
scroll through them that does end has left nothing out.

**Downloads.** `MediaInv` says what an answer in progress holds: it was asked for what the reader has not got, it is of a version no older
than the reader's, its headers are those of that version, and its body is the part of it that begins at the range, as far as it was
copied; and that what the reader holds is the beginning of the version its ETag names.

**Only model-checked.** Liveness: `EventuallySettled`, `KeepsPromiseInTime`, `OutcomeAnnounced`,
`ErrorsRecover`, `NoRowStarves`, `ScrollEnds`, `DownloadEnds`. Fairness and ENABLED are beyond the prover.

## 5. What the runs found

Five runs show the code doing other than a comment or a document says (`findings` in `PROJECT.json`):

1. *RedeliveryContradicts.* A redelivery whose submission is refused leaves an imported row imported, but
   tells the portal `request_failed` (`consumer/handler.go:100`; `docs/architecture.md:155` calls
   redelivery safe).
2. *Overlap.* Configure makes a new reconciler with a new mutex, so two ticks may overlap (`main.go:104`;
   `reconciler.go:39-42`).
3. *HostSecret.* A save of the admin form stores an empty `stream_signing_secret`, and then the row wins
   (`server.go:101`; `docs/operations.md:21-24`).
4. *Starvation.* Rows without external id sort first for ever; as many as the list has places, and no row
   is polled any more (`store/request.go:152`; `docs/debugging.md:158-160`, `store/request_test.go:65-68`).
5. *GenreScroll.* `ListGenres` makes its cursor of the page the upstream echoes, which `ListBooks` gave up because some
   responses have page 0 or none: then the cursor is 1 as long as there is any page, and the portal gets the first one for ever
   (`browse.go:62-63`; `catalog.go:206-209`). The same happens if the upstream does not read `cursor` for genres, as it
   did not for books (`catalog.go:133-136`), and there is a second page.

Met while modelling, and visible in the models, but without a run of their own:

- A redelivery's first upsert writes `submitted` over a row that is `searching` or `downloading` and submits the
  request to the upstream a second time; hence `StatusNeverRestarts` is checked without redelivery.
- A row may be imported with an old error: a failed poll's upsert that lands after an import sets
  `error_text`, and terminal rows are not polled again. It takes two invocations.
- `request_acknowledged` may reach the portal after `request_fulfilled`: the row may be polled between the
  acknowledging statement and its publication.
- A poll with an unknown status writes back the status that was listed, not the one the row has.
- `reconciler.go:21-22` argues with one second per row; the constant below is ten, and 200 such rows do
  not fit the budget. `Rotation` shows that this does no harm beyond delay.
- `docs/debugging.md:15-17` says `PATCH` validates `base_url`; `handleUpdateConfig` does not.
- `docs/operations.md:32-35` says requests never see a half-applied client. Base URL and key change
  together, the cover size a step later.
- `client.go:89-91` calls the default cover size "large"; it is "medium".
- "The row wins" is decided by equality with the defaults: an operator who saves exactly the default values is
  overruled by the host's at the next Configure.
- Without a limit and without `total_pages` a scroll ends after the first upstream page.
- Overlapping PATCHes read, merge and write without a lock: one of two saves may be lost, a save with
  a blank key may write the key of before another save back beside its own base URL, and the
  diagnostics may show a mixture. `SavedTogether` is about what was in the row, so it does not exclude the second.
- A failed upsert that was committed all the same, followed by a redelivery that the upstream accepts, leaves a row that is
  `failed` for good while the portal hears `request_acknowledged` and the upstream works on.
- `docs/architecture.md:67-68` says files and covers are streamed with "no buffering". The handler copies as it
  receives, but into a recorder (`httproutes/server.go:133`): the reader sees nothing before the copy has ended, and a copy
  that breaks off is answered with the upstream's 200.
- The 30 s of `client.go:67` are for the whole exchange, body included; a file that takes longer arrives by Range requests
  only, a cover never. `Range` is passed on, `If-Range` is not.
- `docs/architecture.md:25-27` says that before Configure everything is answered 503. `main.go:45` sets a handler
  whose router has no media and catalog routes: they are answered 404 (`Gate`).
- `docs/architecture.md:65` says that JSON bodies over 10 MiB fail with `read body`; the reader is cut at the limit without an
  error, and it is the decoding that fails.
- `dedupKey` drops what is not ASCII: works in another script whose names have the same digits share a card.
- `request_quality_profile` is stored and shown, but never forwarded with a request.

## 6. What is not modelled, and why

- *External search, request snapshot, details of a book*: stateless mappings of one upstream answer.
- *Migrations, manifest, admin page*: start-up and static data. Of the HTTP adapter the conversion of query, method and
  headers, the cap on request bodies and the recovery from a panic.
- *HEAD, several ranges in one request, a cover that takes longer than the timeout.* How a signing secret is decoded, and
  signatures: a link is good if it names the secret.
- *One upstream for another*: that an operator changes the base URL while rows hold ids of the old upstream is a failing poll
  here; ids that mean another book there are a listed hazard without a property.
- *Contents*: titles, error texts, JSON, field mappings, formats, the fields a request
  forwards to the upstream beside its identity. `dedupKey` is modelled by the work it yields,
  not by its normalisation of characters.
- *Time*: contexts and timeouts appear as the failures they cause; clocks only as stamps in order.
- *Retries inside the HTTP client, connection pools and their sizes*: below the level of the models.

Within the modelled parts, the following are left out because they change nothing: events that cannot be decoded,
Configure without a database or with an invalid URL, a PATCH that is refused before its statement,
ticks without rows.

## 7. Plan

The order is by what matters most: first requests, where work can be lost; then settings, where a
secret can go astray; then ticks and scrolls, where things can stall.

Done: the models of section 2 with their runs, and the proofs of section 4.

Next:

1. An abstract specification of the settings (one register that the operator writes, clients that
   lag behind it) that PluginConfig implements, with its refinement proved from `PairsKept` and `ForceInv`.
2. An abstract specification of a download (a beginning of one version grows until it is whole) that
   MediaDelivery implements, with its refinement proved from `MediaInv`.
3. PluginConfig's PATCH and RequestLifecycle's invocations on one client, so
   that a poll may go to an upstream the row was not submitted to.
