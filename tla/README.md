# CryptoAttack dashboard: specifications

TLA+ models of the server (`apps/server`) and of the dashboard (`apps/web`), the
TLC configurations that check them on small instances, and TLAPS proofs of what
matters most for every instance. Paths are relative to the repository; `server/`
stands for `apps/server/src/`, `web/` for `apps/web/src/`.

## 1. The system

One Node.js process receives signal messages over Socket.IO, normalizes them,
keeps the recent ones in memory, pushes them to browsers, and stores them in
Postgres; a worker scores the coins they name, another labels the scores with
what prices did afterwards, and two caches follow the exchanges. Everything runs
on one event loop: what can interleave is what runs between two awaits, the
processes that share the database (the server, the backfill command and the
migration command), and the browsers.

    provider --Socket.IO--> client --> normalizer --> event store --> SSE hub --> pages
                                          |               |                         ^
                                          |               +--> raw log --> replay   | routes
                                          |                       |                 |
                                          +--> durable ingestion  +--> backfill     |
                                                      |                |            |
                                                      +--> event repository         |
                                                      |         |                   |
                                                      +--> score worker --> score repository
                        exchanges --> price collection --> forward returns --> backtest
                        exchanges --> symbol cache, spot performance ---------------^

### Inventory

| component | source | state | operations | what is hard | what makes it correct |
|---|---|---|---|---|---|
| CryptoAttack client | `server/cryptoattack/client.ts`, `subscriptions.ts` | generation, subscribed generation, status per endpoint, refresh timer | connect, connected, connect_error, disconnect, reconnect, refresh, stop | order of the socket's events and the timer; reconnects | every connection is subscribed, no round twice, the status is the truth |
| Normalizer, parsers | `server/events/normalizer.ts`, `parsers.ts` | none | message to event and entries | forms that overlap, missing rows | each row of a message is one entry of the right feed |
| Event store | `server/events/eventStore.ts` | ring buffers, dedupe map, counters | addEvent, snapshot, setConnectionStatus | window and clean-up | an id passes once per window |
| SSE hub, event page | `server/http/sse.ts`, `web/App.tsx`, `web/api/sse.ts` | clients; view, held events, pause | register, broadcast, heartbeat, close; bootstrap, snapshot, event, pause, resume, reconnect | two snapshots that race, broken streams, events held over a reconnect | a settled page shows the server's buffers, one alert per event |
| Other pages | `web/components/*Page.tsx`, `coinClassification.ts`, `exchangeFilters.ts` | selection, answers, requests under way, live rows | click, answer, failure, live update | answers that arrive after the next click; live rows against lists | a page shows what is selected on it |
| Process, raw log, replay | `server/index.ts`, `server/events/replayRawLog.ts` | promise chain, log file, shutdown | boot, handleRawEvent, append, signal, exit | order of boot and shutdown, crash at any step, two signals | only the tail of the log is lost; the process ends; jobs are drained |
| Migrations | `server/db/migrations.ts` | `schema_migrations` | runMigrations | two runners without a lock | each file in order, recorded as run |
| Durable ingestion | `server/db/durableIngestion.ts` | queue, loop flag, state, counters | enqueue, processQueue, writeWithRetry, recordFailure, stop | every await; two stop() calls; a drain deadline that races a write | one writer, in order, no job lost or counted twice, stop() returns |
| Event repository | `server/db/eventRepository.ts` | six tables | ingestRawEvent: a transaction of upserts | two writers, lost answers, client time-outs, pooled connections | all or nothing, one row per identity |
| Raw backfill | `server/db/backfillRawEvents.ts` | none | read a log, ingest each line | runs beside the server | idempotent |
| Score worker | `server/scoring/scoreWorker.ts` | pending coins, two timers, running flag | enqueueEvents, recomputeNow, stop | runs that fail or are turned away, reads that miss what is stored meanwhile | no coin is forgotten, recent coins are up to date |
| Score engine | `server/scoring/scoreEngine.ts`, `defaultScoreConfig.ts` | none | source rows to scores | decay, bursts, caps, rounding | symmetric sides, scores that fade |
| Score repository | `server/db/scoreRepository.ts` | configurations, current scores, snapshots, evidence | writeScores, read models | material change, one ts twice, a clock set back | the timeline and the current score agree; reads agree with one another |
| Price collection | `server/market/priceCollectionService.ts`, `priceProviders.ts` | active coins, running flag | interval run over targets | slow runs, more coins than targets | recent coins have prices |
| Forward returns | `server/market/forwardReturnWorker.ts`, `server/db/marketDataRepository.ts` | labels with a status | seed, due rows, label | prices that come late or never | a return spans its horizon; priced rows are labelled |
| Backtest | `server/backtest/*`, `server/db/backtestRepository.ts` | none | joins, summaries, buckets | many queries over the same samples | each sample in one bucket, sums that agree |
| Symbol cache | `server/exchanges/symbolCache.ts`, `providers.ts` | symbols per exchange, file, timer | load, refresh, persist, stop | single flight, crash while persisting, paging | the last good answer survives; listings are whole |
| Spot performance | `server/exchanges/spotPerformance.ts` | tickers per exchange, sockets, timers | REST prime, live merge, reconnect, stop; fetch in batches | answers of REST older than the stream; midnight | settled prices are served; every symbol is answered |
| HTTP routes | `server/http/routes.ts` | none | read models | validation, limits | answers follow their filters |

`PROJECT.json` lists every component with its status, and every hazard at the
line where it bites, also those no model covers.

## 2. Modules

| module | models | builds on |
|---|---|---|
| `DurableIngestion` | the write queue: enqueue, loop, retries, failures, stop | implements `IngestionContract` |
| `IngestionContract` | its promise: a ledger of jobs served in order, each with one outcome | |
| `EventRepository` | the transaction of ingestRawEvent, two writers, the server's locks | |
| `EventStore`, `LiveFeed` | ring buffers and dedupe map; SSE hub and the event page | `LiveFeed` extends `EventStore` |
| `PageFilters`, `DataPages`, `ScorePage` | class, exchange and market filters; the performance and coin pages; the scores page | each extends the one before |
| `CryptoAttackClient` | handlers and timer of one endpoint | |
| `EventParsing`, `EventNormalizer` | lines of a message to rows; a message to the event of a feed | the second extends the first |
| `Migrations`, `ServerLifecycle` | the migration runner; boot, log, replay, jobs, streams, shutdown, crash, restart | the second extends the first |
| `ScoreWorker` | queue, timers and runs of the worker, its rows | |
| `Scoring`, `ScoreStore`, `ScoreReads`, `Backtest` | score of a coin; tables and runs; what pages read; what backtests read | each extends the one before |
| `MarketData` | collector and labeller with their tables | |
| `SymbolCache`, `ListingFetch` | the cache, its file and timer; one fetch of a provider | |
| `SpotPerformance`, `TickerFetch` | REST caches and the socket of an exchange; one fetch of its tickers | |
| `Dashboard`, `ExchangeFeeds` | the pages and their lists over one server; the two caches and the two fetches | `LiveFeed`, `ScorePage`; the four of them |
| `Collections` | order of names, sets in order as lists, sums | |
| `MC*` | values and symmetry sets for TLC | |
| `*Proofs` | theorems and proofs (section 4) | the modules they are about |
| `CollectionLemmas` | facts about sets, numbers, sums, sorted and partial lists that several proofs rest on | `Collections` |

Three modules put components that share no state into one instance:
`Dashboard` (event page, performance page, coin page, lists and detail of the
scores page), `ExchangeFeeds` (two caches, two fetches) and `MCServer` (process, socket,
message). A variable `subject`, chosen at the start and constant, says which of
them a behaviour follows, and the initial states vary only that one. The components that do
interact are composed by EXTENDS: event store and page, migrations and boot,
log, replay and shutdown, scores with what is read of them and the labels that join them.

Beside some definitions of a module stands a variant of it with a plausible mistake
(`FullLate` beside `Full`, `ShortLookback` beside `InLookback`,
`NotAborted` beside `Aborted`): no action uses a variant. The "mutants" of
`PROJECT.json` put each in the place of its neighbour and name the property that then fails.

### Durable ingestion

An action is the code between two awaits. `EnqueueRefused`, `EnqueueOverflow`
and `EnqueueAccepted` are the three ways through `enqueue()`; the accepted one includes the
synchronous start of `processQueue()` up to its first await (`ScheduleProcessing`,
`StartNext`). A loop awaits in `writing` (the repository call), `backoff` (the
retry sleep) or `recording` (`recordFailure()`); `Continue` is the inner `finally`,
the loop condition and, when the queue is empty, the exit. `StopCalled` runs
`stop()` to its first poll, `DeadlinePasses` is the clock, `StopReturns` the poll that ends the wait.
`CommitTransaction` is Postgres: a commit is separate from the answer, so an attempt
may fail for the client and still be durable, even after the job was given up.
A job is its number; `fate` is a history variable with the outcome of each.

### Event repository

A writer's connection awaits one statement at a time (`pc`, `idx`); a table is a
function from keys to rows, a transaction (`tx`) the rows it adds on top of `db`.
An upsert waits while another transaction holds its key; the unique index on the
provider's id is checked, and waits, likewise. Foreign keys never fail in this
order of statements and are stated by `OneRowPerIdentity`. A statement fails, the
connection is lost, a commit is executed and its answer lost, or, for a payload in
`Stalling`, the client's `query_timeout` fires while the statement still runs
(`StatementTimesOut`, `LateStatementRuns`), in which case the ROLLBACK behind it
is withdrawn when it times out as well (`RollbackTimesOut`). What pg and Postgres
do there is external and modelled from their documented behaviour.

### Event store, live feed and pages

`addEvent()` is synchronous and a step (`Store`, `Deduplicate`). `StoreEvent`
adds the broadcast to every registered stream in the same step, as the code
does. A socket is destroyed before its close event is handled; `send()` may be
refused by either a dead or a slow client. The page starts with two snapshots in flight
(`AnswerRest`/`ReceiveRest`, and the head of its stream), holds events back while
paused, and folds them in with `Added` when resumed.

The other pages are records of what is selected, what is shown and the set of requests under
way; an effect of React that aborts a request takes it out of the set
(`Aborted`), an answer may be the one of any request in it. In `DataPages` an answer is
named by what it answers, so that a property can say which selection a page
shows. `ScorePage` keeps the rows of its four lists: `ScoreUpdate` is a message of the
stream, `UpdateEffect` the render behind it, which patches, inserts and sorts;
`ServerReconfigured` changes what the server computes. `PageFilters` has the filters that
both the pages and the events go through.

### CryptoAttack client and normalizer

One action per handler, and the socket of socket.io-client as an external
environment (`link`). `Connected` and `ServerConnected` are distinct events;
`Refresh` is the interval timer; a disconnect by the server ends the socket, a
transport loss makes the manager reconnect. `heard` is what the server has
received on this connection, before and after its announcement.

`EventParsing` translates each parser into an operator over lines of tokens: a token
is what some regular expression of the parser tells apart, so that
what matters - which pattern takes which number, which line belongs to which
row - is there, and spelling is not. `EventNormalizer` adds the routing, filters, totals, times
and coins; the provider that writes messages row by row (`RowLines`) is external, and its
forms are those that `server`'s parser tests quote.

### Process

`ServerLifecycle` follows `index.ts`: `Verified`, `ServerMigrates`, `Migrated`, `Prepared`
(the replay with its selection and order), `Routed`, `Listening`, then
`HandleRawEvent` with a line put on `writeChain` and a job on the queue, `AppendLine`,
`BeginJob`, and for the job in hand `AttemptBegins`, `AttemptEnds` and `GivenUp`: only during an attempt has it
a client of the pool, which `pool.end()` waits for. A signal runs `shutdown()`: `Drained`, `PoolEnded` and `Exit` are
what it awaits, per signal, as a second signal runs it again (`DrainedAgain`). `Crash` may happen
anywhere and `Restart` boots with the log and the schema as they are. A runner of
`Migrations` reads what is applied, then applies each file in a transaction of its own; `deploy` is
`db:migrate` in another process.

### Scores

`ScoreWorker` is about which coins are scored when. `Receive`, `Commit` and `Written` are
an event received, stored, and handed to `enqueueEvents()`. A run goes through `config`,
`candidates`, `source` and `write`, the awaits of `recomputeNow()`. A row of
`coin_score_current` is kept as what it was computed from: the run's asOf and how many events were
stored when it read. `excused` collects the coins dropped in one of the ways the code has.

`Scoring` is about what a score is: the contribution of a row under its rule with its multipliers,
decay and burst penalty, summed per side, saturated, and turned into net, confidence,
regime and dominant rule. `ScoreStore` makes runs of it, with `ShouldWriteSnapshot`, the conflict
clauses of the four upserts, and a version that changes at a restart.
`ScoreReads` and `Backtest` are the queries: sets and counts in place of SQL joins.

### Prices and labels

`MarketData`: `CollectFires`, `Resolved` and a `Fetched` per target are the collector's
run, which prices the coins in memory first, the last seen before the others, then those with scores and stored
entries (`ActiveCoins`), and their markets in the order of the cache (`Targets`); `LabelFires` seeds, `DueRead` takes a batch, `RowLabelled` or `RowFails` ends a row. A tick is
its market and source time.

### Exchange caches

`SymbolCache`: refresh with its single flight, provider by provider, then `WriteBegins`,
`WriteEnds`, `Renamed`; a crash between any two of them; load and boot. What a provider answers is the listing as it
is then, or, for an odd body or a failing fallback, one without all of it (`FetchedShort`): both are stored as
ok. `answers` is the history of each source's answers, and what the memory or the file holds of a source is its place in it.
`SpotPerformance`: two caches with single flight, `PrimeContinues`, the socket with its
subscription chunks, `MessageReceived` as the merge, and the timers. `ListingFetch` and
`TickerFetch` open up the one step `Fetched` or `Answered` of those two: pages, attempts
and fallbacks; batches, klines of a day and the socket of OKX, across a midnight. They also say what the
response is made of (`GetSymbols`, `BuildPerformanceResponse`).

## 3. Runs

Passing runs:

| run | question | bounds, and why they suffice |
|---|---|---|
| `DurableIngestion_queue` | one writer, order, status, the ledger refined; does stop() return though the database hangs; does each job settle when it answers | 3 offers on a queue of 1: full while one job is in flight, overflow, and a refill after a failure; the order of longer queues is in the proof of the contract; 2 loops show that a second one never starts; both signals' stop(); one retry, so that first, later and last attempts differ. No symmetry, because of the liveness properties |
| `EventRepository_writers` | atomicity, identity and versions under two writers | 3 calls over four payloads: two versions of one post (of which one may stall), another category with the same provider id, one without events; two times of receipt, so that canonical and own time differ |
| `LiveFeed_page` | the dedupe window; does a settled page show the buffers, or what is selected on it; alerts | buffers and a view of 2 so that both overflow with 3 received events, and an event shown again is seen to be out of order; a window of 1 tick, a sweep limit of 1, 2 streams: a reconnect with events held back. Two clicks, so that one comes before the answer to the other; two changes at the server, so that rows change places and configuration; windows that the server scores and does not score; coins listed on one, two and no exchange. The buttons for confidence and for changes since ask again like the classification filter; they are clicked in the behaviours that follow the detail panel, and for the lists `PagesFollowTheirSelection` proves the same of all clicks |
| `ServerLifecycle_process` | boot, log, replay, shutdown; subscription rounds; messages | 2 files: a runner may be overtaken between them; 2 boots: crash and restart; 3 ids of two feeds, 2 events, the earlier of which may be outside the replay window of the later; the times of events matter to a server that replays only, one that migrates hears them at one time. 3 losses: two reconnects after a first connection and a last loss. A row limit of 2 and messages of 3 rows: a row beyond the limit |
| `ScoreWorker_runs` | forgotten coins, quiet stop, fresh scores | 3 coins, a queue of 2 and a batch of 1, so that both overflow; 2 events, clock 0..2 with window 1 and horizon 2, so that an event leaves the window while its coin is still a candidate; one failing run |
| `MarketData_labels` | which labels are made, from which ticks | 2 targets of 3 markets of two coins: one is cut; a batch of 1 and 2 sources: a row waits behind another; ticks that are late by 1 and a skew of 1, both sides of the boundary; a market that never answers; one failing statement; no collection or source begins at the last instant of the clock, where it could have no label any more |
| `ExchangeFeeds_caches` | caches against faults, whole answers | versions 0 and 1 (and 2 of a listing): an answer older than what was merged; a wire of 1, a loss, a failure, a crash; two refusals, among which short answers count; pages and batches of 1 or 2 rows, so that every fetch needs more than one; days 0 and 1: a midnight |
| `ScoreStore_reads` | do score tables, pages and backtests agree with each other | 2 alerts received, or four earlier events in the tables; 2 versions and one restart or clock set back; one label. Every state is read under every query |

`CHECK_DEADLOCK FALSE` is set throughout because every model ends: offers, calls,
streams, losses, clicks or the clock are bounded, and a stopped system rests. Symmetry is used only where
the properties are invariants or action properties and the interchanged values are named nowhere.

What the runs show in words:

- Durable ingestion never strands a job, whatever `enqueue()`, failures and two `stop()`
  calls do in between, and publishes its final status. After `stop()` it only reopens because a
  write failed (`WriteFails` overwrites "draining" or "stopped" with "degraded"). It implements
  the ledger, in order and with one outcome per job.
- Whatever the writers, the row of an event and that of each of its entries are of the version that was committed last of
  those that had it (entries of a longer, earlier version stay).
- The repository is atomic as long as a statement does not outlive the client's time-out; after one that
  does, a resolved call is still stored and identities still stable, but atomicity is lost (see 6).
- The dedupe window is exact at its boundary. A page converges to the buffers but for three
  named exceptions (`excused`): a late bootstrap response that lacks what the view shows, an id stored
  again after the window, and events held over a reconnect that have left the buffer.
- The other pages, once settled, show what is selected, and a list is never of two windows or
  configurations. One exception (`crossed`): the answer of a refresh of the coin page.
- A generation subscribes at most once per reason; a refresh between connect and connected suppresses the
  round after the announcement, which only the next refresh makes up for.
- A message in any form the tests quote becomes one event of its feed whose entries are its rows.
- The log of a process that ends lacks at most its last events, and the replay shows the newest of each feed
  and nothing older than its window. A signal ends the process unless a browser opened a
  stream after the hub was closed, and leaves no accepted job undone but the one in hand when the drain
deadline passed, if it waits for an attempt as the process exits. Two migrators never leave a file out or run it out of
  order; a server that migrates serves a complete schema.
- A coin is forgotten by the score worker only through a full queue, a cut
  batch, a failed run, or an event later than the run's asOf; the periodic run makes up for
  all four for the most recent coins, and only for them.
- The timeline of a coin ends with the regime and dominant rule of its current score unless the clock is
  set back; scores of quiet coins fade; bull and bear are mirror images. List, coin page, timeline, regime
  and the tables of the backtest agree.
- A labelled return spans its horizon within the skew. A priced row is labelled unless newer rows buried it before
  it was seeded, rows without prices fill every batch, or its statement failed. A collection leaves out a coin in memory only for as many, seen as recently, as it has places.
- What a provider answered gives way only to a later answer of it, in the file and in memory, though that may be an
  empty or partial list; the whole listing is fetched in the end. A stopped feed stays quiet, a started one
  reconnects and serves the exchange's prices once they rest; answers are whole over pages, batches and midnight.

### Fairness

- `ClockSpec` (durable ingestion): time passes and the timers of `stop()` run. `EveryJobSettles` assumes in
  addition (`DatabaseFairness`) that repository calls settle: `statement_timeout` and
  `query_timeout` bound each statement (`server/db/postgres.ts`), the sleep
  ends, and `recordFailure()` swallows its own errors. `StopTerminates` does not need it.
- `MCServer!Fair`: of the process, that attempts end (as above; the sleep before the next one need not) and the awaits of `shutdown()` come back
  (`ProcessFairness`; not that streams close); of the socket, that the interval timer fires and a server that keeps a
  connection announces itself, which is the protocol `client.ts` is written for.
- `FairSpec` of the score worker: both timers fire, statements are answered, stored events are handed on;
  failures end (`MaxFailures`), so some run after the last succeeds.
- `LabellerFairness`: the interval timer of the labeller, and a database that answers. The collector is not
  fair: prices may never come.
- `SpotFairness`, `CacheFairness`: timers fire and what was asked over HTTP or of the file system is answered or
  fails; browsers go on asking, as the page does by a timer. Sockets need not open.

## 4. Proofs

TLAPS checks the following for every value of the constants that meets the named assumptions of the
modules. These say that counts are naturals, batches, queue depth, buffers and windows positive; that there is at
least one loop, that coins and migration runners are finitely many and a server among the latter, that the markets of entries and of the cache are of some coin, that a window
is within the horizon; and of the inputs what the code's own parsers guarantee: a raw event normalizes to at most one
event (`EventRepositoryAssumption`); a provider without pages has one, CoinGecko's `fetchPages()` stops before an empty
one, and no text is lost by upper case (`ListingAssumption`); symbols of an exchange are distinct and "no
price" is no percentage (`TickerAssumption`); the rows of a feed have a number or none in each column and are entries of
their own within their event (`ScoreStoreAssumption`, `EntryAssumption`), and null is no coin (`ScoreReadsAssumption`). TLC
evaluates all of them in the runs.

Most of the properties are not inductive, as they do not say what is in flight; their theorems follow from an
inductive invariant that does, which TLC checked on the instance of the component's run before it was proved.

- `DurableIngestionProofs`. `QueueInv`: the queue is the tail of
  the accepted tickets and exactly the ones marked "queued" (`Tickets`), a loop that writes
  holds the one ticket marked "writing" (`Held`), every later ticket still waits or was dropped
  (`Ordered`), and at most one loop is busy, exactly when `processing` is set: order needs the position of
  the item in flight, which needs the single loop. `TypeCorrectness`, `OneWriterNoLostWakeup`, `InOrder`,
  `FinalOutcomes` and `ReopenedOnlyByFailure` follow. `StatusIsCurrent` adds
  `PublishedInv`, which says how far the last status may be behind: its counts, while a `stop()` waits; its depth,
  while a write is under way. `ImplementsContract`: with the mapping `Ledger`, each
  step of the queue is a step of the contract or stutters. `ServedIsOldest` and
  `OpenIsBounded` carry `QueueInv` to the ledger; the bound counts the queue and the item in flight.
- `RepositoryProofs`. Of the event repository, `IInv` has a part for each thing a transaction relies on. `Sound`: in the database and
  in a transaction each row is under the key its identity has and the rows it refers to are there. `Agree`: a transaction
  keeps what is committed. `Apart`: row locks exclude, so that no two transactions hold a row. `UnderWay`: what the call has
  stored so far, statement by statement (`Progress`), for the statement the writer awaits and for one the server still runs after
  the client gave up. `Clean`, as long as no connection was given back with its transaction open: a transaction has rows of
  its own call only, and in the database an event and each of its entries are as the last version with them to commit left them
  (`Latest`). `RunEffect` and `CommitStores` say once for all
  statements what a row added, or a commit, does to these parts. `TypeCorrect`, `Atomicity`, `Durability`, `Identity`,
  `InTurn`, `Stability`; `Atomicity` and `InTurn` are about states with no dirty connection, the others hold with dirty ones too.
  Of the labels, `RowInv`: the base time of a row is still that of its event, or it is a tick at most the skew before
  (`BaseIsFound`), and then the latest at or before itself, so that a further try finds the same. `HorizonSpanned`, and
  `BasesStay` as an action property. Of the collector, `CollectorInv`: a collection under way has the coins in memory
  in the order in which they were seen. A place in the list of coins, and then in that of markets, is a place in this order
  (`MemoryFirst`, `LeftOut`): `RecentCoinsComeFirst`. Its proof showed that markets alone do not account for what is left
  out: coins without a listed market count towards `maxTargets` as well, which the runs, with fewer coins than
  would fill it, do not meet.
- `LiveFeedProofs`. The map of the store `Holds` the expiry of every id that has not expired, and nothing but expiries,
  whichever of the expired ones a sweep has taken. So a lookup finds exactly what the history says
  (`DuplicateIsLive`), and each call extends `DedupeWindow` by one event: `WindowIsExact`. `Places`: an event is on the wire,
  held or applied, in one of them and once; as each was stored (`AllStored`), and the window is at least one tick wide,
  what is stored next is none of them (`NewEventIsNew`): `AlertsOnce`. `ReadersKeepTheirPlace` is about the hub.
  `LiveInv`: a list of events is read as the positions of the calls that stored them (`Newest`, `Recent`), so that pushing,
  cutting and comparing lists are facts about numbers. Buffers, response and snapshot are each as of some call
  (`FeedsAsOf`); the view is as of some call too, after which every stored event is held or on the wire, while those held
  or on the wire that are older are shown (`AsOf`); and both queues are in the order of the store (`InTurn`). Applying the first of
  them moves the view on (`AppliesOne`), a response may take its place (`RestContinues`), and when nothing is to
  come the view is the buffers (`NothingToCome`): `ViewsAreLive`. Resuming folds the held events, one after the other; the proof
  takes the least element of a set of positions where an induction over the list would be (`UpTo`, `ShownAfterEach`).
  `PagesInv`: whatever is under way for a page asks for what is selected on it now, a page that loads has such a request,
  and the answers collected for it carry its query, which live updates and filters leave alone
  (`PatchingKeepsAnswers`): `PagesFollowTheirSelection`, for the performance, coin and scores pages and the detail panel.
  Of the four lists, `PatchInv`: the rows of a list are of the window and the configuration of its answer, one per coin,
  no more than fit, and in the order of its kind. An answer of the server is such a list, and a row that is patched, inserted and
  sorted keeps it one (`PatchKeepsList`), as the order is total on rows of distinct coins. With it
  `PagesShowTheirSelection` holds of every page at once: the rows a filter shows are those of the answer that pass it.
- `ServerProofs`. Of the socket: `ClientInv` adds to the types and to the properties themselves
  that no round in the history has a generation beyond the current one, and that on a
  connected socket a round with reason "connected" of the current generation implies that it
  is recorded in `subscribedGeneration` (`PastRounds`): without it, `OneRoundPerReason` does not say why the next round
  is new. `ClientTypeCorrect`, `StatusTruth`, `Subscribed`, `RoundsAreUnique`. Of the process: `IInv` has three
  independent parts. `MigrationInv`: the schema is 1, 2, ... without a
  gap, and what a run read as applied is a prefix of it, and all before the file the run is at is applied.
  `LogInv`: the lines of the log and of the chain carry increasing numbers below `received`. `EndInv`: once the
  pool ends, the queue is empty and a job still in hand was so at the drain deadline, and an `app.close()` comes only after
  the last client is back, when no statement is under way. `SchemaIsComplete`, `LinesKeepTheirOrder`, `CleanExit`. `ReplayInv`: before the server listens, neither the log
  nor the store changes after the replay. Lines at any set of positions can be put in the order in which `addEvents()`
  takes them, the one taken first last (`LinesAreOrderable`, by the least size of a set that cannot), and of the selected
  lines with the last line's id one is taken first: `ReplayShowsTheLastHour`.
- `ScoreWorkerProofs`. `IInv` strengthens `NoCoinSlipsAway` by what a run under way will
  write: the announced events of its coins are not after its asOf and, once read, are among
  the events it read, unless the coin was queued again or dropped (`RunCovers`); no row is
  later than the clock or the run that may replace it (`RowsArePast`); and after `stop()` the
  debounce timer is armed only if events were enqueued since (`TimersCleared`). `TypeCorrect`,
  `CoinsAreAccountedFor`, `QuietAfterStop`.
- `ScoreStoreProofs`. Of a run only its keys matter: one result per coin, of this version and time. `IInv`: rows and snapshots
  have unique keys, each snapshot has a row, and each row a snapshot its timeline `EndsWith`. The
  delicate case is a row newer than the result of a run, after the clock was set back (`OldRowEnds`). `TimelineIsCurrent`.
  Of the engine, for any rows with one number or none per column: `Received` says that every entry was received once, under
  the number of its event. A piece of evidence of a later run is found in every earlier one of a coin that is left
  alone (`EvidenceIsFoundAgain`), for no fewer points and each in a place of its own, so that the sums only fall (`SumIsAtMost`), and with them
  the saturated score: `QuietCoinsKeepFading`. The mirror image of a row has, under the opposite rule, the contribution of
  the row; this gives evidence, bursts and counts of distinct rules, feeds and exchanges one to one, sums that are equal
  (`SumOfMatch`), and the same median age: `ScoresAlwaysMirror`.
  Of what is read: `ScoreRows` keeps what a row owes to the score it was made of, above all that its regime has the sign of
  its net score. Of finitely many rows, one per coin, `Ranked` numbers all without a gap (`RankedIs`), and the limit takes the first
  numbers (`LimitedIs`); the coin's own page asks the same ranking. The snapshot a timeline ends with is alone in its last
  instant and so on the first page (`TimelineMoves`). A market average is positive only if some net score is (`MarketLeans`):
  `ReadsAlwaysAgree`. Of the backtests: buckets are disjoint and hold every sample (`SumOfSizes`), the samples above a
  threshold are those of the backtest with that threshold, the separation has a sample of the same snapshot, and every
  sample has a place below the total: `BacktestsAlwaysAgree`, which only needs that no evidence has negative points.
- `ExchangeFeedsProofs`. `AnswersAreTakenOver` is about all four components at once. Of the symbol cache, `CacheInv` adds what is in flight: a refresh belongs to the process, what a source
  has was answered (`NothingIsMadeUp`), the file is behind the memory (`FileIsBehind`), the temporary file that is about to be renamed is whole and as new as the memory
  (`ReadyToRename`). Of a fetch, `ListingInv`: what was found is what the pages before the one that is asked for parse to
  (`Asking`). Of the tickers, `TickersInv`: every symbol that trades is in the answer or still to be asked for, never both
  (`Batching`), and the opens that were read are those of their day. `ListingsSurvive`, `ListingsAreWhole`, `TickersAreAllThere`;
  `StopIsQuiet` of `SpotPerformance`, whose property names socket, timer and chunks and is inductive as it stands. What is made of
  the answers is a list: the symbols of an exchange once each and in order, the movers with the largest first, at most as
  many as asked for. `SortedBy` chooses the one list of a set in a total order; that there is one and
  only one is a lemma.
- `CollectionLemmas`. `Lower` orders lists of numbers totally; a finite set in a total order has exactly one sorted list
  (`SortedList`, by the least size of a set that has none); beginnings and parts of a sorted list are sorted. The sum over
  a finite set does not depend on the order it is taken in (`SumWithout`), which the definition by CHOOSE does not show;
  sums over parts, over sets that match one to one, and of the sizes of disjoint sets follow element by element
  (`ElementByElement`).

Some invariants are only proved and no longer checked by a run, where the runs ask something stronger or
the proof suffices: the types, `SettledInOrder`, `OutcomesAreFinal`, `SingleWriter`,
`StatusIsTrue`, `ConnectedIsSubscribed`, `OpenStreamsAreServed`, `BaseStays`.

Only model-checked, and why:

- Liveness under fairness (`StopTerminates`, `EveryJobSettles`, `RefreshHeals`, `RecentCoinsAreScored`,
  `SignalEndsTheProcess`, `PricedIsLabelled`, `StaysConnected`, `SettledPricesAreServed`,
  `ListingsAreFetched`) and ENABLED, which the prover cannot state.
- What follows from folding and filtering the lines and tokens of a message, and so by induction over data:
  `EntriesAreTheRows`.

No module declares a RECURSIVE operator.

## 5. What is not modelled, and why

- Payloads, texts, titles, formatting and rendering, and counters, timestamps and latency samples of a status: no
  control depends on them. The status and storage messages of the stream overwrite one value each.
- `recordIngestionError()` is one insert whose errors are swallowed; the report of the backfill counts.
- `start()` and configuration checks of the client, the list of subscriptions and the news event.
- Arithmetic of scores is in hundredths, rounded down, and of amounts in powers of ten; averages and medians of a
  backtest are given by their counts and sums. Nor does a limit cut the table of rules of a backtest.
- Russian words of the parsers, and forms of a message that no test quotes.
- How transactions of two processes interleave in the score tables: one server writes them.
- Binance open interest: a cache with a time to live over one HTTP call; no other part reads it.
- Database administration: the commands, policies and size queries are single statements.
- Routes: they validate a query and return a read model, and the read models are in the modules of
  their repositories; the validation is plain comparisons.
- The mock server, configuration, logging, deployment and the preferences kept by the browser hold no state that
  anything relies on. The backtest page only renders.

## 6. Findings

Where a document, comment or test of the repository says otherwise than the code
does, with a run that shows it:

- `EventRepository_partial`: a ROLLBACK that times out is swallowed and the
  connection returned with its transaction open; the next COMMIT on it stores half
  of the failed call, where `ingestionRepository.test.ts` expects one transaction.
- `MarketData_backtest`: the labeller moves the base time of a score's label back to the tick
  it starts from, and the backtest then drops the label as if it were older than
  the score (`docs/backtesting-analytics.md:11` means to drop only labels that were complete before it).
- `ScoreStore_evidence`: evidence rows move to the newest snapshot that counts their event, and keep the
  time of the older one; the older snapshot is left without
  (`docs/scoring-storage-architecture.md:369`: every contribution gets a row).
- `LiveFeed_listed`: a coin listed on the selected exchange is hidden when an exchange of higher priority
  lists it too, against the note on the page (`ScoresPage.tsx:735`).

Observations met on the way, without a run of their own:

Ingestion and stream

- `docs/scoring-storage-architecture.md:497` lets a full queue drop its oldest job; `enqueue()` refuses the newest.
- After a disconnect by the server nothing reconnects (`docs/ARCHITECTURE.md:100` promises it).
- Nothing deletes entries: an event stored again with fewer of them keeps those of its earlier version.
- The id of a malformed payload hashes the time of receipt, and the raw log stamps another one than the live event
  had, so that a backfill stores it again (`README.md:163` calls the backfill idempotent).
- `docs/ARCHITECTURE.md:51` speaks of dedupe per connection generation; a generation
  sends one round on connect and one on connected.
- The raw log is written only for events the store kept, and its chain is not
  awaited at exit (`docs/scoring-storage-architecture.md:498` relies on it for
  recovery); the database receives every normalized event, duplicates of the
  memory window included (`:465` says otherwise).
- At its deadline `stop()` drops and counts what is queued only. A job between two attempts then holds no client,
  so that `pool.end()` does not wait for it: when the process exits first, it is lost without being counted.
- `\b` of JavaScript knows ASCII only, so Russian alternatives within `\b(...)\b` never match. The coins of funding
  and on-chain lists cover the first ten rows, their entries all of them.

Scores

- A run of the score worker keeps `batchCoins` (100) of what it took, although the queue holds 10000, and
  keeps no watermark (`docs/scoring-storage-architecture.md:709`). The periodic
  run looks for candidates only when nothing is queued, so under constant traffic decayed scores stay;
  a coin silent for longer than the widest window keeps its last row, and after a
  long downtime that row may still count events.
- A material change is measured against the previous run, so a slow drift gets no
  snapshot; with the clock set back the latest snapshot may disagree with the current score. A run that ends
  after `stop()` sets the state to running again, of the score worker as of the labeller.
- `minValue` and the burst penalty never change a score of the default configuration. The market regime may be bullish
  with a strongly negative average (more than 1.5 times as many bullish coins); its `limit || 500` has no effect.
- Timeline deltas are taken between the snapshots that pass the filters.

Backtests and prices

- The market filter of backtests counts funding as perpetual, that of the score lists does not. Coin pages
  ordered by a column with ties may overlap, and their summary covers the page only. `metrics.ts` and
  SQL bucket alike only for sizes that divide 100. A bull sample of the separation needs no bull evidence.
- Symbols as OKX and Coinbase spell them are never matched with those of the price provider, and their rows wait for ever
  among the oldest due.

Exchanges

- After a first REST failure the sockets of Bybit and OKX open without subscriptions until they reconnect. Live
  messages extend the life of the whole cache, so that a symbol that is silent there is not asked for again; `updatedAt`
  counts tickers that were not merged. The update timer of spot performance and the refresh timer of the symbol cache
  may be armed once after `stop()`.
- A listing of OKX that falls back to CoinGecko may be partial and replaces the full one as "ok"; a
  200 without the expected list is an empty listing, also "ok".
- Batches of Binance's UTC day may straddle midnight and mix days; klines of Bybit that do are not mixed, but then cached
  with yesterday's opens for the life of the cache. `fetchCoinbaseSpotPerformance` is called by nothing.

Pages

- A snapshot that arrives while the event page is paused is shown at once, events that are being held included.
- Coin page: the answer of a refresh replaces that of a newer query. Performance page: an answer may replace newer live
  rows; its first ten are taken of the first hundred.
- Scores page: live rows are inserted without regard to the confidence filter; the last live
  update is applied again when a filter changes, even over newer answers; of two updates before one render the first is
  lost; a coin that enters the bull or bear list does so only on reload, so that a coin may be in both.

## 7. Plan

Every component whose state changes matter has a module. What would add most next:

1. Proofs: the mirror of a score, pair of rules by pair; what sorted lists of scores keep, from an order of
   rows like that of the replayed lines.
2. Compositions: `IngestionContract` in place of the queue of `ServerLifecycle`; `LiveFeed` behind a server that
   restarts, with a store refilled by the replay; `ListingFetch` inside `SymbolCache`.
3. Operations left out: `start()` of the client with its list of subscriptions, the validation of the routes'
   queries, the open interest cache, `stop()` of collector and labeller.
