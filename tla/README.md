# cow-indexer in TLA+

TLA+ modules, TLC configurations and TLAPS proofs for cow-indexer, the program
that follows the CoW Protocol contracts on several chains, stores their logs
and events in ClickHouse and enriches them from the CoW orderbook API. Paths
below are relative to the repository.

## 1. The system

One process runs `continuous` for a set of chains; the one-shot commands
(`backfill`, `repair`, `backfill-orderbook`, `purge-work`, ...) run beside it
as processes of their own. Nothing is shared between processes but the
ClickHouse database. Within a process everything is asyncio: coroutines
interleave at their awaits and nowhere else.

| component | code | state | operations |
|---|---|---|---|
| chain scanner | `services/historical.py`, `services/repair.py` | locals of a scan: cursor, end, range size | `scan`, `rescan_finality_window`, `repair_range` |
| RPC client | `sources/rpc.py` | none that matters | `safe_head`, `get_logs`, `get_blocks`, retries, `is_range_error` |
| checkpoint | `storage/clickhouse.py: checkpoint` | `indexing_checkpoints` | read the newest row, insert a higher one |
| event storage | `storage/clickhouse.py`, `loaders/events.py` | `raw_rpc_logs`, `chain_blocks`, `decoded_events`, derived tables; the server's asynchronous insert buffers | `store_*`, `process_many` |
| canonical views | `migrations/008_committed_views.sql` | none | filter by checkpoint and by the block hash observed last |
| work queue | `storage/clickhouse.py`, `services/enrichment.py` | `work_items` (a ReplacingMergeTree over `revision`), `dead_letters`, `_RecentEnqueues` of each process | enqueue, lease, finish, release, purge |
| enrichment handlers | `services/enrichment.py` | the batch: prefetched answers, unfinished items, a semaphore | prefetch, fetch, store, fan out new work, finish, deadline |
| resilient loops | `services/continuous.py` | backoff of each loop | scan, enrich, capture, sweep, purge |
| orderbook backfill | `services/backfill_orderbook.py` | its own kinds in `work_items` | seed, drain, status, probe |
| API client | `sources/cow_api.py` | interval, next slot and epoch of the shared limiter | `wait`, `slow_down`, `speed_up`, `_request`, paging |
| export import | `services/export_import.py`, `sources/exports` | `import_runs`, `import_files`, `import_conflicts`, `raw_export_rows` | manifest, read, adapt, store, resume |
| price and metadata sweeps | `services/continuous.py`, `storage/clickhouse.py` | `native_prices`, `native_price_misses`, `token_metadata` | select the tokens that are due, fetch, store |
| the rest | `cli.py`, `config.py`, `preflight.py`, `validation.py`, `observability.py`, `migrations.py`, `decoders` | none that interacts | parsing, reports, metrics, pure conversions |

How they interact: the scanner writes rows and enqueues work; the enrichment
loop leases that work, calls the API through the rate limiter, stores what it
gets and enqueues more; the purge deletes finished work; a range that is
scanned again (finality rescan, repair, restart) enqueues its work again, and
the queue has to recognise what is done.

What is hard here:

* the queue has no transactions: a lease is a read and then an insert, an
  outcome is one insert or two, and which version of an item counts is decided
  by the merge, by a number each writer computes alone;
* workers die, batches are cancelled at a deadline, inserts raise after they
  were applied, leases lapse under a slow holder;
* acknowledged rows may still sit in a buffer, be overtaken by the synchronous
  checkpoint, or be lost;
* suppression of recent enqueues remembers what was asked, not what was written;
* the chain reorganises between two calls of one range;
* two scanning processes share one checkpoint;
* the backfill's seeds, drains and the purge of another process meet in the same
  table, a re-seed is a no-op until the purge has run, and an account's listing
  grows while it is paged through;
* the limiter's reservations are invalidated while their owners sleep;
* a handler writes several tables one after the other and fans out to items that
  other handlers, or the same one again, work on at the same time; what it writes
  may be older than what it replaces;
* an import dies or fails at any call, is repeated, and writes orders beside the
  live loops after it has looked for them;
* three writers share the price tables, and a row that says "no price" hides the
  token from the sweep for a week.

What makes each part correct: an item's outcome is never undone, lowered or
lost to a late writer, open work is never purged, every queued item reaches an
outcome, nobody's retry budget is spent on attempts nobody made (queue); no
block at or below the checkpoint was skipped, the checkpoint reaches the safe
head, the views of the finality window converge to the canonical chain and its
work is written (scanner); what is marked as done was stored, every drain ends,
and the periodic sweep closes every hole inside its window (orderbook backfill); requests keep their spacing, a throttle takes effect
at once, and every call ends (API client); an item that is done left nothing
unstored or undiscovered, a bad key or a raised call stops nobody else, and the
status of an order settles on what the API says (ingestion); a file that is
recorded as complete was stored, a contradicting order is quarantined, an order
that was there first is kept, and repeating the command completes the import
(export import); no token is asked for twice in a window and each ends up with
what the API and the chain have of it (token sweeps).

`PROJECT.json` lists the hazards one by one, at their lines, with the
properties that cover them.

## 2. Modules

| module | models | used by |
|---|---|---|
| `WorkItems` | one `work_id`: the versions each operation inserts, and the merge (`Put`) | `WorkQueue`, `OrderbookBackfill` |
| `WorkLedger` | what the queue promises: an item is absent, open or closed, only ever rises in rank, and only closed items are forgotten | `WorkQueue` (refinement) |
| `WorkQueue` | enqueue, lease, finish, release, purge and the batch loop of `run_once` | `MCWorkQueue`, proofs |
| `Scanner` | `scan` and everything that starts it, range sizing, the inserts and the checkpoint, reorganisations, the insert buffers | `MCScanner`, proofs |
| `ApiClient` | `AsyncRateLimiter` and `_request` | proofs |
| `ExportImport` | `import-export`: manifest, batches, adapters, `import_rows`, the records of files and runs, resume; a live `store_orders` beside it | `MCExportImport`, proofs |
| `Ingestion` | `run_once` with the handlers of all kinds but `token`, the active-order refresh, the auction capture | `MCIngestion`, proofs |
| `TokenPrices` | the price sweep, the `token` items, the metadata sweep | itself, proofs |
| `OrderbookBackfill` | `seed_orders`, `seed_owners`, `drain`, both processors, paging, the purge | `MCOrderbookBackfill`, proofs |
| `WorkQueueProofs` | types, terminal versions, purge, refinement of the ledger | |
| `WorkQueueChargeProofs` | the retry budget | |
| `ApiClientProofs` | types, pacing, throttling | |
| `ScannerProofs` | types, what is committed was acknowledged, stored and enqueued | |
| `OrderbookBackfillProofs` | types, what is done was stored, batches and owners | |
| `ExportImportProofs` | types, what is complete was stored, contradictions are quarantined, settled orders are kept | |
| `IngestionProofs` | types, what is done leaves no hole | |
| `TokenPricesProofs` | types, no question is asked twice | |

### WorkItems and WorkQueue

A row of `work_items` is the record a `FINAL` read returns: status, attempts,
revision, owner, and whether `next_attempt_at` has passed. Each operation's
version is an operator (`LeaseRow`, `RetryRow`, `DoneRow`, ...); `Put` is
`ReplacingMergeTree(revision)`. `MAX_REVISION` is a constant with the
assumption that retries stay below the terminal revisions, which the code's
2^64 - 1 against 10 * 65535 + 2 satisfies.

A worker is a process. `phase` is where it is in `run_once`, `stage[k][i]`
where item `i` of its batch is in `_process_and_finish`, `attempt[k][i]` the
`WorkItem.attempts` it holds. Every await that touches the queue is a step of
its own: `LeaseSelect` and `LeaseInsert`, `Succeed`, `Retry`, `Bury` and
`DeadLetter` (the two inserts of `finish_work`), `BatchDeadline` and `Release`,
`PurgeSelect` and each `PurgeDelete`. Each insert has a variant that raises
with its row written and one that raises without. Time is not counted:
`LeaseLapses`, `RetryDue`, `TerminalAges` and `DedupLapses` may come at any
later step, in any order, so every relative speed of the processes is covered.

`oldest` is the age of the oldest terminal-status version, because
`purge_finished_work` reads without `FINAL`. `charges` is history: attempts
that failed or whose lease ran out.

Left out: which of the leasable items fill the `LIMIT` (any choice is allowed),
the columns that steer nothing (`payload`, `error`, `key`), and what handlers
fetch. The prefetch is part of the processing stage.

### Scanner

A fork of a block is a version number; the pair `<<b, v>>` stands for the logs
of fork `v` of block `b` and for what is derived from them, according to the
table it is in. `pc` names the call of the range loop that comes next, in the
order of the code: `get_logs`, `get_blocks`, `store_blocks`, `store_raw_logs`,
`store_events` (two inserts), `enqueue_work`, `get_checkpoint`,
`insert_checkpoint`. A scan is started by `continuous` (`BeginForward`, then
`BeginRescan`), by `backfill` or by `repair`; the flags of the code
(`store_all_blocks`, `update_checkpoint`) are functions of that mode.
`AsyncInsertWait` and `Suppress` are the two settings that matter.
`checkpoint()` reads and inserts in two steps. `get_blocks` reads one header a
step, in any order, so a reorganisation may fall between two of them;
`DedupLapses` lets one remembered id through again.

Two reads are merged: the safe head and the checkpoint at the start of a scan
(`historical.py:50-51`), and the requests by contract that replace one `get_logs`
at a provider that takes no list of addresses (`sources/rpc.py:172-183`).

### ApiClient

A caller is a coroutine inside `_request`. Times are counted from the present:
`free` is how far `_next` lies ahead of `loop.time()`, `wait[c]` how far the
slot of a sleeper does; `Tick` lets a unit pass. An epoch matters only through
the comparison with the remembered one, so `stale` is the set of sleepers
whose comparison will fail. A sleeper is woken late by up to `Overshoot`.
`quiet` and `since` are history.

### OrderbookBackfill

The third user of `work_items`, on its own kinds, with the versions and the
merge of `WorkItems`. An order is a number in the order of creation; a uid batch
is its set of orders, which is what the sorted key amounts to; an owner item is
its owner. `recent` are the orders with a trade of the last `--since-days` days:
`Trade` puts an order into `traded` and, unless a backfill of old blocks found
it, into `recent`; `Ages` takes it out of the window, at any time; a later fill of
the same order brings it back. `pc[d]` is where a drain is in its loop,
`stage[d][i]` where an item of its batch is. `SeedOrders` is the one-off full
seed and `SeedRecent` the periodic one with its window: the anti-join and the
grouping newest first; `SeedChunk` is one `enqueue_work_many`. `StorePage` fetches and stores one page at
`offset`; between two pages `Place` may add orders in front. `raising` is the
state after `finish_work` raised in the except branch: `gather` has no
`return_exceptions`, so the drain is about to end while other items run on.
`began` is history: how many orders existed when an owner item was begun.

That the API lists an account's orders newest first is an assumption about a
service outside the repository; with another order paging by offset could miss
orders. The semaphore and the order in which a batch is worked off are left out
(all items run together), and so are `--limit`, several chains
in one drain, `probe` and `status`.

### ExportImport

A bundle is a sequence of files, a file a sequence of rows, a row an order (or
a key of another dataset) with the variant of its immutable fields; `bad` is a
row the adapter rejects. `pc` is the next call of `ExportImportService.run`, in
the order of the code: the record of the run, `import_file_done`, one batch
after the other with its hashes, its raw rows, its tables and its conflicts,
`--enqueue-enrichment`, the record of the file, the record of the run. Every
call may raise, with or without its effect, which leads to the inner and the
outer except branch; the process may die; `Resume` is the command given again.
An insert is visible at once or, with the default setting, after its flush.
Time is a clock of stamps: `now` is taken when a batch is begun
(`normalize_export_rows`), and the newest stamp of an order wins the merge.
`todo` are the rows of the batch whose hash is still to be asked, in the order
of the batch; `taken` is what will be inserted, of each order the last row: rows
of one insert have one stamp, and the merge keeps the last. `LiveBegin` and
`LiveStore` are a `store_orders` of the live loops, which takes its stamp and
inserts later. `settled` is history: the orders that, once, were in the table
and newer than what the import still had of them (`OutOfReach`). Left out: how a format is parsed, the check of the
manifest's hashes, and the counts a run prints.

### Ingestion

`todo[a]` is the sequence of calls a task or a loop has still to make; `Answers`
says which calls an answer of the API puts in front of it, `AfterRaise` what an
exception leaves of it. A loop of enqueues is one call with the sets that are
still to be enqueued, in any order. `FanoutOrder`, `FanoutCompetition` and the `Store...`
operators name the rows and items of the functions they stand for, table by
table, because a raise may fall between two tables. The worker leases a batch,
prefetches (`Prefetch`: one malformed key fails it for the whole batch and
every item falls back to its own request), begins as many handlers as the
semaphore allows, and ends the batch when all tasks ended or at the deadline.
`Life` is what the API says of an order over time; an order is stored with what
its answer said when it was fetched. A listing is one page, orders whose
payload is refused by `store_orders` do not occur, the `LIMIT 1000` of the
active-order refresh is never reached, and the queue is a status and a number
of attempts: `WorkQueue` and `OrderbookBackfill` have what is missing here.

### TokenPrices

`seen` are the tokens that orders and trades have named so far, `Early` the ones
known at first. `price` and `miss` say whether the newest row of a token is missing, fresh or
past its window. `sweep` is the next call of `token_price_action`; a sweep's
tokens are a set, since the query has no `ORDER BY`. A refused request is a 403
or 429 (counted in `throttled`), another `CowApiError` (passed over), or any
other exception, which ends the sweep. A token item asks whatever is fresh and
stores its answer some steps later. `asked` is history: the rows of the sweep
that are in their window. Metadata is none, partial or whole.

## 3. Runs

| run | what it shows |
|---|---|
| `queue_two_workers` | all safety properties of the queue and the refinement, two workers on one item |
| `queue_live` | every queued item reaches an outcome; rediscovered work is finished again and again |
| `scan_default` | two processes on one checkpoint, asynchronous inserts: nothing committed was skipped or unacknowledged |
| `scan_durable` | synchronous inserts, suppression: everything committed is stored, the window converges after reorganisations and its work is written, the checkpoint catches up |
| `api_client` | pacing, throttling, and the end of every call, three callers |
| `backfill_stored` | what is done was stored, also while the listing grows |
| `backfill_sweep` | a drain ends; the periodic sweep stores every traded order the API serves before it leaves the window |
| `import_resumed` | an import with a failure at any call, repeated, beside a live store: what is complete was stored, contradictions are quarantined, earlier orders kept, and it completes in the end |
| `ingestion` | all handlers and loops: nothing done leaves a hole, the queue drains, statuses settle |
| `token_prices` | one request per window, prices and metadata converge beside a token without metadata |
| `queue_released_lease` | violation: a released item's next lease is invisible |
| `scan_suppressed` | violation: an enqueue that raised stays suppressed and the work is never written |

### Bounds, and why they are enough

* `queue_two_workers`: one item, two workers of which one purges, two attempts
  with the budget at two, three faults. Items interact only through batches
  (`LeaseLimit`, `PurgeChunk`); every property speaks of one item at a time,
  and what can go wrong needs a second writer of the same item. The proofs
  cover any number. The violation runs use two items.
* `queue_live`: one worker, which also purges, three faults, attempts up to
  six: faults are bounded because an unbounded adversary defeats any progress.
* `MaxRevision` is the least value above the assumption `RevisionHeadroom`.
* `scan_default`: two blocks with a log in the second, a process with `continuous`
  and one with backfills from the resume block, ranges of one block so that every
  block is a commit of its own, one exception or crash. A loss of the server's
  buffers may come at any step, and nothing is explored behind it (`NothingLost`),
  since the property says nothing then. The lower block is empty so that a
  skipped range and an empty one can be told apart. Suppression is off: it concerns the
  work and none of the tables the property speaks of.
* `scan_durable`: three blocks, one fork change up to two blocks deep, provider
  limit below the initial range so that ranges shrink and grow, suppression, two
  faults. One process, which also repairs.
* `api_client`: three callers, a base interval of two units so that a sleeper
  can be one unit late, at most one doubling, two attempts; `MaxBacklog` bounds
  the slots taken ahead of new calls.

* `backfill_stored`: one drain, two orders of one owner of which one trades,
  pages of one order and up to three of them, so that the listing can grow
  between pages and still be read to its end; two attempts, one fault. The purge
  and the seeder are processes of their own. A second drain multiplies the states
  beyond the time of a run; two writers of one item are covered by the queue.
* `backfill_sweep`: one order, one drain, two attempts (so that a failure is
  retried later, and a failed retry or a second lease is a dead item), one fault
  and one loss of both insert buffers. The order's batch meets every obstacle the
  properties are about: a lost buffer, a terminal item that hides a re-seed until
  the purge, a retry, a lease to lapse.
  A second drain is more than twelve million states and left out; what it would
  add, an item another drain has under way, looks to the first like the lease of
  a dead one until that lapses or ends.
* `import_resumed`: three files: two orders in one batch; a rejected row and then
  a row that contradicts a stored order, in two batches; one row of another
  dataset. One exception or crash anywhere, one live store of one of the orders
  with another variant, both insert settings. So every outcome of a row (new,
  duplicate, conflict, rejected) occurs before and after a failure; a second
  failure meets the same except branches again.
* `ingestion`: one settlement and its auction, two orders of one owner of which
  the scanner sees one and the listing names the other, one app data; five
  starting points (`Discoveries`), of which one has a malformed key and one an
  unavailable competition; batches of two, one task at a time, two attempts, one
  exception, deadline or crash. A batch of two is enough for an item to be
  hurt by its neighbour; the semaphore of one makes the second one wait.
* `token_prices`: three tokens, of which one gets its price late and one is no
  contract: it never has metadata, comes back in every metadata sweep and takes
  one of its two slots, so that three tokens never fit. Two throttled requests end
  a price sweep; one token item, one price that leaves its window, one exception.
  `LIMIT 500` (`KnownLimit`) leaves no token out: `MetadataConverges` says so in
  its hypothesis.

### Fairness

* Queue: `_resilient_loop` calls `run_once` again whatever the last call did;
  asyncio runs every ready task; the server flushes on a timer; time passes.
  So the steps of a batch, `Flush`, `LeaseLapses` and `RetryDue` are weakly
  fair. Nothing is assumed of faults and of the purge. Rediscovery (`Enqueue`
  and `DedupLapses` weakly fair) is assumed only where the property says so.
* Scanner: the loop of `continuous` gets its turn infinitely often and then
  takes it (strong fairness of `ServiceStep`, since commands may run in
  between), calls that do not raise return, blocks keep coming, buffers are
  flushed, and every remembered id lapses.
* Backfill: a drain that runs goes on, asyncio runs every ready task, buffers
  are flushed, retries fall due, leases of dead processes lapse. `LoopStep` is
  strongly fair because `run_seconds` may end a drain at the head of every
  round: a drain is given time to lease. `SweepCovers` alone assumes the
  periodic sweep: seeding the window and draining again and again, a purge that
  deletes what is finished, and an API that does not fail for ever. Nothing is
  assumed of the full seed, nor of how long an order stays in the window: the
  property says that none stays in it for ever and unstored.
* Import: the operator repeats the command until the run is complete (an
  exception is bounded), buffers are flushed.
* Ingestion: the worker loop and the two others run for ever, and their calls
  end: `_resilient_loop` sleeps and calls the action again whatever it did.
* Token sweeps: both loops run for ever; a token that is asked for again and
  again is answered some day (strong fairness of its answer, since a sweep may be
  blocked before it), and a miss lapses, which is the clock.
* API client: time passes and every sleep and request ends (the transport has
  a timeout). `CallsEnd` is conditional on throttling having ceased.

## 4. Proofs

All theorems hold for every value of the constants that satisfies the
assumptions named in the modules. None uses fairness. In each module
`TypeCorrect` is proved first, with what the types alone do not carry from step
to step (`LocalsOK`, `StageOK`): which locals are set at which call. Every step
lemma takes the actions one by one, or groups of actions that leave alone what
the invariant speaks of.

* `WorkQueueProofs`. `TypeCorrect`. The inductive invariant `QueueInv` adds to
  the types: the revision of a version tells its status (`RowsTellStatus`), an
  oldest terminal version exists exactly when the row is terminal, and what a
  purge has chosen stays aged until it is deleted. The first part is why a
  terminal version outranks everything a late worker can write; the last one
  needs `OnePurger`. From it: `TerminalVersionsWin`, `PurgeIsSafe`, and
  `QueueImplementsLedger`, where every action is shown to be a set of inserted
  versions, a deletion, or neither.
* `WorkQueueChargeProofs`. `AbandonedAttemptsAreFree`: the attempts column
  never runs ahead of the attempts that failed or whose lease ran out. The
  invariant follows the version of an unended attempt: while the row is a
  running version its revision is the one of its attempt and its worker is not
  past that attempt, and once no lease stands behind it its attempt has been
  charged. Without that a release might lose the merge and leave the charge.
* `ApiClientProofs`. `TypeCorrect`, `Paced`, `Throttles`. Pacing needs that
  slots are a base interval apart from each other and from the last admission;
  throttling that no slot of the current epoch lies in the quiet interval. The
  assumption `Overshoot < BaseInterval` is used by both.
* `ScannerProofs`. `RangesInv` says of a scan, call by call, which tables have
  the rows of its range (`RowsWritten`), that the logs it carries are those of
  some fork of every block of the range (`LogsComplete`), and that everything
  from `Start` to its cursor was acknowledged (`PrefixCovered`): the last part
  is why committing the upper end of one range never commits a hole below it.
  Forks only get newer and acknowledged rows stay (`Grown`), unless the server
  loses a buffer. `NoGapAcknowledged` has the hypothesis that no backfill starts
  above the block the scan would resume at (`NoGap`): the code commits whatever
  range it was told to index, so without it the property is false.
  `RangesAreAcknowledged` replaces it by a condition on the operator's commands,
  no first block above `Start`. `RangesAreStored` adds synchronous inserts,
  under which no loss matters; `WorkIsWritten` has no suppression (with it, see
  `scan_suppressed`) and a server that loses nothing. All of them hold for any
  number of processes that commit to one checkpoint.
* `OrderbookBackfillProofs`. `BatchesAreStored`: a batch that is done, or whose
  drain has stored it and not yet said so, is acknowledged; the second half is
  what survives a retry or a second drain on the same item. `OwnersAreStored`
  counts: every order that existed when the item was begun and whose rank in the
  present listing is below the number of rows read so far is acknowledged
  (`PagesStored`). New orders are only put in front, so ranks only grow and a
  later offset never skips an order; a page that is not full reaches the last
  one. Uses `OwnersAreNoBatches`: a
  `work_id` hashes the kind of its item.
* `IngestionProofs`. `Gives` says of a call what it will have stored or queued
  once it and the calls its answers lead to have returned (`Promises`, for a
  request), and `Implied` what an item answers for. `HandlerGives` shows that a
  handler starts with calls that give all of it, `AnswerGives` that an answer
  puts calls in front that give what the request gave. `HoleInv`: what an item
  with `finish_work("done")` ahead of it answers for is there or given by a call
  before that, and what a done item answers for is there. Writes and enqueues
  only add (`Grows`), so other tasks, loops, deadlines and crashes cannot take
  it back; an exception removes the `done` with the calls it skips (`Keeps`),
  which is why a retry starts anew. It rests on the shape of a task (`Shape`: one
  `finish_work`, the last call), on the loops making no request that an item
  answers for (`LoopCalls`), and on a successful prefetch having a row for every
  order of the batch that the API serves (`PrefetchOK`). `TypeCorrect` adds
  `AttemptsOK`: an item that is open with no task has fewer attempts than the
  maximum plus the faults so far.
* `TokenPricesProofs`. `AskedOnce`: an answer that is remembered is fresh in its
  table, and once a sweep has read a table none of the tokens it has left has a
  fresh row there that a sweep wrote. No limit on the number of tokens is
  assumed; that the `LIMIT` bounds a sweep follows from finitely many having
  been seen.
* `ExportImportProofs`. `CompleteIsStored`: `StoredInv` follows the position in
  the bundle, with every file behind it stored, every batch behind it stored,
  and of the current batch what the calls so far have inserted; a record that
  says complete, in the table or in its buffer and even if a later one hides
  it, has its file stored. `MismatchesAreQuarantined`: every hashed row agrees
  with the table, is about to be inserted, or is about to be quarantined
  (`HashedAgree`), and what is about to be inserted is still absent from the
  table (`TakenAreNew`), for nobody but this import and `continuous` stores
  orders. Its hypothesis `BatchesAgree` excludes a batch with two variants of
  one order, for which the code does not keep the promise (section 5).
  `SettledOrdersAreKept`: `OutOfReach` is stable: a hash that is asked later finds
  the order and takes no row of it, and a row that was taken or buffered before
  has the older stamp of its batch.

Only model-checked: all liveness (`QueuedItemFinishes`,
`RediscoveredItemFinishes`, `WindowConverges`, `WindowWorkWritten`,
`CheckpointCatchesUp`, `CallsEnd`,
`DrainEnds`, `SweepCovers`, `ImportConverges`, `QueueDrains`, `StatusConverges`,
`PricesConverge`, `MetadataConverges`), because the prover has no rules for
fairness and ENABLED. Every safety property of a run has a theorem, but for the
two that the runs with a finding show to be violated.

## 5. Not modelled, and the plan

In this order:

1. Lease times with a clock: the deadline starts after the prefetch, 32
   worst-case owner items outlast the lease.
2. `RecentEnqueues`: exact TTL and LRU; the schedule of the purge loop.
3. The trades view, where API rows bypass the canonical filter; the lease's
   newest-first order under a steady flow.

What the models have, or their authors read, and no run is spent on:

* Queue. A dead item that is enqueued again stays dead until the purge deletes
  it, because revision 0 loses to the terminal version
  (`storage/clickhouse.py:574`), although the way to retry dead letters is to
  repair the originating range (`README.md:218`). `finish_work` inserts the dead
  version and then the letter, so a process that dies in between leaves a dead
  item without one (`storage/clickhouse.py:1131`), although "Items that exhaust
  `COW_MAX_ATTEMPTS` land in `dead_letters`" (`README.md:218`).
* Scanner. With the default `async_insert_wait = False` the checkpoint is
  durable before the rows of its range are (`storage/clickhouse.py:344`), the
  hazard that `storage/clickhouse.py:152` names: "a checkpoint acked before its
  rows were flushed would expose partially-written ranges"; `CommittedRangesStored`
  is checked with synchronous inserts, `CommittedRangesAcknowledged` with the
  default. `checkpoint()` reads and then inserts, so of two processes that commit,
  `continuous` and a backfill, one may insert a lower number than the other did
  since (`storage/clickhouse.py:592`), although "checkpoint monotonicity is only
  enforced in the application layer" (`migrations/008_committed_views.sql:8`) and
  the modes are said to interleave safely (`README.md:126`). `CheckpointNeverFalls`
  states it and no run lists it; as a PROPERTY in `ScannerDefault.cfg` TLC refutes
  it. What does hold then is `CommittedRangesAcknowledged`: the lower number costs
  a second scan and skips nothing. Below the finality window the work of a
  committed block may be missing for good (`scan_suppressed`); inside it
  `WindowWorkWritten` holds. A backfill that begins above the resume block commits
  the blocks below it unread (hypothesis `NoGap` of the theorems).
* Backfill. The periodic sweep sees `--since-days` days and the full seed is
  one-off, since the unbounded anti-join is killed for memory
  (`storage/clickhouse.py:1499`). An order that leaves the window while it is
  unstored, because its buffer was lost late or its batch is terminal and not yet
  purged, is missing until somebody repeats the full seed. The default grace of
  the purge (24 h) against a window of 7 days makes that unlikely; the model has no
  clock and does not say so.
* API client. While answers keep throttling, a waiter may be overtaken again and
  again: `slow_down` invalidates its slot, and it reserves again behind what was
  reserved since (`sources/cow_api.py:86`).
* Ingestion. One order that `store_orders` cannot normalise fails its whole page
  (`storage/clickhouse.py:675`). An order that the API does not know yet is done
  with nothing stored (`services/enrichment.py:201`). A capture that fails
  half-way through `store_competition` is not repeated once the next auction is
  the latest.
* Import. With asynchronous inserts a mismatch inside the unflushed rows, and
  with any a mismatch inside one batch, is not seen and the later row wins, although
  `README.md:250` has imports "never overwrite the canonical order": every hash
  of a batch is asked before its insert (`sources/exports/adapters.py:121`). A record
  "complete" whose insert raised may be flushed after the except branch looked,
  so that a complete run has a file that is recorded as failed.
  `validate-export` reads the counts of the last run only (`cli.py:263`).
  `import_conflicts` keeps a row per attempt.
* Token sweeps. An exception that is no `CowApiError` ends the sweep, although
  "A per-token failure must not abort the whole sweep" (`services/continuous.py:204`).
  A getter whose `RpcError` was transient leaves partial metadata for good
  (`sources/rpc.py:213`). Tokens beyond the unordered `LIMIT 500`
  (`storage/clickhouse.py:1186`), or behind fifty tokens without an answer
  (`services/continuous.py:148`), may never get their turn: with one slot instead of
  two the contracts of `token_prices` can wait for ever behind the token that is
  none, which is why `MetadataConverges` has its hypothesis. The repository claims
  nothing to the contrary. A failing sweep is
  retried after 300 s, sooner than the 900 s of a healthy one
  (`services/continuous.py:46`).

Not planned: option parsing, preflight, validation and metrics (read-only);
migrations (sequential, before anything runs); ABI decoding (a pure
conversion); the export script under `scripts/`.
