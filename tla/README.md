# A verification project for the time-series ingest service

TLA+ modules, TLC runs and TLAPS proofs for the service in `src/ingest`: a FastAPI
process that takes InfluxDB line protocol, writes it through Parquet staging objects into
TimescaleDB hypertables, compacts and evicts in the background and answers federated
queries with DuckDB. `PROJECT.json` lists components, runs, mutants, the map from
definitions to source lines, findings, hazards and theorems; this file explains them.

## 1. Inventory

| part | state | operations | talks to |
| --- | --- | --- | --- |
| HTTP service (`app/api.py`, `main.py`) | references to the other parts | write, query, delete, tier/run, tier/status, lifespan | all |
| Line protocol (`lineproto.py`) | none | `parse_batch`, `parse_line` | write handler |
| Write queue (`batcher.py`) | bounded queue, one buffer and deadline per worker, `_stopping` | `submit`, `submit_sync`, `_worker`, `_flush`, `stop` | Store |
| Store, write path (`store.py`) | sequence counter, hypertable rows | `write_batch`, `_write_measurement`, `_write_through`, `delete_lp` | PostgreSQL, ColdStore |
| Store, schema (`store.py`) | schema cache, a lock per measurement, table columns | `_ensure_schema`, `_create_or_load` | PostgreSQL |
| Cold store (`coldstore.py`) | Parquet objects, manifest table `_cold_objects` | `write_table`, `delete`, `record`, `forget`, `objects` | S3 or files, PostgreSQL |
| Tiering (`tiering.py`) | what one pass has read; no lock between passes | `compact_once`, `evict_once`, `run_once`, `_loop`, `view_specs` | ColdStore, DuckDB, PostgreSQL |
| DuckDB engine (`engine.py`) | one connection, views, a lock | `register_views`, `query_rows`, `compact`, `export_hot_range` | Parquet objects, hypertables |
| Configuration, load generator, Compose, Grafana | none of their own | | |

One process runs on one event loop, so code between two `await`s is atomic, and everything
that awaits interleaves: workers with each other, with requests, with the tiering loop and
with passes that requests start. File operations run in threads. Three stores (objects,
manifest, hypertables) change one at a time, with no transaction over two of them. A crash,
or the cancellation at shutdown, may fall between any two.

Where it is hard, and what makes each part correct:

- *Write path.* A batch becomes an object, a manifest row, hypertable rows, in this order.
  Whatever step fails, an acknowledged row is durable and newer versions win.
- *Compaction.* Inputs are deleted while writers add objects and queries read them. The
  merged rows must be listed before the inputs go and must never be overwritten by less.
- *Eviction.* A chunk may only go when its rows are elsewhere; the decision uses a manifest
  read earlier. Without write-through its rows are copied first, while writers write.
- *Coverage, pruning.* Closed and half-open ranges live in the same columns; no gap may be
  reported as covered, no object with a row in the window be skipped.
- *Write queue.* No point may be lost, duplicated or forgotten; a request larger than the
  queue and a batch smaller than the batch size must still make progress; the updates of
  one client must keep their order.
- *Federation.* An answer is put together from three reads and a shared view; it must lack
  nothing that was visible when the request came.
- *Row columns.* A point sets some fields of a row. What becomes of the others?
- *Schema.* A cache changed inside transactions and read across awaits: it must tell the
  truth about the table, columns must only widen, and a batch encoded for one type must not
  be stored in a narrower one.
- *Lifecycle.* Cold store, engine and tierer come up one after another and fall back
  together; shutdown must end, and close nothing that is still in use.
- *Parsing.* Separators, quotes and escapes next to each other; which errors stay with
  their line. A restart of the sequence counter.

The same list, each at its line and with the properties that watch it, is `hazards` in
`PROJECT.json`.

## 2. Modules

| module | what it is |
| --- | --- |
| `VersionStore` | abstract specification: a durable map from row key to newest version |
| `TieredStore` | one measurement: writers, deletes, passes, over hypertable, objects and manifest |
| `TieredStoreInv` | the regimes and the inductive invariants: durability and refinement, manifest, no write-through |
| `TieredStoreProofs` | type correctness, the soundness of the manifest in every mode |
| `TieredStoreDurability` | what write-through keeps; that it implements `VersionStore` |
| `TieredStoreHotOnly` | what is kept without write-through |
| `Ranges`, `Coverage` | what coverage means; the algorithms that decide it and that prune |
| `Batcher` | queue, workers, shutdown |
| `Service` | extends `Batcher` with start-up, fallback, tiering passes and shutdown of the process |
| `ServiceProofs` | the theorems about the queue and about the process around it |
| `Schema` | the schema manager of one measurement: cache, lock, ALTER transactions, widening, deletes, restart |
| `SchemaInv`, `SchemaProofs` | its plain regime and two inductive invariants; the theorems about it |
| `LineProto`, `Parsing` | the parser as operators on symbol sequences; the texts, points and bodies it is given |
| `PureFunctions`, `PureFunctionsProofs` | `Coverage` and `Parsing` in one next-state relation; the theorems about both |
| `Federation`, `FederationProofs` | extends `TieredStore` with federated queries; the theorems about them |
| `RowColumns`, `RowColumnsProofs` | the fields of rows through upsert, versions and dedup; the theorems about them |
| `MCTieredStore`, `MCBatcher`, `MCService`, `MCSchema`, `MCFederation`, `MCRowColumns`, `MCPureFunctions` | finite instances |

### TieredStore

State and code: `hot` is the hypertable (the seq of the row with each key), `chunks` the
chunks TimescaleDB has, `files` the bucket, `manifest` the rows of `_cold_objects`,
`writer[w]` a `_write_measurement` call with the statement it is about to execute,
`pass[p]` a `run_once` call with its local variables. `acked` and `horizon` are ghosts.
Every `await` that reads or writes shared state is an action: `PutStaging`,
`RecordStaging`, `UpsertHot`; `ListStaging`, `Compact`, `RecordCold`, `DeleteStaging`,
`ForgetStaging`; `ListChunks`, `ListIntervals`, `EvictCovered`, `ExportChunk`,
`RecordExport`, `DropExported`. `FailWrite` and `InterruptPass` are an exception, a
cancellation or a crash; since the process keeps nothing but these local variables and the
counter, a crash is all of them at once, which the interleaving of single failures covers.

Abstractions. One measurement. A row is its key and its seq; columns are in `RowColumns`.
A batch has one seq: its numbers are taken without an await in between and form a block,
and its rows have different keys, as they do after the in-batch dedup. Days, chunks and
times are small numbers; `ChunkOf` aligns chunks at multiples of their length. Any cutoff
may be asked for (`older_than` is a request parameter, and time passes). `MaxSeq` and
`MaxTime` bound batches and times. Two switches describe deployments, not code: `LateRows`
(do rows arrive for times already aged out?) and `InterruptAt` (where may a pass be ended?).

### Batcher, Federation, RowColumns, Coverage

`Batcher`: `client[c].left` are the points of a request not yet put, `worker[i]` the task
with its `buf`; `"flush"` is before and `"write"` after the rows are numbered in
`write_batch`. Time is abstract: a nonempty buffer may become due at any moment. `Stop`
cancels: a waiting worker flushes what it has, a flushing one ends.

`Federation`: `view` is the DuckDB view all requests share, `query[q]` a request between
the steps of `_run_query`: select objects, replace the view under the lock, run the SQL
without it. The Parquet objects and the hypertable are read in two steps. The hypertable is
taken to exist. DuckDB binds a view when it is made, so one over nothing (`SELECT WHERE false`,
which has no columns) or over an object that is gone is rejected: the request fails, and the
view that was there stays (`Binds`, `RegisterFails`).

`RowColumns`: the value of a field is the number of the point that set it, so an old value,
a lost value and the right value are told apart. Steps are sequential here on purpose.

`Coverage`: `merge_intervals`, `is_covered` and `select_overlapping`, each loop a recursive
function of the number of turns, asked about lists of ranges and compared with their
definitions in terms of instants. Python's sort is any permutation that puts the ranges in
order. `TieredStore` uses the definition (`CoveredBy`); this module justifies it.

### Service

`phase` is where `lifespan` stands; `pool`, `cold`, `engine`, `tierer` are what it has
opened, `passes` who is inside `run_once`, `statements` which passes have a DuckDB statement
running. A merge or an export runs in a thread of its own (`asyncio.to_thread`), and
cancelling the task that awaits it does not stop it: `StopTierer` ends the loop's pass and
leaves its statement, which ends when it ends (`EndStatement`), also after the engine is closed. The queue, requests and workers are `Batcher`'s
own actions: `SendRequest` adds that requests are taken only between start-up and shutdown,
`StopBatcher` is `Batcher!Stop` at its place in the order. `ColdUnavailable` is the
`except` of lifespan, after any prefix of the steps. The server stops taking requests and
lets those in progress end before it shuts lifespan down, as Uvicorn does.

### Schema

`table` is the catalog, `draft` the columns inside an open ALTER transaction, `objects` the
`TableSchema` instances, `cache` which of them `_schema_cache` holds. That objects have an
identity matters: a batch keeps the instance it was given while another batch changes it.
`writer[w]` is a `_write_measurement` call: `"locking"`, `"loading"`, `"altering"`,
`"encoded"` (rows coerced, awaiting write-through and the pool), `"staged"` (copied into the
temporary table), and then `"stored"` or `"refused"`. `deleter[d]` is a `delete_lp` call.
Values are their Python types; what asyncpg encodes (`CanEncode`) and PostgreSQL assigns
(`CanAssign`) are small relations on types. The order in which the tags and the fields of a
batch are added is left open. A name and its column are different things (`ColOf`): several
names may share a column, and a load finds only the sanitized spelling (`Bare`). `poisoned`
is a ghost: a rollback has left the cached object changed. The model needs no bound: its
state graph is finite, with any number of batches, failures and restarts one after another.

### LineProto and Parsing

A text is a sequence of symbols: comma, equals sign, blank, quote, backslash, and a few that
stand for everything else. Each loop is a recursive function of the number of turns:
`ScanStep` is a turn of the splitters' loop, `UnescapeStep` one of the unescaping, `AddPair`
one of the loops over tags and fields, `NextLine` one of the loop over a body. `parse_line` returns the point, `"rejected"` (a
`LineProtocolError`, which is reported with its line) or `"raises"` (any other exception,
which leaves `parse_batch`). `Parsing` builds every short text, and has a client write
points by the rules at the top of `lineproto.py` (`Encoded`) and send bodies. `Written` says
which points a line can carry at all: a name cannot hold a quote, because the format has no
escape for it there; a string cannot end in a backslash; no measurement begins with `#`.
`Misread(s)` is the one kind of text that the scanner's one-symbol look-back misjudges: a
quote right after an escaped backslash, which does end the string.

## 3. Runs

Passing runs:

| run | instance | shows |
| --- | --- | --- |
| `WriteThrough` | 2 writers, 1 pass, 3 batches, 2 days in one chunk, failures, interruptions outside the delete loop | `HotCoveredByCold`, `AckedDurable`, `ManifestSound`, the inductive invariant `StoreInv` (it contains `IInv`), refinement of `VersionStore` (`VersionsOnlyRise`) |
| `HotOnly` | write-through off, 2 chunks of a day, 3 batches, deletes, interruptions anywhere, no late rows | `AckedReadable`, the inductive invariant `HotInv` |
| `OverlapDrains` | 2 overlapping passes, 2 days in a chunk, 2 batches, fairness | `StagingEventuallyCompacted`, the inductive invariant `ManifestInv` (it contains `ManifestSound`) |
| `ServiceLifecycle` | 1 client with 4 points in requests of up to 3, sync or queued, 2 workers, batches of 2, a queue of 1; start-up that fails anywhere, failing writes, passes with their statements, shutdown; fairness | `Accounted`, `ClosedAfterUse`, `ColdAllOrNothing`, `EveryRequestAnswered`, `EveryPointFlushed`, `WritePathFixed`, `ShutdownEnds`, the inductive invariant `ServiceInv` |
| `PureFunctions` | lists of up to 3 ranges over 5 instants; texts of up to 6 symbols; points with names and strings of up to 2 symbols; bodies of up to 4 lines | `CoveredIffNoGap`, `PruningKeepsRows`, `CutsWhereUnescaped`, `PointsSurvive`, `BodyIsLineByLine` |
| `QueryDuringTiering` | 1 query at a time, any tier and window, 2 batches, failures, interruptions outside the delete loop | `AnswerComplete`, the inductive invariant `FedInv` |
| `RowFields` | 2 rows, 2 fields, 5 points, batches of up to 2 | `NeverStale`, `WholePointsAgree`, the inductive invariant `RowInv` |
| `SchemaAgrees` | 2 batches in flight of 4 kinds that cover all types, 1 delete, a tag and a field, failures and restarts anywhere, deletes not while batches are in flight; fairness | `CacheMatchesTable`, `TrueCacheRoundsNothing`, `RefusedOnlyIfOvertaken`, `SkippedOnlyIfUnknown`, `NeverDemoted`, `EveryBatchEnds`, the inductive invariants `SInv` and `AnswersInv` |

Why the bounds are enough for the question: a race over a row needs two writers and one
key; a merge that loses something needs two inputs, and a third batch that arrives while it
runs; an export that collides needs two chunks in a day or two passes; pruning needs a
window that ends inside the time line; a batch is overtaken by one other, and the four types
leave room for three widenings in a row; every step of the scanner looks at two neighbouring
symbols, so six show each combination inside and outside quotes; a worker is cancelled with
a full buffer, a partial one, none, or in the middle of a write. Every safety property of a
passing run is also proved, for every instance (section 5); the bounds matter for the liveness
properties.

Deadlock checking is off only where the system does stop: the batcher and the service after
shutdown or when the clients have sent all they may, `RowColumns` at its bound of points
once everything is merged and evicted, `PureFunctions` after an answer.

Runs that find a disagreement between the code and what its documents say (`findings`):

| run | property | what happens |
| --- | --- | --- |
| `OverlapLosesRows` | `HotCoveredByCold` | two passes merge into one object name; the second has fewer inputs left and overwrites the rest |
| `EvictionDropsFields` | `ColdHasHotFields` | the fields of earlier partial updates are in the hypertable only |
| `RollbackRounds` | `StoredUnrounded` | a widening rolls back, the cached object keeps it; the next float is rounded into the BIGINT column |
| `StaleUpsert` | `HotKeepsLatestSeq` | two workers write a row; the batch that commits last wins, with the lower seq |

Further instances. These configurations are kept for a reader who wants to see the trace;
TLC reports the property violated under each. The first seven contradict a
document or a comment as well, as the runs above do;
the others describe what the code does not attempt, or repeat a cause above.

| configuration (module) | property | what happens |
| --- | --- | --- |
| `InterruptLosesRows` (MCTieredStore) | `HotCoveredByCold` | a pass ended inside the delete loop is redone under the same name from what is left of the inputs ("an interrupted pass simply redoes the unfinished object", `docs/timescaledb.md:519`) |
| `WorkersReorder` (MCBatcher) | `OrderKept` | several workers number a client's points out of order: the update of a point may take the lower number ("how line protocol expresses updates in this service", `README.md:37-39`) |
| `QueriesShareViews` (MCFederation) | `AnswerComplete` | a request runs its SQL on the view another request has pruned for itself ("deduped across tiers", `docs/timescaledb.md:428`) |
| `LoadDemotes` (MCSchema) | `NeverDemoted` | a delete loads the schema without the lock and replaces the cached one with what it read before a widening; the next batch widens the column to less ("never demote", `docs/timescaledb.md:241`) |
| `LineAborts` (MCPureFunctions) | `LineErrorsStayLocal` | a number like `xi`, or an instant no datetime holds, fails the whole body ("do not abort the whole batch", `lineproto.py:21-22`) |
| `BackslashStrings` (MCPureFunctions) | `PointsSurvive` | a string that ends in an escaped backslash: its closing quote is taken for an escaped one ("internal `"` and `\\` are backslash-escaped", `lineproto.py:10`) |
| `HotOnlyFallback` (MCService) | `AcknowledgedIsCold` | the cold store cannot be set up; the service runs without it and acknowledges (`README.md:42`) |
| `RestartRounds` (MCSchema) | `StoredUnrounded`, `SkippedOnlyIfUnknown` | after a restart a capitalized field counts as missing; ADD COLUMN IF NOT EXISTS leaves the type, the cache notes the wider one; and a delete by a capitalized tag answers 0 (`tlc -continue` shows both) |
| `InterruptWedges` (MCTieredStore) | `StagingEventuallyCompacted` | a pass ended between delete and forget leaves a manifest row without object, which stops all later passes |
| `LateRowsLost` (MCTieredStore) | `AckedReadable` | a row written between export and drop |
| `SubDayChunks` (MCTieredStore) | `AckedReadable` | chunks of one day overwrite each other's export |
| `DeleteStaysInCold` (MCTieredStore) | `DeleteErases` | deletes reach one tier |
| `CloseMeetsCopy` (MCService) | `EngineIdleWhenClosed` | shutdown closes the DuckDB connection while the merge or export of the cancelled pass still runs in its thread |
| `StopDropsPoints` (MCBatcher) | `AckedSurvivesStop` | answered points are in the queue or in a cancelled flush |
| `QueryMeetsCompaction` (MCFederation) | `QueriesSucceed` | an object of the view is deleted before the SQL runs |
| `QueryMeetsExport` (MCFederation) | `AnswerComplete` | rows move from hot to cold between the two reads |
| `BatchDropsFields` (MCRowColumns) | `UpdatesMerge` | two points of a row in one batch: the fields of the first are lost |

The passing runs are set in the regime next to each of these: one pass at a time, no
interruption in the delete loop, write-through on (or one batch at a
time, chunks of at least a day and no late rows), one query at a time, whole points, deletes apart from batches, names spelled as the
catalog spells them, no string that ends in a backslash. That is the finding in one
sentence: the protocol is right under these conditions and the code enforces none of them.

Each property of a passing run has a *mutant*: an operator next to the definition it
mutates, with a plausible mistake in it, under which the run reports the property violated.

## 4. Fairness

`TieredStore!FairSpec`: a pass that can take a step takes one. `Tierer._loop` runs passes
for as long as the service is up and every await it makes returns or raises. No fairness for
writers: clients stop when they like. `Batcher!FairSpec`: the event loop runs ready tasks;
a worker waits for a point or its timer, a commit returns or raises, a blocked `put` is
woken when there is room. Weak fairness is enough, no step is disabled and enabled again
for ever by others: a worker keeps what it has taken, and a request that waits for room
competes only with the requests of the other clients, each of which is bounded.
`Service!FairServiceSpec` adds that lifespan's shutdown goes on; nothing is assumed of
start-up, of passes, of their statements or of when shutdown is asked for. A statement may
run for ever: shutdown of lifespan does not wait for it.

`Schema!FairSpec`: strong fairness of each batch. The lock may be free and taken again any
number of times before a waiting batch gets it, which weak fairness would allow for ever;
asyncio's locks wake their waiters in the order they came, and PostgreSQL's row and table
locks queue as well. Whether a statement succeeds or raises is left open. Weak fairness for
deletes, which wait for no lock but an open ALTER.

## 5. Proofs

The theorems hold for every value of the constants that the named assumptions of the modules
allow (`SizesAssumption`, `SwitchesAssumption`, `BatchesAssumption`, `QueriesAssumption`,
`CoverageBounds`, `ParsingBounds`, `SymbolsHaveMarks`, `LinesAreTexts`, `PointsAreRecords`,
`RowBounds`, `BatcherSizes`, `BatcherSwitches`, `ServiceSwitches`, `SchemaNames`, `SchemaActors`,
`SchemaBatches`, `SchemaSwitches`): any number of writers, passes, clients, workers, tags, days,
and any chunk length, queue and batch size, any texts, lines and points over any set of symbols
that has the marks the parser looks for. What is assumed beyond them is in the second column.

| theorem | under | says |
| --- | --- | --- |
| `TieredStoreProofs!TypeCorrect` | | `[]TypeOK` |
| `TieredStoreProofs!ManifestInvariant`, `ManifestIsSound` | `NoneForgetsHalfway` | `[]ManifestInv`, `[]ManifestSound` |
| `TieredStoreDurability!Inductive` | `SafeRegime` | `[]IInv` |
| `TieredStoreDurability!EvictionLosesNothing` | `SafeRegime` | `[]HotCoveredByCold` |
| `TieredStoreDurability!AcknowledgedIsDurable` | `SafeRegime` | `[]AckedDurable` |
| `TieredStoreDurability!StoreInvariant` | `SafeRegime` | `[]StoreInv` |
| `TieredStoreDurability!ImplementsVersionStore` | `SafeRegime` | `Spec => VersionsOnlyRise` |
| `TieredStoreHotOnly!HotOnlyInvariant` | `HotOnlyRegime` | `[]HotInv` |
| `TieredStoreHotOnly!AcknowledgedIsReadable` | `HotOnlyRegime` | `[]AckedReadable` |
| `FederationProofs!QueriesLeaveStore` | | `FedSpec => Spec` |
| `FederationProofs!QueriesInvariant`, `QueriesTypeCorrect` | `SafeRegime`, `OneQueryAtATime` | `[]FedInv`, `[]FederationTypeOK` |
| `FederationProofs!AnswersLackNothing` | `SafeRegime`, `OneQueryAtATime` | `[]AnswerComplete` |
| `PureFunctionsProofs!CoverageIsExact` | | `CoverageSpec => []CoveredIffNoGap` |
| `PureFunctionsProofs!PruningIsSafe` | | `CoverageSpec => []PruningKeepsRows` |
| `PureFunctionsProofs!CutsAreSound` | | `ParsingSpec => []CutsWhereUnescaped` |
| `PureFunctionsProofs!BodiesAreSound` | | `ParsingSpec => []BodyIsLineByLine` |
| `PureFunctionsProofs!PointsComeBack` | all points `Written` | `ParsingSpec => []PointsSurvive` |
| `PureFunctionsProofs!PureFunctionsAreApart` | | `PureSpec => CoverageSpec /\ ParsingSpec` |
| `SchemaProofs!SchemaInductive`, `SchemaTypeCorrect` | `PlainRegime` | `[]SInv`, `[]TypeOK` |
| `SchemaProofs!CacheIsTruthful` | `PlainRegime` | `[]CacheMatchesTable` |
| `SchemaProofs!RoundsNothing` | `PlainRegime` | `[]TrueCacheRoundsNothing` |
| `SchemaProofs!ColumnsOnlyWiden` | `PlainRegime` | `Spec => NeverDemoted` |
| `SchemaProofs!AnswersInvariant` | `PlainRegime` | `[]AnswersInv` |
| `SchemaProofs!RefusedWithCause` | `PlainRegime` | `[]RefusedOnlyIfOvertaken` |
| `SchemaProofs!SkippedWithCause` | `PlainRegime` | `[]SkippedOnlyIfUnknown` |
| `RowColumnsProofs!RowInvariant`, `RowTypeCorrect` | | `[]RowInv`, `[]TypeOK` |
| `RowColumnsProofs!FieldsNeverStale` | | `[]NeverStale` |
| `RowColumnsProofs!WholePointsAgreeAlways` | | `[]WholePointsAgree` |
| `ServiceProofs!QueueInvariant` | | `[]BatcherInv` of the queue alone |
| `ServiceProofs!ServiceInvariant`, `ServiceTypeCorrect` | | `[]ServiceInv`, `[]TypeOK` |
| `ServiceProofs!PointsAccounted` | | `[]Accounted` |
| `ServiceProofs!NothingClosedInUse` | | `[]ClosedAfterUse` |
| `ServiceProofs!ServesAllOrNothing` | | `[]ColdAllOrNothing` |
| `ServiceProofs!PathNeverChanges` | | `ServiceSpec => WritePathFixed` |
| `ServiceProofs!ServiceKeepsQueue` | | `ServiceSpec => Spec` of `Batcher` |
| `ServiceProofs!OneWorkerKeepsOrder` | `OneInOrder` | `[]OrderKept` of the queue |

The regimes, and the runs and configurations that show their conditions are needed:

- `SafeRegime`: write-through on, at most one pass (`OverlapLosesRows`), no pass ended at
  `"delete"` or `"forget"` (`InterruptLosesRows`). Failing writes, deletes, late rows and
  passes that end anywhere else are allowed.
- `NoneForgetsHalfway`: no pass ends between deleting an object and forgetting it
  (`InterruptWedges`). Passes may overlap, in every mode.
- `HotOnlyRegime`: write-through off; one batch at a time (`OneBatchAtATime`, `StaleUpsert`);
  one pass at a time (the second exports a chunk the first has emptied over its own export:
  give `HotOnly.cfg` `Passes <- TwoPasses`); no rows for times already aged out
  (`LateRowsLost`); chunks of at least a day (`SubDayChunks`). The pass may end anywhere.
- `OneQueryAtATime`: `QueriesShareViews`.
- `OneInOrder`: one worker and no synchronous writes (`WorkersReorder`; a synchronous write is
  numbered at once and overtakes what its client has in the queue).
- all points `Written`: `BackslashStrings`. The points of `PureFunctions` are
  (`MCPureFunctions!PlainPointsAreWritten`).
- `PlainRegime`: each name is the one a load finds its column under (`RestartRounds`), and no
  delete loads the schema while a batch is in flight (`LoadDemotes`).

*Durability.* `HotCoveredByCold` is not inductive: that a version is in *some* listed object
does not say that the object stays, because a merge may overwrite a listed object.
`Solid` names the objects that do stay until their rows are elsewhere: staging objects;
merged objects whose name no later merge computes again, because the staging object with
that number is no longer listed; and the object of the pass that is deleting its inputs.
Export objects (number 0) are never solid, so exports may overwrite each other freely.
`IInv` says that every hot, acknowledged and about-to-be-upserted version is held by a solid
object (`HotHeld`, `AckedHeld`, `WrittenHeld`); what makes it inductive is that a pass's
output has every row of the inputs it deletes (`PassSound`), that the numbers of batches are
used once (`SeqsUsed`, `Unrecorded`), and that the manifest is keyed (`ManifestKeyed`). Most
actions keep every solid object; `ForgetStaging` of the last input is the step at which the
output becomes solid in its own right. `HeldInCold` turns holding into the properties.

*Refinement.* For the newest version a reader finds never to fall, holding the hot rows is
not enough: an object that is listed and not solid, such as an export that the next one
overwrites, may serve a row as well. `StoreInv` adds that every row of a listed object is
held by a solid one (`ListedHeld`), and every row of an object that is written and about to
be listed (`PassHeld`). `SolidKept`, step by step, then gives that the versions only rise,
and `RecordStaging` is the step of `VersionStore` that raises the keys of a batch together.

*The manifest.* `ManifestSound` speaks of every object, also of exports and of objects that
other passes list, so it is proved from an invariant of its own, in every mode and for passes
over each other. Only a pass deletes, and only what it has in hand; these are staging objects
under their own names (`StagingNamed`), which no writer is about to list (`WritersFresh`); what
is about to be listed exists and is never a staging object (`PendingStored`).

*Without write-through.* A row is in the hypertable until its chunk is exported, and in
nothing but the export afterwards, so the order of export and drop is not enough: rows may
arrive between the two, and the export may be overwritten. `HotInv` says when neither
happens. A listed object is the export of a chunk that is closed, i.e. wholly before the
highest cutoff so far (`OnlyExports`), and a batch holds no row before it (`BatchesOnTime`);
so the rows of an exported chunk only disappear, by deletes, and the export stays complete
(`ExportsComplete`, `ExportedKept`). Chunks begin at multiples of their length, so two of at
least a day never share an export (`DaysDiffer`), a chunk is covered by no export but its own
(`CoveredByExport`), and a dropped chunk does not come back to be exported empty
(`AckedSomewhere`, `PassEvicts`). A pass may end between any two of its steps because each
next pass begins with what the manifest says. That the export of a row is not older than what
was acknowledged needs the hypertable row to be the newest, which holds for one batch at a time
(lemma `LatestNext`); with several workers it does not (`StaleUpsert`).

*Queries.* A query uses the object list it read, while passes merge and delete what is on it.
`FedInv` says that, for every key that was visible in the window when the request came in,
an object the query has picked still holds that version or is gone (`Answerable`): such objects
are `Fixed`, no later step writes them again: a staging object is written once, before it is
listed, and the staging object that names a listed merged object is gone or in the hands of
the pass that wrote it (`MergedOnce`). If the
object is gone the SQL raises and there is no answer. That pruning picks the object needs
that manifest ranges are true (`RangeSound`), for every object that is not an export; an
object that is one is never needed, because a solid one has the row too. The rows of
the store itself come from `StoreInv`, which `QueriesLeaveStore` carries over.

*The planners.* The library's induction theorems take a predicate, which the provers cannot
instantiate, so `PureFunctionsProofs` argues with sets: were the set of turns at which a loop's
invariant holds not all of them, the well-foundedness of `<` would give a least one that
is missing (`Induction`, `InductionUpTo`). The same gives that a loop has a value after each
turn (`LoopExists`), so that the recursive functions equal what they are defined to be, and
that a sorting permutation exists (`OrderExists`, by exchanging the last range to the end).
`MergedSoFar` is the invariant of the merge: disjoint, rising ranges that hold exactly the
instants of those read so far; it needs the sort, because a range is joined to the last one
only. `CursorSound` is that of the cursor: all before it is covered, and each of the two
early returns is given for a reason that later ranges cannot undo. `TieredStore`'s eviction
guard is thereby what the code computes, for any number of objects.

*The parser.* The same induction carries its loops. `ScanSound` says what the scanner holds
after each symbol, in terms of the text alone: whether the next symbol is the second of a
backslash pair is the parity of the backslashes before it, whether it is quoted the
parity of the bare quotes, and the parts are the segments up to the last cut; unless the
text is `Misread` the look-back agrees with that parity. For bodies `BatchSound` says which
numbers and points there are after each line; lists in rising order are determined by their
sets (`EnumerationIsInOrder`). That a point comes back is proved from the inside out, because
a text is scanned three times, as part of its line, of its section and of its pair. `Inert(w)`
says of a text that the scanner, wherever it meets w outside quotes and pairs, passes it
without a cut and is outside quotes and pairs again. Escaped names, quoted strings and numbers
are inert, inert texts joined by a symbol that is no mark are, and inert texts joined by the
separator are split into just these (`JoinedSplits`). Only a backslash right before w could
spoil this (`Clear`), and a separator stands there; inside a quoted string it is the closing
quote that would be spoilt, so a string may not end in a backslash.
`NameComesBack` undoes the escapes, `ReadsBack` recognizes each value's type,
`SectionComesBack` puts the pairs together, in whichever order they were written, and
`PointComesBack` follows the line through strip, the splits and the checks.

*The schema manager.* That the cached object agrees with the table is not inductive: an object is
changed while the transaction is open, a loaded object becomes the cached one only later,
and the object that a rollback has left changed is used by the next transaction. So `SInv`
speaks of the objects *in use* (the cached one and the one being altered) and of `Columns`,
what the table will be if the open transaction commits. They agree unless poisoned
(`Truthful`), and even poisoned an object never knows less than the table (`NotNarrower`);
this is what keeps columns from narrowing after a rollback, where agreement is lost. It is
kept because only the holder of the lock changes an object (`LockHeld`, `TypeOK`), that
object is the only one in use (`RightObject`, lemma `AlteringAlone`), and a load starts with
nothing cached. `AlterStep` is the heart of it: a statement raises one column and one type,
and a batch that was encoded against the object still fits it (`FitsRaised`).
`Unaltered` says that a transaction has a statement before it commits.
`AnswersInv` is what answers rest on: the rows a batch has coerced stay within the cached
types (`RowsWithin`), because a cached object only rises while it is cached; a refusal keeps
its cause, because TEXT is the top and nothing that left BOOLEAN can be cast back; and a
delete keeps what it was told (`DeleterTold`).

*Row columns.* A read takes whole rows by number, not values by field. `RowInv` says that
all numbers given are behind the counter, so that the records of a batch are newer than
everything stored, and that the hypertable row and the newest cold version of each row have
only current values or NULL (`HotCurrent`, `ColdCurrent`): merging keeps the newest version
and evicting a row changes no version. For whole points the same holds with equality
(`WholeRows`).

*The queue and the service.* `OrderInv` says that what is numbered, what the worker holds and
what is queued stand in a line, each client's points in the order it sent them, and that the
next point joins at the end; one worker is what makes the middle of the line one buffer.
`BatcherInv` partitions the points a client has handed over
(put, buffered, flushing, stored, failed, dropped) and keeps the parts disjoint, so that a
move from one part to the next accounts for each point once. `LifeInv` ties what is open to
the phase of lifespan: a pass is begun only while the tierer is there and ends before the engine closes, every
statement but the one the loop's cancelled pass has left behind belongs to a pass, the pool
closes only after every worker has ended. The service's actions are the queue's own or leave it unchanged, so
the second invariant is proved on top of the first (`ServiceInv`), and whatever holds of the
queue alone holds of the queue in the service (`ServiceKeepsQueue`).

Model-checked only: the liveness properties (`StagingEventuallyCompacted`,
`EveryRequestAnswered`, `EveryPointFlushed`, `ShutdownEnds`, `EveryBatchEnds`); fairness and
ENABLED are out of the prover's reach.

## 6. Not modelled

- In the schema manager: identifiers longer than 63 characters, columns made by hand,
  compression policies, the index; measurements that sanitize to one table.
- In the parser: which spellings `float()` and `int()` take (`inf`, `1_0`), the arithmetic of
  instants and precisions, integers beyond BIGINT.
- In the service: health and status requests, JSON, an exception out of `engine.close()`
  (the batcher and the pool would then not be closed).
- What DuckDB does to a statement whose connection is closed, and the wait of the process for
  its threads after lifespan has ended. For the store, a COPY that completes after its pass
  was cancelled is `Compact` or `ExportChunk` followed by `InterruptPass`.
- Several measurements: `run_once` handles them one after another and a measurement that
  raises ends the pass.
- Several service processes. The sequence counter is taken to rise across restarts, as
  `store.py:47-52` intends; the clock may say otherwise.
- Row locks and deadlocks inside PostgreSQL; an aborted transaction is `FailWrite`.
- Exhaustion of the connection pool, time-outs, logging.
- The load generator (a client), Compose files, Grafana: no state of the service.

## 7. Plan

Order of the work: the core (`TieredStore` with its abstract specification, its invariant
and proofs), the queue before it, the planners beneath it, the readers beside it, then the
parts above.

1. *Done*: the modules of section 2; in the second round `Schema`, `Service`, `LineProto`,
   `Parsing` and the first theorems about `Schema`; in the third the theorems about the
   manifest, the refinement, the mode without write-through, queries, row columns, the queue,
   the service and the planners; in the fourth those about the parser, the service as a
   refinement of the queue, and the order one worker keeps.
2. `SeqClock`: processes with clocks and restarts, several replicas over one database
   (`store.py:47`).
3. `Measurements`: passes over several measurements, one of which fails (`tiering.py:113`).
4. Theorems still open: the types of `Federation` in every mode; which of the invariants of the
   safe regime survive overlapping passes.
