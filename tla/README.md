# Verification of webanalyticsdb

A TLA+ model of webanalyticsdb, an append-only analytics database in C: one
process, one writer thread, tables kept as logs of segment files. The modules
are translated from the code under `src/src/`; the documents and tests are used
only to learn what the code is meant to guarantee.

## The system

| Part | Source | State | Operations | What makes it hard |
|---|---|---|---|---|
| Segment store | `storage/segments.c`, `platform/files.c` | segment files, segment array, `last_sequence`, `last_time`, `read_only` | `wadb_commit_requests`, `create_active`, `wadb_storage_recover` | a death or a failed call between any two system calls; torn tails; orphan files; uncertain outcomes |
| Manifest | `storage/metadata.c` | the manifest file | `wadb_save_manifest`, `wadb_load_manifest` | rename without directory synchronization |
| Retention | `storage/retention.c` | tombstones, preserved watermarks, `pending_retention` | `wadb_set_retention`, `wadb_retention_apply`, `wadb_retention_cleanup` | deletion against readers; partial cleanup; restart after all rows are gone |
| Snapshots | `query/snapshot.c` | pins, `readable_segments` | `wadb_snapshot_acquire`, `wadb_snapshot_release` | who deletes when retention finds a pin |
| Append queue, writer | `ingest/writer.c` | queue, byte counters, condition `work` | `wadb_append_batch`, `writer_main`, `commit_group`, `wadb_writer_stop` | lost wake-ups, group splits, a clock that steps back, shutdown |
| Database, catalog | `core/database.c`, `storage/metadata.c` | catalog, table directories, `LOCK` | `wadb_open`, `wadb_create_table`, `wadb_close` | interrupted creates, orphan directories |
| Cursors | `query/cursor.c` | cursor table, busy flags | open, next, close, expiry | a busy cursor against expiry and close |
| Dictionary cache | `query/cache.c` | entries, byte budget | get, put, clear | two readers missing the same entry |
| Dictionary, index, integrity | `storage/dictionary.c`, `index.c`, `integrity.c` | symbols, derived indexes | prepare/publish, rebuild/repair | symbols of an abandoned group |
| Plans, scans, queries | `query/plan.c`, `scan.c`, `query.c` | none shared | pruning, scanning, aggregation | bounds of time ranges |
| Rows | `core/schema.c`, `encoding.c`, `server/json.c` | none | layout, encoding, decoding, JSON values, filters | widths, signs, nulls, bytes nobody wrote |
| Requests | `server/server.c`, `api.c` | connections, queue, two byte budgets | upload, admission, workers, start, stop | who owns a suspended request; room for the reply of a commit |
| Streams | `server/server.c`, `core/stats.c` | the feed's ring, the ring of notifications | tick, stream callback, open, close | slow clients, gaps, suspended connections |
| Jobs | `server/jobs.c` | job slots | start, stop, generate, check | slot reuse, joins under the mutex |

Two locks order everything: `writer_mutex` (outer) is held by whoever changes a
table, for a whole append group, retention call or cleanup; `mutex` (inner)
protects the queue and what readers see. Clients queue append requests, the
writer thread commits them in groups, recovery and retention run on the thread
that calls them.

## Modules

`SegmentStore` models one table's storage. The holder of `writer_mutex` is the
variables `pc`, `job`, `frame`, `staged` and `pos`; every system call and every
use of `mutex` is an action of its own, so that readers, failures and the death
of the process come between any two of them.

| Action | Code |
|---|---|
| `AppendBegin` | `wadb_commit_requests` up to the choice of the segment |
| `RotateFails`, `CreateFile`, `IdsExhausted` | `create_active` up to the new file |
| `Rename`, `InstallFails`, `SyncDirectory`, `SyncDirectoryFails` | `wadb_save_manifest`/`wadb_atomic_file` for rotation, configuration and retention |
| `ReserveFails`, `WritePart`, `WriteRest`, `WriteFails`, `SyncFrame`, `Publish` | the frame: write, `fdatasync`, publication and receipts |
| `SetRetention`, `RetentionApply` | the retention calls up to installation |
| `CleanupBegin`, `CleanupCheck`, `Unlink`, `CleanupEnd`, `CleanupFails` | `cleanup` |
| `Acquire`, `ReleaseSnapshot` | the snapshot calls, for a range that covers the table |
| `IntegrityCheck` (an operator) | `wadb_integrity_check` on the segments of a held snapshot |
| `Crash`, `Open`, `OpenInterrupted`, `OpenCorrupt` | death or close; `wadb_load_manifest` and `wadb_storage_recover` |

The disk is what the kernel holds (`files`, `manifest`), which survives the
death of a process; what is known to be on the device is kept beside it
(`synced` in each file, `installed`). A frame is its sequence range, its times
and a tag; sizes count frames. The index is derived data: saving it may fail,
and recovery may or may not find it usable.

`DurableLog` is the abstract specification: a set of groups that grows at its
end, loses only a prefix to retention, and contains everything acknowledged.
`SegmentStore` is shown to implement it with the frames of the live segments
as the log and `preserved_sequence` as its low end.

`AppendQueue` models `writer.c`: each request is one call of
`wadb_append_batch`, `queue` the linked list, `work` the groups that the
recursion of `commit_group` has still to commit. The commit is one step with the
outcomes that `SegmentStore` shows in detail. Two of them are uncertain:
`CommitUncertain` leaves the table read-only and its requests `doubtful`, their
frame may be on the disk; `RotationUncertain`, from saving the old tail's index,
has written nothing of the group and leaves the table writable (finding 6), so
that later requests may be acknowledged. The invariant `GroupsCommittable`
is exactly what `SegmentStore!AppendBegin` assumes of a group (clamped,
non-decreasing times within a day). A signal that finds the writer awake is
lost, a sleeping writer may wake for no reason.

`Catalog` models the directory of the database as several processes use it:
`wadb_open`, `wadb_create_table` and exit, a step per system call. It is the only
module with two views of the disk, the one the kernel shows and the one that a
failure of the machine leaves; the latter keeps every synchronized entry and any
part of the others (`Remains`). A table directory records which of its two files
are visible and which are durable.

`Cursors` models `cursor.c` with the snapshot budget of `snapshot.c`: each thread
makes one call after another (a query, open, next, close, or the server's tick),
and a step is the code between two uses of the mutex. A cursor that was found is
held across two critical sections only by its `busy` flag. A snapshot's rows are
the sequence numbers up to the one it saw.

`Jobs` models `jobs.c`: the array of slots, callers that start and stop jobs, the
thread of each slot in the steps of `run`, `generate` and the integrity check,
and close. `JoinOld` is `pthread_join` with the mutex held.

`DictCache` models `cache.c`: entries in the order of use, each with its charge
and references; a miss reserves and releases the mutex, and the load ends in
`Loaded` or `LoadFails`. A load that repairs a damaged index changes the key.

`RowCodec` follows a value from a request to the answer of a query: the JSON value
is parsed for its field's type, range-checked and encoded into the row, the row is
stored, possibly damaged, validated, decoded, matched with a filter and written as
JSON again. Bytes have `ByteBits` bits and words `WordBytes` bytes, so that every
width, sign and rounding boundary is within reach; a float keeps the integers up
to a bound and rounds the others.

`Requests` models the request path of `server.c`. A connection goes through upload
(`ReserveBody` grows its buffer out of the upload budget), refusal, an answer on
the HTTP thread, or admission: its reply is charged to the response budget at
the limit of its route *before* it is queued, and the connection is suspended
until a worker resumes it. The library is external: it calls back for a connection
that is not suspended, and its `MHD_stop_daemon` waits for all of them.

`Streams` models the live feed: commits write a ring of notifications
(`wadb_read_notifications`), the ticker publishes pages of them and statistics
into the feed's ring, and the library calls `stream_read` for each connection,
which copies a message in parts, sends a reset when the ring has overtaken it, or
suspends. Clients connect from the cursor of `/stats`, follow, reconnect after a
reset as `web/app.js` does, and vanish; sessions end; allocations of `publish` fail.

`Dictionary` models `dictionary.c` as `wadb_commit_requests` drives it: growth of
three arrays, any allocation failing, linear probing, rollback, export into the
frame, replacement by a fresh dictionary, replay.

`Scan` models the three binary searches (segments of the snapshot, segments of
the page, frames) and the scan and page loops around them. `Grouping` models an
aggregation from its plan to its result: the buckets or the single group made
beforehand, the hash table of groups, the reduction of rows, the memory charge
and the merge sort; it takes the arithmetic of time buckets, with truncating
division in a bounded range, from `Buckets`. Both check an algorithm against a
reference definition (`Reference`; `RowsCovered`, `Keys`, `ValuesOf`) over all
inputs within the bounds.

The modules meet where one component assumes something of another. `Cursors` and
`Scan` take from `SegmentStore` that a pinned segment stays readable;
`Dictionary` takes rotation and recovery from it; `Catalog` ends where the store
of a table begins; `Jobs` uses an append as `AppendQueue` promises it, with any
answer.

`SegmentStoreTypes` and the six `...Proofs` modules hold the theorems, the `MC`
modules the constants for TLC. `MCTables` and `MCQuery` put three modules side by
side that share no state: one moves while the others rest, which loses no behaviour
of any of them that an invariant or an action property could tell.

## Runs

| Run | States | What it shows |
|---|---|---|
| `StoreCrash` | 1.6 M | all storage safety properties, with failures and deaths anywhere |
| `StoreReaders` | 0.3 M | snapshots against rotation, retirement and deletion; retired files are eventually deleted; IDs run out |
| `AppendQueue` | 1.3 M | budget and backpressure, order and tiling of receipts, group formation, both kinds of uncertain outcome; every queued append is answered, stop joins the writer |
| `Tables` | 0.1 M | catalog: creation against deaths, machine failures, a second owner, uncertain endings; dictionary: memory accounting, probing after rollbacks, replay; cache: concurrent misses, eviction, reservations, held entries |
| `CursorBudget` | 0.7 M | the snapshot budget, busy cursors against expiry and close, pages that tile; every cursor is reclaimed |
| `JobSlots` | 0.1 M | slot reuse, limits, joins, what a job reports; starts return, jobs end, close returns |
| `Query` | 0.8 M | pruning and paging return exactly the rows asked for; buckets, groups, aggregates, memory and order agree with a reference; a value is stored, filtered and returned exactly or refused; damaged rows are refused or canonical |
| `Requests` | 0.3 M | the byte budgets balance, one owner per request, a reply of the database always has room; admitted requests are answered, stop returns, also after a failed start |
| `Streams` | 0.1 M | no client misses a commit without being told; streams catch up, end with their session and at stop; every commit is published |
| `StoreRestartOpens` | - | finding 1 below |
| `StoreAckedDurable` | - | finding 2 |
| `StreamsKept` | - | finding 3 |

Every module with state has a type invariant (`TypeOK`, `CatalogTypeOK`...).
Those of `SegmentStore` and `Requests` are proved; the others hold under the same configurations when they
are added, and the runs leave them out in favour of the bounds that matter (the
budgets in `BytesBalance`, `AllocatedExact` and `PagesExact`, the sums in
`AggregatesExact`).

Bounds. Two days of two time units each are the least in which an append can
rotate by day and stay within one; `MaxNow` lets retention expire all of them.
Three attempts suffice for an append that fails after its rotation, one that
rotates again and one that is acknowledged after both; a segment target of two
frames lets a segment hold more than one. `StoreReaders` has four appends and
three segment IDs, so that IDs run out; two readers suffice for one to release
while another holds. The queue has five requests of one to three rows for two
tables, of which a behaviour makes those of one of three sets (`MCTogether`): in
one a third request does not fit into a group (`MaxGroup`), in one two requests do
not fit into a frame, in one a request alone reaches the batch target and the last
is refused with `WADB_BACKPRESSURE`. Groups are also cut by the day, by the table
and by a split, and sequences run out. The clock
of `AppendQueue` fails, steps back and crosses midnight.

In `Tables`, the catalog has two processes, two names and four IDs, of which two
can be lost to interrupted creations, and four attempts let a creation follow an
uncertain one; the dictionary has six symbols whose hashes collide within and
across fields, and a budget that three or four of them use up; the cache has three
readers and room for two loads, so that the third is refused or evicts.
`CursorBudget` has two clients, the tick thread and room for fewer snapshots than
they ask for; `JobSlots` two callers, two slots, one running job and IDs that run
out. `Query` covers every layout of four rows in frames and segments with three
times; every sequence of four rows over three keys and null, and every interval,
width and origin of buckets in the integers from -5 to 4; rows of two fields, one
of any type, in bytes of two bits, with inputs on both sides of every bound.
`Requests` has two connections, two workers, a queue for one and budgets for less
than two of everything; `Streams` rings of two entries, three commits and pages of
one, so that both rings wrap and a backlog takes several ticks; one client
suffices since streams share only the ring they read, and the proof covers any
number. First
sizes of arrays (16, 32, 8 in the code) are constants and small, so that growth
happens. The runs that check liveness use no symmetry.

`CHECK_DEADLOCK FALSE` stands where the system really stops: in the queue, job,
cursor, request and stream runs when every call has returned and threads are
joined (or the bound on time or IDs is reached), in `Query` when the result is
there.

Fairness. `StoreReaders` assumes that a thread that runs is scheduled (weak
fairness of the holder of `writer_mutex`), that readers release their snapshots,
and that a thread waiting for `writer_mutex` gets it if it is released again and
again (strong fairness). The last two are what the callers and the scheduler
have to provide: snapshots that overlap for ever would postpone deletion for
ever, and the bound on snapshots excludes that. `AppendQueue` assumes weak
fairness of the writer thread's steps and of the callers' taken together (each call
has finitely many), and nothing of spurious wake-ups. `JobSlots` assumes weak fairness of each caller, each
thread, the clock and the closing thread, and nothing of the outcome of an
append: a generator that is always refused ends by its duration.
`CursorBudget` assumes weak fairness of the threads, of the clock and of the
tick, which the server calls from a thread of its own; clients may stop at any
point between calls. `Requests` and `Streams` assume weak fairness of the server's
own threads and of the library's callbacks for connections that are not suspended.
For a stream that means a client that reads: the library calls back when there is
room to send, and closes a connection that takes nothing for 15 seconds. Nothing
else is assumed of clients, which may vanish at any time.

## Findings

1. **A database that no longer opens** (`StoreRestartOpens`). An append that
   fails after `create_active` leaves an empty active segment; a rotation seals
   it; retention of a later segment moves the preserved watermark past it;
   `recover_segment` then finds `first_sequence` wrong. `StoreCrash` shows, as
   `CorruptOnlyWhenStranded`, that this is the only way.

2. **Rows acknowledged before the manifest that names their segment is durable**
   (`StoreAckedDurable`; `docs/storage-format.md:61`). After a death between
   rename and directory synchronization, recovery does not synchronize the table's
   directory again, as `wadb_open` does the root's, and nothing else does before
   rows of the new segment are acknowledged; the next rotation does
   (`create_active`). It matters only if the machine fails in between.

3. **A healthy stream closed as stalled** (`StreamsKept`; `docs/http-api.md:177`).
   The ticker subtracts `last_progress` from a clock it read earlier, unsigned: a
   stream that moved or was opened in between is closed. Clients reconnect, and
   `StreamCatchesUp` holds with these closings included.

`SegmentStore` also states three properties that the documents promise and the
code does not keep. Each is violated under the constants of
`StoreRestartOpens.cfg` when it takes the place of `RestartOpens` there.

4. **Frames sealed without synchronization** (`SealedTailSynced`): those that
   recovery accepts from a process that died before `fdatasync`.
   `docs/architecture.md:184` says "Synchronize the old tail".
5. **Files deleted before the tombstones are durable** (`DeletedAfterDurable`;
   `docs/architecture.md:286`), for the reason of finding 2.
6. **`WADB_INDETERMINATE` without `read_only`** (`UncertainNeedsRecovery`, an action
   property; `wadb.h:146`), when it comes from saving an index. The disk is then
   as the table says, which is why `UncertainStopsMutation` holds all the same.

## Proofs

The theorems hold for every value of the constants, from the assumptions of the
module they are about: in the store `SizesAssumption` and `ModeAssumption`, in
`Requests`, `Streams`, `Jobs` and `Cursors` that limits are natural numbers, most of them not
zero, in `Jobs` and `Catalog` that `None` is neither a process nor a catalog.

The store, for every set of readers:

- `TypeCorrect` (`TypeOK`). Not inductive: `Publish` needs a last segment,
  `Unlink` a position within the array. `TypeInv` adds `Positions`, which ties
  `pc` to what the step in progress relies on. Lemmas give the type of every
  table the protocol builds (`RotatedType`, `RetiredType`, `RecoveredType`...).
- `OneTailAlways` (`OneTail`), inductive given `TypeInv`: sealing, retiring and
  scanning each keep the active segment last.
- `UncertainStops` (`UncertainStopsMutation`). The property has two halves. Between
  mutations a writable table is as the disk has it (`Settled`), from `Known`: the
  manifest has the records of the table, or of the staged table once it is renamed
  (`Records`), the tail's file has the frames the table counts, and one more, whole
  or torn, only between the write and its publication (`TailFile`), whenever the
  table is not `read_only`; so whoever leaves the disk ahead of the table has to set
  `read_only`. While it is set nothing is written or installed, from `Halted`: a
  `read_only` table has nobody in the middle of a write or an installation.
- `RejectedStaysOut` (`RejectedNeverStored`), from `TagInv`: tags of stored
  frames are never above `attempts`, the tag in progress is not yet rejected, and
  it is stored only from the step `sync` on, after which no definite failure
  can follow.

The server, for every set of connections and workers (`RequestsProofs`):

- `OwnedAlways` (`SuspendedOwned`), `BudgetsAlwaysKept` and `AnswerAlwaysHasRoom`
  (`AnswerHasRoom`), from one invariant: types; `JobsHeld`, which ties each worker's
  step to the request it holds; `SuspendedOwned`; `ChargesFit`, a reply's charge
  covers the limit it was admitted for; and `BudgetsKept`. Ownership is what makes
  the charges stable: nobody else changes a request between its admission and the
  worker's refund. That the budgets are the *sums* of the charges needs induction
  over sets and is checked by `BudgetsBalance`.

The feed, for every set of clients and every size of rings and pages
(`StreamsProofs`):

- `StreamAlwaysComplete` (`StreamComplete`). The invariant follows a commit along
  its way: the notification ring holds the newest commits; what the feed says up
  to an entry covers all commits up to that entry's (`FeedFollows`); the page the
  ticker holds continues the feed (`PageFollows`); a stream knows what its cursor
  covers or was told of a gap (`StreamFollows`).

The catalog, for every set of processes and names (`CatalogProofs`):

- `NeverEverCorrupt` (`NeverCorrupt`), `OfferedAlwaysDurable` (`OfferedDurable`) and
  `NothingEverOverwritten` (`NothingOverwritten`), from one invariant. `Owned`: a
  process that is not closed has the lock, so all others have no memory. `Disk`:
  whatever either view of the catalog lists is complete, durable and has a name of
  its own; there is no directory before there is a durable catalog. `MemoryHolds`:
  what each step of an open or a create has achieved so far, and that a database
  which may be written knows exactly what the durable catalog lists; this is what a
  creation of unknown outcome would break if the database stayed writable.

The jobs, for every set of callers (`JobsProofs`):

- `RecordAlwaysOutlives` (`RecordOutlivesThread`) and `ReportsAlwaysTrue`
  (`ReportsTrue`). The invariant adds who holds the mutex (`CallsHold`), that IDs are
  never used twice, also when they run out (`IdsDiffer`), that a live thread's slot
  is its own, to be joined, and in use until the thread has recorded its end
  (`ThreadsRecorded`), and that a slot's count lacks at most the batch being recorded
  (`SlotsReport`). `JoinOld` then clears no slot of a live thread: such a slot would
  be joinable, and its thread has exited.

The cursors, for every set of threads (`CursorsProofs`):

- `PagesAlwaysTile` (`PagesTile`). A cursor that nobody reads from continues where
  its pages end, IDs are never used twice, and an ID not given out has no pages
  (`Listed`); a call that reads from a cursor knows where its pages end, and the
  listed cursor is busy (`Reads`) and no other call's (`Alone`); nobody reads from a
  cursor that has reported its end (`Ended`). Expiry and close leave busy cursors
  alone, so they are steps that no page depends on (`RestKeeps`). The budget is not
  part of the argument, and its counters are not typed by it.

Only model-checked: liveness (`RetirementCompletes`, `QueueDrains`,
`EverythingEnds`, `CursorsReclaimed`, `AdmittedAnswered`, `ShutdownReturns`,
`StreamCatchesUp`, `RevokedCloses`, `CommitsReported`, `StreamsStop`), which is
outside what the prover handles; sums over sets (`BudgetsBalance` and the other
budgets), which need induction over data; the refinement of `DurableLog`; the other
invariants of the store and all of the queue and the dictionary; and the modules
with recursive operators (`DictCache`, `Scan`, `Grouping`), about which the prover
cannot reason.

## Not modelled

- Checksums, the layouts of frames, segments, indexes and metadata, names and
  fingerprints: sequential conversions. Rows and values are in `RowCodec`.
- The validation of query options, the cells of results, routing of requests.
- Of the aggregates, sums of unsigned and floating-point fields, and AVG; COUNT,
  COUNT_ALL, MIN, MAX and signed SUM are in `Grouping`.
- What a scan that meets a damaged frame does to later calls: it sets `read_only` of
  the table (`Scan` ends as "corrupt"), and files are not damaged in `SegmentStore`.
- The latency histogram and the counters of `core/stats.c`, which never act on the
  system.
- Token files, password hashing, cookies: input and comparison. `Streams` has the
  end of a session.
- Corruption of files by anything other than a torn write, except a damaged index
  as `Scan` and `DictCache` meet it and a damaged byte of a row in `RowCodec`.
- Loss of unsynchronized data by a failure of the machine in `SegmentStore`; its
  findings state what such a failure would meet. `Catalog` models it.
- What libmicrohttpd does with bytes on a connection; its calls are modelled as
  the server uses them.
- Machine-wide limits (memory, descriptors) other than as failing calls.
- Two appends racing `wadb_close`: `wadb.h` excludes it.

## Plan

1. Proofs for the store: `AckedDurable` and `PinnedReadable` (they need the
   agreement of files, manifest and table as an invariant) and the refinement of
   `DurableLog`.
2. Proofs for `AppendQueue` (order of receipts).
3. The index file and its rebuilding in detail; the latency histogram of
   `core/stats.c` against its documented percentiles.
