# SyncLite logger: formal models

SyncLite captures every committed statement of a local SQLite or DuckDB database
into *command-log segments* (`<N>.sqllog`), moves finished segments to a stage
directory, ships them to archivers (file system, S3, SFTP), and, when one is
embedded, lets a consolidator apply them to destination databases. These modules
specify that pipeline from the statement of an application to the row at the
destination, TLC checks them on small instances, and TLAPS proves the central
results for every value of the constants.

Paths below are relative to `src/`.

## 1. Inventory

| Component | Code | State | Operations | What is hard about it | What makes it correct |
|---|---|---|---|---|---|
| Command log | `crates/logger/log` | numbered segment files with status NEW / READY_TO_APPLY, rows `(change_number, commit_id, sql)`, a write batch | create, append, flush, finalize, resolve the active segment, claim a slot | files that exist half; finalize in two steps; batches that become durable inside a transaction | a finalized segment is whole and frozen, numbers are not reused |
| SQLITE device | `crates/logger/db-sqlite` | user database with the one-row table `synclite_txn`, open segment, next commit id, next change number, queue of pending rows | open with recovery, execute, execute_unlogged, commit, rollback, flush_log, roll_segment, close | two databases that commit one after the other, a crash between any two steps, a commit that fails | the log covers the database; the fate in the log is that of the database; recovery always succeeds; commit ids grow |
| DUCKDB device | `crates/logger/db-duckdb` | as above, with the rows of a transaction staged and spilled to a sidecar `<N>.sqllog.<commit>.txn` | the same | two log representations of a transaction, sidecar published before the commit | as above, and sidecar and segment agree |
| Segment mover | `crates/synclite/src/logger/mover.rs` | none | copy sidecars and segment to stage, remove the sources, submit | every step may fail, nothing is reported back | nothing lost, order kept |
| Shipper, cleaner | `crates/logger/shipper`, `build_shipper` | `latest_seq`, `shipped_seq`, a channel | observe, tick, ship with retry to all archivers, on_shipped, shut down | periodic scan against the mover, nothing persisted | every segment to every archiver, in order, before it is consumed or removed |
| Archivers | `crates/logger/archiver` | target directory or bucket | ship one file | failure | all or nothing per file |
| Consolidator worker | `crates/consolidator/runtime` | queue of notifications, work directory, cleanup progress, replica | notify, catch up, discover, mirror, replay, apply, checkpoint, clean up, pause, shut down | notifications are hints; several destinations; restart in the middle of a segment | snapshot first, then each committed transaction, in order, repeated only after a fault; nothing cleaned before all destinations have it |
| Data path | `crates/consolidator/runtime`, `crates/consolidator/core` | replica, change log (CDC log), mapping rules, batches | replay with a pre-update hook, write and read the change log, filter and map, rewrite for consolidation, apply on SQLite, DuckDB, PostgreSQL | DDL and rows reach the log in different orders; texts left out; keys, NULLs and missing columns; batches and repeats | the destination is the committed source under the mapping; other devices' rows stay |
| Snapshot and bootstrap | `crates/consolidator/runtime/src/snapshot.rs`, `crates/synclite/src/logger/backup.rs` | first backup, marker, table metadata, completion property | take, stage, copy, record, publish | four durable places written one after the other, repeated after any failure; a copy that a death cut short keeps its name | every row of the copy once, nothing published before it is there |
| Pause, reinitialize | `crates/synclite/src/pause.rs`, `reinitialize.rs` | sentinels, the files of a device | pause, resume, reinitialize | steps on files with a worker, or a death, between them | as if seeded once |
| Destination state | `crates/consolidator/state` | checkpoint tables, counters | read and advance | data, destination's checkpoint and local checkpoint are written one after the other; the state database may be in a temporary directory; counters in no transaction, and written before the mark that keeps a segment from being processed again | a checkpoint is never ahead of the data, and catches up with it; a counter that fails never makes data be sent again, and only faults make one too high |
| Front end | `crates/synclite` | lock, device metadata, commit tracker, registry of workers | initialize, open_with, close, await_sync, await_applied_commit, sync_statistics | several threads, an open that fails in the middle, settings read at different times | an Ok is true; a failed open undoes its own work only; every wait ends |
| Java binding | `crates/logger/bindings-java` | handles, set of destinations of each database | spawn, register, publish, stop, wait | handles stopped after a later open | the set published is the last one |
| Async runtime | `crates/logger/runtime` | bounded channel, logger owned by a thread | send and wait | none: one request at a time | behaves as direct calls |
| Other bindings, observability, config, SQL policy | `crates/logger/bindings-*`, `crates/observability`, ... | none of interest | conversion, tracing, parsing | - | - |

Interactions: the device calls `on_segment_ready` synchronously (the mover) and
`on_active_segment_changed` (which persists the sequence number). The mover sends
paths to the shipper's channel. The shipper's worker calls `on_shipped`, which
either deletes the staged file or notifies the embedded consolidator. The
consolidator has a thread for each destination, which outlives the open that started
it, and deletes work and stage files when every destination has applied them. Stage
and work directories are shared by all of them without a lock. The functions that
wait or report read the device's metadata, the commit tracker and the checkpoints of
the destinations one after the other.

Hazards, each with its line, the properties meant to catch it and, where a property
only holds under a condition, that condition, are listed in `PROJECT.json`.

## 2. Plan

| | Modules | Status |
|---|---|---|
| 1 | `CommandLog`, `LogSegments`, `SqliteDevice`, `CommitStream`: the device and what it promises | done; its type, all of its safety properties and the refinement proved |
| 2 | `Shipping`: mover, shipper, archivers, embedded consolidator as one system | done, its safety proved for a steady environment |
| 3 | `DuckDbDevice`: the second device over the same segment rules | done; its type, all of its safety properties and the refinement proved |
| 4 | `Consolidator`: notifications, destinations, checkpoints, cleanup, restart | done; its type and all of its safety properties proved |
| 5 | `SqlData`, `CdcLog`, `Mapping`, `DestinationApply`, `Changes`: what becomes of a statement | done |
| 6 | `DestinationStore`, `DeviceLifecycle`: backup, bootstrap, pause, reinitialize | done; its type and all of its safety properties proved |
| 7 | `Settings`, `WorkerRegistry`, `DeviceOpen`, `DestinationRegistry`, `AwaitSync`: opening and waiting | done; its type and all of its safety properties proved |
| 8 | `Statistics` | done, `NeverReplayed` and `StatusIsTrue` proved |
| 9 | The non-transactional device types (STORE, APPENDER, STREAMING) as devices of their own; UpdateRuntime; the trigger files of a reinitialize | open |
| 10 | Proofs about the data path (`Changes`) | open |

How the modules depend on each other:

    CommandLog <- LogSegments <- SqliteDevice  --implements--> CommitStream
                              <- DuckDbDevice  --implements--> CommitStream
    Shipping, Consolidator                     (each starts where the one before ends)
    SqlData <- Mapping <- DestinationApply <- Changes <- MCChanges
            <- CdcLog  <---------------------/
    InitMode <- Mapping,  InitMode <- DestinationStore <- DeviceLifecycle <- MCLifecycle
    Settings <- WorkerRegistry <- DeviceOpen <- DestinationRegistry <- AwaitSync <- MCAwait
    Statistics <- MCStatistics

A segment of `Shipping` is a finalized one of a device, a segment of `Consolidator`
one that was shipped, and the entries `Changes` applies are those of a segment that
`Consolidator` has decided to apply. `DeviceLifecycle` takes a segment as one row and
looks at what is before and around the segments; `WorkerRegistry` takes a worker as a
checkpoint that moves.

## 3. Modules

An `MC` module gives the *layouts* of a specification: records that say which kind of
device, destination and use a behaviour is about. `Init` picks one, so that one run
covers combinations that would otherwise need a configuration each.

### CommandLog
The rows of a segment and what is read off them: last commit id, next change
number, the fate of a commit id (`segment_last_txn_state`,
`last_commit_fate_decided`, `retain_committed_entries`). A statement is its kind;
its SQL text is left out, because nothing here looks at it.

### LogSegments
What both devices share: the segment writer with its batch (`AppendRow`, `Flush`),
slot claiming and creation of a file in two steps, the resolution of the active
segment after a restart, and the way commit ids are drawn from the clock
(`next_monotonic_commit_id`).

### SqliteDevice
The transactional SQLITE device. `home`, `stage`, `persisted` and `db` survive a
crash, everything else is the memory of the process. Each call is a sequence of
steps named by `pc`; between two steps is where a crash can fall. A step ends where
the code has made something durable or is about to. `Crash` is enabled in every
step.

| Code | Actions |
|---|---|
| `SqliteDevice::open`, `resolve_active_segment`, `claim_segment_slot`, `LogSegmentWriter::create*` | `OpenDevice`, `CreateFile`, `CreateSchema`, `OpenFlush`, `OpenPersist` |
| `resolve_in_doubt_txn_on_open` | `RecoverInDoubtTxn` |
| `execute_with_result`, `execute_unlogged`, `flush_log` | `Execute`, `ExecuteUnlogged`, `FlushLog`, `Drain`, `FlushLogDone` |
| `commit` | `CommitStart`, `Drain`, `CommitFlush`, `CommitDb` or `CommitDbFails`, `CommitRow`, `CommitDone` |
| `rollback` | `RollbackStart`, `Drain`, `RollbackDb`, `RollbackRow`, `RollbackDone` |
| `roll_segment`, `roll_idle_segment_if_needed`, `maybe_auto_switch_segment` | `RollRequested`, `RollRefused`, `RollClaim`, `FinalizeRows`, `MarkReady`, `CreateFile`, `CreateSchema`, `RollPersist` |
| `close` | `CloseStart`, `CloseShips`, `CloseKeeps`, `FinalizeRows`, `MarkReady` |
| the mover callback | `MoverCopies`, `MoverCopyFails`, `MoverRemoves`, `Delivered` |

Abstractions: the user database is the set of commits and of statement effects it
holds; which statement fails in it is free. The age and size thresholds for
switching a segment are a free choice at each commit.
`ClockMayLag`, `MoverMayFail` and `PersistMayFail` switch the environment's faults.

### CommitStream
What a reader who takes the staged segments by number is promised: a growing prefix
of the transactions the user database committed. Both devices refine it with
`committed` the commits of the database and `published` the commit ids that replay
would keep of the staged segments up to the first number that is missing.

### DuckDbDevice
The transactional DUCKDB device. It differs from the SQLITE one in where the
statements of a transaction are: pending, spilled to a stage file (`spilled`), and
from commit on in a sidecar next to the segment (`homeTxn`), which the mover copies
first and removes first. The segment itself has BEGIN, REPLAY_TXN and the fate.

| Code | Actions |
|---|---|
| `open`, `resolve_in_doubt_txn_on_open` | `OpenDevice`, `CreateFile`, `CreateSchema`, `RecoverInDoubtTxn`, `DiscardInDoubtTxn`, `OpenPersist` |
| `execute_with_result`, `execute_unlogged`, `flush_log` | `BeginRow`, `Statement`, `Execute`, `ExecuteUnlogged`, `FlushLog` |
| `commit` | `CommitStart`, `CommitFlush`, `CommitPublish`, `CommitDb` or `CommitDbFails`, `CommitRow`, `CommitDone` |
| `rollback` | `RollbackStart`, `RollbackRow`, `RollbackDone` |
| `roll_segment`, the idle ticker, `close` | `RollRequested`, `RollRefused`, `RollClaim`, `CloseStart`, `CloseShips`, `CloseKeeps`, `FinalizeRows`, `MarkReady`, `RollPersist` |
| the mover callback | `MoverCopies`, `MoverCopyFails`, `MoverRemoves`, `Delivered` |

`Usage` says which of three things an application does for which the device is not
prepared: `Logger::flush` inside a transaction, committing a transaction without a
logged statement, closing inside a transaction. After a COMMIT that failed the
application may only close or end; that close counts as the third. The model
contains all of it, the passing run has none.

### Shipping, MCShipping
The logger's thread with the mover in single file operations, the shipper's worker
step by step (`RecvObserve`, `RecvTimeout`, `RecvShutdown`, `ScanStage`,
`NextSegment`, `ArchiverAccepts`, `ArchiverRejects`, `OnShipped`), the archivers,
and the embedded consolidator reduced to discovery, mirroring, application and
cleanup (`Consolidate`). `env`, picked in `Init`, says whether a consolidator is
embedded and what goes wrong: `torn` makes a copy visible before it is whole,
`failing` lets a copy fail, `early` lets the worker's periodic tick come before
segment 0 was ever staged, `deaf` archivers never accept.

**What the run `shipping` assumes.** With the shipped defaults a tick every second
makes `early` the ordinary case, and `fs::copy` is never atomic. The run shows that
these are all that stands between the code and its promise; `shipping_seg0` shows
what the first one does. With the second, a scan in the middle of a copy ships a torn
file, and with a copy that fails a segment is passed over.

A sidecar is shipped ahead of its segment and removed from stage at once, also
when an embedded consolidator is to read it. In the model, as in the code, such a
segment then waits in the consolidator for ever; the properties are about what is
consumed and archived, and make no promise about it.

### Consolidator, MCConsolidator
One worker for each destination. `mem` is a worker's memory with its channel
(`inbox`), its backlog (`pending`) and its published progress; `disk` its work
directory and state database, `db` the destination: the log of what was applied,
and its checkpoint. `layout` says whether the device is a SQL one or a STORE, whether
the checkpoint that counts is the local or the destination's (`metadata_store`),
whether the worker knows the stage directory or lives on notifications (`stage_dir`;
the embedded front end configures the latter), and how much goes wrong.

| Code | Actions |
|---|---|
| `on_shipped`, `notify_stage_path` | `ShipSegment`, `Notify` |
| `spawn_or_reuse`, `notify_bootstrap_ready`, the shipper's catch-up | `Open` |
| `pause_sync`, `resume_sync`, `shutdown` | `PauseSync`, `ResumeSync`, `Shutdown` |
| `worker_loop` | `Receive`, `Tick`, `LastFlush`, `BootSnapshot`, `BootLocal` |
| `flush_pending_stage_paths`, `discover_pending_stage_paths`, `drain_ordered_stage_paths` | `Flushed`, `Discovered`, `Completed`, `StepFails` |
| `process_stage_path_ready` | `ProcessHead`, then the actions below |
| `run_device_replicator`, `replay_entries` | `ReplayTxn`, `ReplayEnds` |
| `apply_staged_segment_with_retry`, `apply_to_*_destination`, `map_destination_checkpoint`, `map_local_checkpoint` | `Apply`, `Checkpoint`, `CheckpointFails`, `LocalCheckpoint` |
| `mark_segment_applied_best_effort` | `Mark` |
| `cleanup_processed_sqllog`, `compute_min_applied_target`, `cleanup_work_artifacts_up_to`, `cleanup_stage_artifacts_up_to` | `Authorize`, `CleanWork`, `CleanStage` |

Abstractions. The contents of a segment are the numbers of its transactions; a
transaction's rows and its marker are one, which keeps the rule that of the last
transaction sent only the marker passes the resume filter again. A hint that waits
in the channel is not put there twice. Every finalized segment has all its fates
(`ReadyIsWhole`, `StagedIsWhole`), so `last_txn_fate_decided` never defers. A
device lock held by another worker is a failing step (`StepFails`). The STORE
applies every logged statement, also those of a transaction that was rolled back at
the source, as `apply_staged_segment_once` has no `retain_committed_entries`.
`cleanup_stage_files` is on and `dst_skip_failed_log_files` off.

`MarkMayFail`, `PausePushOnly` and `ReplayMayStop` switch on what the properties do
not survive; only `ReplayMayStop` has a run of its own, the other two are described
with the hazards in `PROJECT.json`.

### SqlData
The SQL engines, SQLite, DuckDB and PostgreSQL, as far as the code uses them: tables
of rows, the eight statements that reach one, and when a statement fails. They are
not in this repository, so the module is marked external in the map.

### CdcLog
The way of a statement of a SQL device into the change log. `ReplayTxn` runs a
committed transaction on the replica; `Callback` is what the pre-update hook builds
from the old and new images of a row; `EmitDdl` writes a DDL record with the columns
the table has then. `Written` is the writer, which leaves out a text that is that
of the record before (`NoText`), and `ReadCdcLog` the reader, which fills it in again.
Row changes reach the writer inside the replica's COMMIT, DDL records while the
statement runs; the model keeps that order.

### InitMode, Mapping
The modes in which a destination table is created and emptied (`InitMode`).
`MapOperation`: from an entry of a segment to the statements for the destination.
`FilterAndMapValues` drops and renames tables, columns and values;
`ConsolidationDdl`, `RewriteInsert`, `RewriteUpdate`, `RewriteDelete` give each row
its device; `ReplicationDdl` follows the init mode. The code rewrites text, the model
the parts of a statement, with the cases in which the code cannot parse one and passes
it on as it is.

### DestinationApply
One segment, one transaction of the destination. `ApplyInOrder` is the SQLite and
DuckDB engine, which executes one statement after the other (and tolerates the
errors it takes to be benign), `ApplyBatched` the PostgreSQL one with its queue,
savepoint and fallback. `ReadCommandLog` gives the entries of a STORE device, with the
columns a DDL command needs from a copy of the schema that follows the commands.
`RewriteIdempotent` is the idempotent ingestion in its three methods.

### Changes, MCChanges
An application executes statements in transactions (`DoInsert`, `DoUpdate`, `DoDelete`,
`DoCreate`, `DoDrop`, `DoRename`, `DoAdd`, `DoShrink`, `Commit`, `Rollback`), then the
worker consumes the segment (`Consume`: replay, read, map, apply, advance), perhaps
again after a checkpoint that was lost (`Reapply`), or after its process was started
anew (`Restart`, which takes the schema back to that of the first backup). The sixteen
layouts are the combinations of SQL or STORE device, replication or consolidation,
engine, mapping rules and idempotent method that take different paths in the code.

### DestinationStore, DeviceLifecycle, MCLifecycle
`DestinationStore` is what a destination keeps of one device, `DeviceLifecycle` the
device and its worker around it.

| Code | Actions |
|---|---|
| `initialize`, `Connection::open`, `Connection::close` | `Initialize`, `Connect`, `Close`; `Commit` writes a row and ships it as a segment |
| `backup.rs` | `TakeBackup`, `StageBackup` |
| `worker_loop`, `spawn_or_reuse` | `WorkerStarts`, `ReceiveUpdate`, `ReceiveBoot`, `ReceiveShutdown`, `Tick`, `Leave`, `WorkerExits` |
| the bootstrap: replica, table metadata, `apply_initial_snapshot`, completion property, own flag | `Mirror`, `MarkInitializing`, `Seed` or `SeedFails`, `Record`, `Complete`, `Publish`; `BootstrapFails` after any of them |
| the segments | `Apply` |
| `pause.rs` | `PauseSync`, `ResumeSync` |
| `reinitialize.rs` | `ReinitStart`, `ReinitStopped`, `ReinitGivesUp`, `CleanDestination` or `CleanFails`, `Unstage`, `Unwork`, `Rehome` |
| the environment | `Die`, `LoseTemp` |

The copies of the backup into stage and into the work directory are made under their
final names and are never made again, so a death in the middle (`CutShort` in `Die`)
leaves a file that is `torn`, or `empty` when nothing was written yet. SQLite refuses the
torn one at every attempt, and the device is never published. The empty one it takes for
a database without tables (`Readable`, `HasTable`): as in the code, the worker then seeds
nothing, writes the marker and publishes the device, whose rows from before do not arrive.
`SourceSeeded` says that this does not happen, and `lifecycle_torn` shows that it does;
`RowsOnce` speaks of whole copies. A transaction writes one row.

### Settings, WorkerRegistry, DeviceOpen
The settings are keys with or without the number of a destination, and `Configured`,
`Hydrated` how a configuration and the device's metadata are put together from them. A
worker of the registry is a checkpoint that moves (`SeedCheckpoint`, `ApplyNext`,
`WorkerStops`). `DeviceOpen` has the steps of `open_with` in their order: `TryLock`,
`Identify`, `SpawnWorker` or `SpawnFails` and `GiveUp`, `PersistConfig`, `OpenDevice`,
`NotifyWorkers`, `RegisterTracker`, `SeedTracker`; of a commit: `CommitDevice`,
`PublishCommit`, `Roll`; and of `close`: `CloseDevice`, `Unlock`, `UnregisterTracker`.
`Die` ends the process with every thread in it.

### DestinationRegistry, AwaitSync, MCAwait
`DestinationRegistry` is the Java front end with its handles and generations
(`JavaOpens`, `JavaSpawns`, `JavaRegisters`, `JavaAborts`, `JavaStops`, `Unregister`,
`ShutdownWorker`, `JavaCommits`). `AwaitSync` adds the waiters: `CallAwaitSync`,
`CallAwaitApplied`, `CallJavaAwait`; then `ReadTracker`, `ReadSource`, `ReadConfig`
and one `ReadCheckpoint` (or `Unreachable`) for each destination; `Decide` and
`Poll`; `TimeOut`, `Return`. Other threads act between any two reads. What the
application may do meanwhile is in the guards of the calls (`MayCall`): by default
`await_sync` and opens take turns.

### Statistics, MCStatistics
The workers of devices of a store or streaming type, with one destination each, from the
commit of a segment at the destination to the mark on it. Each device has a database for
its counters, and all share one for the dashboard.

| Code | Actions |
|---|---|
| `initialize_consolidator_stats_db`, `initialize_from_backup` | `Spawn`, `Publish`, `PublishFails` |
| `flush_pending_stage_paths`, `process_stage_path_ready` | `Skip` (what is cleaned up, marked APPLIED, or covered by the checkpoint at the destination), `EndDrain`, `StepFails` |
| `apply_staged_segment_once`, `apply_resume_filter`, `map_destination_checkpoint` | `Apply`, `Filter`, `StoreAtDestination` |
| `record_stage_path`: `map_local_checkpoint`, then `record_stage_statistics` | `StoreCheckpoint`, then a statement each: `CountRow`, `CountOwn`, `ReadTotals`, `WriteTotal`, `WriteRow`, or `CountFails` for the rest |
| `mark_segment_applied_best_effort` | `Mark`, `MarkFails` |
| `cleanup_processed_sqllog` | `Clean` |
| the environment | `Die`, between any two |

What is to be processed next is never taken from the local checkpoint: a drain goes through
the segments from the first, and the watermark of the cleanup, the mark and, with the
metadata at the destination, the checkpoint there say what is done. The mark comes after
the counting. So a segment whose mark is missing is processed again: with local metadata it
is sent a second time, and in either case its rows are counted a second time. The history
variables `cut` and `redo` count, for each segment, the faults that may cause the one and
the other; `times` and `passes` count what they caused.

## 4. What the runs check

| Run | Question | Instance |
|---|---|---|
| `sqlite_recovery` | Does a SQLITE device that may crash between any two steps, with a mover that may fail, always recover and agree with its database, leave finalized segments alone, and show in stage a growing prefix of what was committed (refinement of `CommitStream`)? | 3 segments, ids up to 3, 2 statements a transaction, 5 rows, batches of 2 |
| `duck` | Does a DUCKDB device agree with its database, is what it stages complete, and does it show in stage a growing prefix of what was committed (refinement of `CommitStream`)? | 4 segments, ids up to 4, 2 statements, 8 rows, batches of 2 |
| `shipping` | Is a segment consumed, given up or passed only when every archiver has it, and everything in order? | 2 segments with sidecars, 2 archivers, 1 attempt, a restart |
| `shipping_live` | Does every segment reach every archiver, and does closing end even when nothing works? | 3 segments, 2 archivers, a restart |
| `shipping_seg0` *(violated)* | Is segment 0 archived before it is applied, when the worker's tick comes first? | 2 segments, 1 archiver |
| `consolidator` | Is every transaction applied, in order, reported neither early nor never, and is stage emptied, over crashes, failing steps, a pause, a shutdown, and beside another destination? | 2 segments of 2 transactions, one of the 4 rolled back; 2 faults, or 1 and a call; one destination, or two |
| `consolidator_replay` *(violated)* | Is `await_sync` right when a replay is interrupted? | 1 segment of 2 transactions, 1 fault |
| `changes` | Does a destination show the committed rows under its mapping, whatever the path of a statement, and is nothing refused? | 16 layouts, 2 or 3 statements in any transactions, 2 values |
| `changes_null` *(violated)* | Does an UPDATE of a row that holds a NULL arrive? | 1 layout, 2 statements |
| `lifecycle` | Is a destination seeded once from a whole copy of the backup, over opens, retries, deaths, pauses, or a reinitialize? | 7 layouts, 2 rows, 2 deaths or 1 reinitialize, 3 messages |
| `await` | Is an Ok true, a failed open undone, and does a wait end? | 5 layouts, 2 numbers and 2 databases for destinations, 2 opening threads, 1 waiter, 1 or 2 commits |
| `statistics` | Is a segment sent again, or counted again, only after a fault that left it unmarked or uncovered, and never because a counter failed? | 1 device with 2 segments and 2 faults, its checkpoint local or at the destination; 2 devices with 1 segment each and 1 fault; 1 operation a segment |

Why the bounds are enough. Two segments are what it takes to have one overtake,
cover or clean up another; the third of the SQLITE run is the active one while a
finalized and an undelivered one are about. Ids up to 3 give a committed, an in-doubt
and a later transaction. Batches of 2 fill up inside a transaction and also leave a row
in the buffer. Two faults are one and a second during the recovery from it.
In `changes` two statements are what one needs to disturb the other; where three are
needed (a row, a change of its table, a use of the changed table) the layout has them.
Two rows in `lifecycle` are one of the backup and one of a segment. Two destinations
may name one database, and the two openers ask for different settings. The counters
of the form `faults`, `calls`, `sessions`, `deaths` exist only to bound the state space.

Deadlock is checked in `sqlite_recovery`, `duck`, the shipping and consolidator runs, and
`lifecycle`. It is not in `changes`, where everything is consumed in the end, in
`await`, where the application may stop, and in `statistics`, where faults are used up
and nothing is left to drain in the end.

### What the violated runs show
* `shipping_seg0`: the shipper's worker starts with `latest_seq = 0`, takes the
  missing segment 0 for one already cleaned, and never ships it in this session.
  When segment 1 is shipped, the consolidator discovers and applies 0 as well.
* `consolidator_replay`: the replica commits each transaction and remembers it as
  done, while its change log is in a temporary file until the end. If the replay
  stops in between, the next attempt deletes the file and leaves the transaction
  out: no destination ever gets it, and `await_sync` reports it as applied.
* `changes_null`: the WHERE clause of a change record compares every column of the old
  row with `=`. One NULL in it and the UPDATE or DELETE changes nothing at the
  destination, without an error.

### Conditions on which a passing property depends
Several properties hold only for a device that is used in a certain way. The model has
both ways; the passing run leaves the other one out, the hazard in `PROJECT.json` says
so, and where a configuration shows the violation it is kept:

| Configuration (module) | Violates | Because |
|---|---|---|
| `duck_flush` (`DuckDbDevice`) | `LogCoversDb` | `roll_segment`, which `Logger::flush` calls unguarded, discards what is staged before it looks whether a transaction is open |
| `changes_delete` (`MCChanges`) | `OthersUntouched` | a STORE device's DELETE without a WHERE clause removes the rows of every device from a shared table |
| `changes_rename` (`MCChanges`) | `NeverStuck` | the change record of RENAME TABLE has no columns, so the renamed table is unknown to a consolidating destination |
| `lifecycle_store` (`MCLifecycle`) | `RowsOnce` | with the metadata at the destination the worker's own state is in the temporary directory, which reinitialize leaves alone: the new backup is never copied |
| `lifecycle_sentinel` (`MCLifecycle`) | `RowsOnce` | the sentinel of a reinitialize is consumed before the snapshot is copied; a death in between has every row twice |
| `lifecycle_torn` (`MCLifecycle`) | `SourceSeeded` | a death in the copy of the backup to stage leaves an empty file that is never copied again; the worker opens it as an empty database, seeds nothing and publishes the device |
| `await_duck` (`MCAwait`) | `OkMeansApplied` | the last commit id of a DuckDB database that is closed is read as if it were SQLite, fails, and counts as nothing committed |
| `await_open` (`MCAwait`) | `OkMeansApplied` | a tracker is registered with 0 before the recovered commit id is put in |
| `statistics_shared` (`MCStatistics`) | `SegmentsOfDevice` | the number of segments told of one device is the total of all that share its work directory |

Without a configuration: a clock behind the last commit id (`ClockMayLag`), copies into
stage that are torn or fail (`torn` and `failing`), a DUCKDB transaction without
a logged statement and one that is open at close (`Usage`), a pause of a worker that
lives on notifications (`PausePushOnly`), a mark that is not written (`MarkMayFail`),
a segment in which everything was rolled back, or whose last transaction was at a STORE
device that tries it again (`RolledBack`), DDL after DML in one
transaction of a SQL device (`late`), and the cleaning of stage with two destinations.
With a failing mover a segment that could not be copied stays at home while later
ones are delivered.

### Fairness
* `Shipping`: the device is opened again after it went down, the mover and the
  worker's thread run on, and an archiver that is asked again and again accepts some
  day (strong fairness per archiver: between two attempts the action is disabled).
  Without the last one no segment need ever arrive. An archiver that is `deaf` never
  accepts, its action is not enabled, and `CloseCompletes` must do without it.
* `Consolidator`: the shipper announces what it shipped, the application opens the
  device again and ends a pause, and a worker's thread runs (weak fairness of each
  worker's `Step`, which is enabled whenever the worker is neither off nor idle or
  paused). Faults are bounded, so each failing step is followed by attempts that
  succeed; the code retries without an upper limit, at each tick and notification.
* `DeviceLifecycle`: the worker's thread runs. Each step of the bootstrap is under
  strong fairness, since an attempt may fail at any of them and the next one begins at
  the first: a step tried for ever succeeds some day. Nothing is assumed of `Apply`. A
  torn copy is outside `EventuallySeeded` (`Readable`): it is refused for ever. The
  application owes nothing.
* `AwaitSync`: a thread that has begun to open, commit or roll goes on, a worker
  applies what is staged, and a waiter polls. An open that is to be completed
  does reach `PersistConfig`. Nobody is obliged to begin anything.
* The devices, `Changes` and `Statistics` have no fairness: an application may stop at
  any time, and nothing is claimed to happen there.

## 5. What is proved

For every number of segments, commit ids, statements, rows and batch size of a SQLITE
device, with a mover that may fail and a sequence number that may not be persisted:

* `TypeCorrect`: `Spec => []TypeOK`.
* `FateAgrees`: `~ ClockMayLag => (Spec => []FateMatchesDb)`. A COMMIT in the log
  means that the database committed, a ROLLBACK that it did not, and no crash leaves a
  combination of last committed and last logged id for which `open` returns an error.
* `LogCovers`: `~ PersistMayFail => (Spec => []LogCoversDb)`, for any clock. No statement
  takes effect whose row is not durable, and no durable row is lost on the way to stage.
* `StageNeverRewritten`: `~ PersistMayFail => (Spec => [][StagedIsFrozen]_vars)`. What
  the consolidator reads from stage never changes under it.
* `NoGapInStage`: `~ PersistMayFail => (Spec => []GapIsHeldAtHome)`, for any clock. A
  segment is in stage only when every lower number is there or waits in the device home.
* `NumbersOrderHistory`, `FinalizedIsWhole`: under both assumptions, `SegmentsInOrder` and
  `ReadyIsWhole`. Commit ids grow with the numbers of the segments; a finalized segment
  has every statement and the COMMIT of each committed transaction it has a row of.
* `DeviceImplementsStream`: under both assumptions `Spec => StreamSpec`. Every step of the
  device, a crash and the recovery from it included, is a step of `CommitStream` or a
  stutter.
* `LastCommitIdIsMax` and `NextChangeNumberFresh`: what the two `MAX` queries of a
  reopened writer return.

For every number of segments, commit ids, statements, rows and batch size of a DUCKDB
device, with a mover that may fail:

* `TypeCorrect`: `Spec => []TypeOK`, whatever the application does.
* `EffectsAreLogged`: `Spec => []LogCoversDb`, and `StagedSegmentsAreWhole`:
  `Spec => []StagedIsWhole`, where `"flush_in_txn" \notin Usage`. What took effect can be
  replayed after every crash, and what is staged replays exactly that.
* `FatesAgree`: `Spec => []FateMatchesDb`, where `Usage = {}`. The fate in the log is the
  one of the database, and `open` is never refused.
* `StageNeverRewritten`: `Spec => [][StagedIsFrozen]_vars`, and `NumbersOrderHistory`:
  `Spec => []SegmentsInOrder`, whatever the application does. What is in stage stays as
  it is; commit ids grow with the numbers of the segments, and no number is missing in
  stage whose segment does not wait, finalized, in the device home.
* `DeviceImplementsStream`: `Spec => StreamSpec`, where `Usage = {}`. Every step, a crash,
  the recovery and a failing mover included, is a step of `CommitStream` or a stutter.

For every number of segments, archivers, attempts and restarts of `Shipping`:

* `ShippingTyped`: `Spec => []TypeOK`, in every environment.
* `ReplicatedBeforeGone`: `Spec => [](Steady => ReplicatedFirst)`. The last local copy of
  a file is not given up, nor a segment consumed, before every archiver holds it.
* `DeliveredInSequence`: `Spec => [](Steady => InOrder)`. Archivers and destination get
  the segments in order and without gaps.

For every number of segments, transactions, destinations, faults and calls of
`Consolidator`, every kind of device and every set of rolled-back transactions:

* `ConsolidatorTyped`: `Spec => []TypeOK`.
* `UndeliveredStaysReadable`: `Spec => [](Careful => UndeliveredIsReadable)`. What a
  destination lacks is still in a file it can be read from, and nothing passes over it.
* `SentInOrder`: `Spec => [](Careful /\ ~ MarkMayFail => DeliveredInOrder)`. The snapshot
  comes first and once, then the segments in order, and a repetition has a fault of its own.
* `SyncedIsApplied`: `Spec => [](Careful => SyncedMeansApplied)`. The commit id `await_sync`
  reads is below every commit that a destination lacks.
* `AwaitWaitsExactly`: `Spec => [](Careful /\ ~ MarkMayFail /\ Settled => AwaitIsExact)`. It
  also reaches every commit a worker has recorded, so that nobody waits for what is there.

For every set of devices and every number of segments, operations and faults:

* `NeverReplayedThm`: `Spec => []NeverReplayed` for `Statistics`. A segment is sent once,
  and once more for each fault that came after the destination had committed it and before
  the checkpoint there, or, with local metadata, before its mark: a death while the segment
  is counted or a mark that fails is such a fault, a counter that fails is not.
* `StatisticsAreTrue`: `Spec => []StatusIsTrue`. What `sync_statistics` tells of a device
  never exceeds what was sent; neither that nor the counts of the tables exceed what was
  processed; a segment is processed once, and once more for each fault between its local
  checkpoint and its mark. All of it is told when nothing has failed and no segment is in
  progress. So after such a fault the counts may be too high, which is what the code does.

For every number of opening threads, waiters, destinations, databases, commits and deaths of
`AwaitSync`, with the Rust and the Java front end, and any settings:

* `AwaitTyped`: `Spec => []TypeOK`. No checkpoint, tracker or acknowledgement is ahead of
  what was committed and staged.
* `FailedOpensAreUndone`: `Spec => []FailedOpenUndone`. An open that fails at any of its
  destinations stops the workers it has made and leaves those it has found.
* `ConfiguredAreServed`: `Spec => []DestinationsServed`. Until the process ends, the
  destinations in the metadata and those of an open session have running workers for
  their databases, and those of an open session have been told of the backup.
* `PublishedSetIsLast`: `Spec => []PublishedIsLast`. The Java registry has the whole set of
  the last open, or none, in whatever order handles are registered and stopped.
* `OkIsApplied`: `Spec => [](Careful => OkMeansApplied)`. Every destination that stayed
  configured has what was asked for. `Careful` (of `AwaitSyncProofs`) says that, where
  `await_sync` is called, it takes turns with opens and the database is not a DuckDB one;
  the calls of `await_applied_commit` and of Java need no condition. The runs `await_open`
  and `await_duck` violate the property without either part.

For every set of layouts, every number of rows, opens, deaths and reinitializations of
`DeviceLifecycle`, and any bound on the worker's channel:

* `LifecycleTyped`: `Spec => []TypeOK`.
* `CheckpointNeverBack`: `Spec => NoRewind`. The checkpoint at the destination goes to the
  next segment or stays, until a reinitialize has the device forgotten.
* `PublishedBacked`: `Spec => [](Resets => PublishedIsBacked)`. A worker that takes the device
  to be initialized finds the snapshot and all that is written apart from it.
* `OthersSurvive`: `Spec => []OthersKept`. Another device's rows in the same table stay.
* `SeededExactlyOnce`: `Spec => [](Reliable \/ Repeatable => SeededOnce)`. Once nothing is
  left to apply, the destination has each row of the backup and of the segments once, if the
  copy of the backup in stage is whole. A copy that a death left empty is not excluded from
  the model, nor from the other theorems: it is published (`PublishedBacked` holds for it,
  but for the properties of a table it does not have) and the rows of the backup are missing.

The conditions on `Usage` are what the code needs: TLC violates `LogCoversDb` and
`StagedIsWhole` with `"flush_in_txn"` (the run `duck_flush` shows the first) and with
neither of the others, and `FateMatchesDb` and `StreamSpec` with each of the three. `DuckDbDevice` has no
constants for a lagging clock and a sequence number that is not stored: it takes both
for granted where `SqliteDevice` makes them an assumption of the theorems.

The assumption `~ ClockMayLag` says that at `open` the clock is ahead of every
commit id used so far. It is needed: `open` looks for the last id in the device home
only, and `close` has moved it to stage. `~ PersistMayFail` says that the sequence
number is stored whenever a segment is opened. It is needed where it is named: a failure
is only warned about, and when the device home is empty the next open takes a number
that is already in stage, so that the mover copies the new segment over the old one.

`Steady` says that the environment chosen at the start has no torn and no failing copies
and no tick before segment 0. Each part is needed, and TLC has a counterexample without
it: a torn file is archived as it is, a segment that could not be copied is passed over,
and `shipping_seg0` shows the third. Archivers may be deaf, and the process may end at any
step. `Careful` says that no fault hits a replay that has committed on the replica
(`consolidator_replay` shows why) and that no worker is paused that lives on
notifications: it would keep a segment in its work directory, and after a restart take
up from there and not from what it was told of first. `~ MarkMayFail` is needed for the order
and for `AppliedIsSeen`: with the checkpoint at home the mark is all that keeps an old
segment from being sent again after a newer one, which takes the commit id back.
`Settled` says that something committed in each segment and, for a STORE device with the
checkpoint at the destination, its last transaction did. The commit id is taken from what
is left of a segment after the filter, and a segment without this may leave nothing on the
second attempt; TLC finds `AppliedIsSeen` violated without either part. A crash and a failing step anywhere else, a cleared
temporary directory and any number of destinations are in the theorems.

`Resets` says that the metadata is local or there is no reinitialize: elsewhere the
worker's own database is in the temporary directory, which a reinitialize leaves alone, so that
the next worker takes the device to be initialized (`lifecycle_store`). `Reliable` says that there is
no reinitialize, or, with local metadata, one and no death; `Repeatable` that the metadata is
local and the copy of the snapshot begins with a deletion (`layout.init`) or replaces rows by
their key. What is left out is a copy that appends, and there TLC has counterexamples: a
death after `initialize` has consumed the sentinel makes the next one append to what is there
(`lifecycle_sentinel`), and so does a second reinitialize that fails to clean the destination
before the worker has copied anything (`reinits = 2`, no death).

The invariant of the SQLITE device has layers. The first is inductive by itself, the second
and the third each on top of the one before, the fourth on top of the first only, and
the fifth on all of them:

1. `TypeInv` (module `SqliteDeviceProofs`) = `TypeOK` with finite row sets
   (`FiniteRows`, without which `MAX` means nothing), the shape of the device home
   (`HomeShape`: where the active segment is, that the slot claimed is free) and what
   each `pc` implies about the memory (`StepShape`).
2. `FateInv` (`SqliteDeviceProofs`): the database's `synclite_txn` is the greatest of
   its commit ids (`DbShape`), the running transaction's id is newer (`DbFresh`), no
   row in the log is newer than `nextCommit` (`RowsBelowNext`), what is queued belongs
   to the running transaction (`QueueShape`), and the fates agree (`FateIsTrue`). A COMMIT row is
   only written for the id in `synclite_txn`; that no id is drawn twice is what keeps
   an old fate from being contradicted by a new transaction.
3. `ResumeInv` (`SqliteDeviceProofs`): `open` is not refused (`NotRefused`), with the facts that make
   it survive a crash at any point: the rows of the log reach the id in the database
   (`NewReachesDb`, `BufReachesDb`), and a transaction the database may commit is
   already durable in the log (`OpenTxnIsLogged`). The last one is the flush before
   the COMMIT, which `commit` performs for this purpose.
4. `StageInv` and `CoverInv` (`SqliteDeviceProofs`): what is staged is finalized, its
   number is not above the persisted one, and the file at home is the same or gone,
   while what is being written has a number that was not staged (`StageShape`, with
   `NumberShape` for the steps at which the persisted number follows); what the mover
   is given is finalized and what it removes it has copied (`TodoShape`). Then rows are
   never lost, and the effects of the open transaction are queued, pending or durable
   (`TxnIsQueued`), durable at the step that commits the database.
5. `GapInv`, `OrderInv`, `LoggedInv` and `DecidedInv` (`SqliteDeviceProofs`): every number
   below one in use is staged or waits, finalized, at home; the id of the open transaction
   is above all that earlier segments hold; each commit of the database has its COMMIT
   row, except the last one, which recovery will find in doubt in the open segment; and
   what is finalized ends decided. From these, what `CommitStream` calls `published` is
   a prefix of `committed` in every state, and a step of the mover or a roll can only
   make it longer.

What both devices do with the segments of a home is proved once (`LogSegmentsProofs`).
The layers of the DUCKDB device are in `DuckDbDeviceProofs`; those up to `EndInv` make up
`DeviceInv`, which holds for every `Usage`:

1. `TypeInv`, `StageInv` and `IdInv`, the counterparts of the layers 1, 4 and 2 above, with
   sidecars: the sidecars of a staged segment at home are the staged ones or gone
   (`SidecarsMoved`), the statements of the open transaction carry its id
   (`StatementsCurrent`), and no other segment has a row with it (`OthersBelow`).
2. `SideInv`: a sidecar has its REPLAY_TXN row, which is durable when the sidecar is
   published (`CommitMarked`), and goes before the row when recovery discards it.
3. `EndInv`: a finalized segment ends with a fate (`ReadyDecided`), and each commit of the
   database has its COMMIT row wherever it has a row, but for the last one while it is
   in doubt (`InDoubt`): the segment is then still open, and recovery will write it.
4. `CoverInv`: the statements of the open transaction are queued or spilled, and in the
   sidecar when the database commits (`TxnWhole`). Then what took effect is in a sidecar of
   every segment with its commit id (`EffectsTogether`), and a sidecar of a commit of the
   database has nothing else (`SidecarsExact`). A flush inside a transaction breaks
   `TxnWhole`, and only that.
5. `FateInv`: the segment that is being written reaches the last commit of the database or
   begins after it (`NewReachesDb`), because the database commits with a row of the
   transaction durable (`ReplayedDb`). So recovery meets only combinations it decides.
6. `OrderInv` and `StreamInv`: commit ids grow from segment to segment, since the id of the
   open transaction is above all there is (`CommitIdsGrow`), and every number below one in
   use is staged or waits at home (`GapInv`); both need no condition. With `FateInv`, each
   commit of the database has a row in some segment (`CommitsLogged`), so that a staged
   segment has the COMMIT of all it has a row of (`EndInv`) and what `CommitStream` calls
   `published` is a prefix of `committed`. A transaction without a logged statement is
   what breaks `CommitsLogged`.

The invariant of `Shipping` (`ShippingProofs`) is `SteadyInv` on top of `TypeInv`. A file
has *arrived* when it is in stage, or was and every archiver has it. Only the end of a
copy makes a file arrive, and it stays so. `ArrivalInv` and `MoverInv`: segments arrive in
the order of their numbers, since the mover takes the least of `todo`, and what it removes
at home has arrived. `WorkerInv` and `DeliveryInv`: the worker knows only of what has
arrived (`latest`), what it counts as shipped is on every archiver, and a file in delivery
is on the archivers before the one whose turn it is. `ConsumerInv`: the consolidator is
told of a segment when all up to it are replicated, and applies in order.

The invariant of `Consolidator` (`ConsolidatorProofs`) is about each worker and each
segment. A segment is *passed* when a mark, a watermark or a checkpoint says that it need
not be looked at, and the worker is *through* with it when the destination lacks nothing
of it and it is passed (with a mark that may fail, when the destination lacks nothing).
`DeliveryInv` says: what is passed was delivered, and what the worker is not through with
is in stage or in its work directory (`ReadDone`); a drain has all of it before its last
segment (`DrainDone`); the head is not passed before it is recorded (`HeadDone`); what is
recorded or about to be cleaned up is done with, by every destination (`ProgressDone`,
`TargetDone`); what the replica has and the destination does not is in a change log
(`ReplayDone`); the destination's checkpoint is not ahead of its data (`CheckpointDone`).
Each lemma about a step also shows that no worker ceases to be through with a segment
(`Still`), which is what lets one worker clean up for all. For the order, `LogInv` says
that the worker is through with whatever is below an entry of the log. `RepeatInv` counts:
at most one segment of a destination is *exposed*, delivered in part or whole but not
passed and not on its way to be; only a fault exposes one, and sending it again is what
makes an entry that repeats something. So the entries that repeat something, and one
more when a segment is exposed, are no more than the faults.

For `await_sync` (second part of `ConsolidatorProofs`), `AheadInv` says of each commit id a worker
writes, from the step that computes it on, that it is below whatever the destination lacks:
the head and all before it were delivered then, and ids grow with the segment. It needs
nothing but `DeliveryInv`. That the id also reaches what is passed (`ReachInv`) needs more:
the id that is written belongs to the last segment in the log (`NothingBeyond`, from
`LogInv`), and what is left of the head after the filter holds its last committed
transaction or that one's marker. The latter rests on `ChangesDone`: the change log of a
segment that is not passed, with what is still to be replayed, holds all that committed of
it and nothing else, and the destination's checkpoint names one of those.

The invariant of `AwaitSync` (`AwaitSyncProofs`) has a part for each component, and all
rest on the types and on `LockInv`: the lock is held by whoever is between `TryLock` and
`Unlock`, so that one session at a time counts.

1. `ServedInv` follows an open through its destinations. While it spawns, the running workers
   are those it has found and those it has made, which are different ones (`before`, `made`
   in `Sound`), and what it is through with is served; so the guard that stops what was
   made leaves what was there. What the metadata names was running before, because it was
   persisted by an open that had come through (`ConfiguredIsServed`).
2. `JavaInv`: one logger at a time registers handles (`OneRegisters`), each has numbers of
   its own (`HandlesAreOwn`, `GenerationsGrow`), and a set that is still being collected
   belongs to the logger that collects it (`PendingIsHeld`). Stopping an old handle finds
   its token in no newer set.
3. `CountInv`, `TrackerInv`: the commit ids on their way from database to tracker, stage and
   checkpoints are in that order, and the tracker is not behind what was acknowledged,
   except between its registration and its seed. None is ever taken back (`Grown`).
4. `WaitInv`: what a waiter has read keeps its meaning (`Reading`): the destinations it was
   promised are in the configuration it has read, since what is reconfigured is taken from
   the promise and nothing is added to it, and those it has asked still have the least it
   saw. What it waits for is at least what it is owed (`Keeping`); only this needs `Careful`.

The invariant of `DeviceLifecycle` (`DeviceLifecycleProofs`) is `IInv`, in six parts:

1. `TypeInv`, and `ShapeInv`, what the files and threads know of each other: what is staged is
   the backup at home, or a file without a byte (`StagedBackup`), the segments after it carry
   new rows and growing commit ids (`SegShape`), and while a reinitialize removes files nobody
   works and the destination does not know the device (`AppShape`). With them goes how many
   messages wait (`InboxShape`) and what a worker remembers of its own database (`WorkerShape`).
2. `CkptInv`: the checkpoint covers the snapshot, or the segments up to one whose commit id
   it has, and neither the marks nor the count of cleaned segments is ahead of it. A copy
   of the snapshot that comes after a segment would take it back; it is kept off by
   `SnapshotCompleted`, because ids grow from the backup's base on.
3. `BackedInv`, under `Resets`: one implication for each two of the steps of the bootstrap. What
   is written later is only there with what is written before it; the properties of a table
   are only due where the copy of the backup has it (`HasTable`).
4. `RowsInv`, under `Reliable`: with a marker, and a copy that is not empty, each row is
   there exactly as often as backup and checkpoint say (`Sent`); without a marker there is
   none, or the rows are of an earlier life and somebody is on the way to delete them
   (`Overwriting`): the sentinel, the mode the application has read from it, or the worker
   that was made with it.
5. `RepeatInv`, under `Repeatable`: the same count while nothing is half gone. Before a copy
   every mode that somebody holds or has sent begins with a deletion (`ModesTruncate`), or
   no row is there twice and those of an earlier life are in the backup of the next one
   (`KeyedRows`), because it is taken after they were written.
6. `OthersKept`, which is inductive by itself.

The assumptions on the constants say what they are for: rows are numbered, those there before
the device are the first (`LifecycleAssumption`), `Nobody` is no thread, an
application's settings are of the kind the code reads and its commits finitely many
(`OpenAssumption`), and a wait has a deadline or not (`WaitAssumption`).

The invariant of `Statistics` (module `StatisticsProofs`) is `CoreInv`: the types, and three parts
for each device. `InOrder`: all segments up to the place of the drain, the watermark, the mark
and the checkpoints were sent, because a drain goes through them in order; and a segment that
is being processed is neither marked nor cleaned up. `Sends`: a segment is sent at most once
more than there were faults while it was in doubt (`InDoubt`), and at most as often while
nothing keeps it from being sent and it is not in doubt now (`Sendable`). `Passes` says the
same of counting and the faults before the mark (`Unmarked`, `Countable`). A fault turns a
segment in doubt into a sendable one and is counted for it; a counter that fails leaves the
worker on its way to the mark, and does neither. `NeverReplayed` is the first half of `Sends`.

`StatusIsTrue` needs `SumsInv` too: the counters of a device and what its worker still owes
them of the segment it is at are at most the operations of the segments, each taken as often
as it was sent, or counted, and its row tells no more than the counters; `Exact` makes these
equalities while nothing has failed. The dashboard that workers share appears in neither.
The sum is `MapThenSumSet`, a fold that the community modules define by a recursive function:
that such a function exists, is unique and gains the count of a segment that is added is
proved by taking a smallest counterexample (`WellFoundedInduction`), which needs no operator
as parameter.

Each layer has one lemma for each action or group of them and one for the initial
state, and the theorem combines them with `PTL`.

Only model-checked: everything about `Changes`. `Mapping`, `CdcLog` and
`DestinationApply` fold over sequences of any length; what a fold computes for every
input needs induction with an operator as parameter, which the installed provers cannot
instantiate. All liveness properties stay with TLC too: TLAPS does not reason about
fairness and ENABLED here.

## 6. What is not modelled
* STORE, APPENDER and STREAMING devices as devices of their own: they appear as a
  source in `Consolidator`, `Changes` and `DeviceLifecycle`. The batch calls.
* The asynchronous runtime: a thread that owns the logger and takes one request at a
  time, which is a direct call seen from outside.
* `UpdateRuntime`, the trigger files of a reinitialize, `dst_skip_failed_log_files`,
  the migration of an older state database, and the writer of the change log that is
  used when the native one cannot be created (it sends a DDL statement twice).
* Locks between processes and connections: a lock that is not free is a failing step.
* Data types, triggers, ALTER COLUMN, `dst-set-unparsable-values-to-null`, and SQL text
  below the parts of a statement. A schema-qualified key lookup is not modelled either:
  the code looks in the default schema.
* `sync_status` and `sync_latency`, which report from the reads modelled in `AwaitSync`;
  latencies, heartbeats and the totals over all devices, which are read and then
  written, so that two workers may lose each other's update (`StatusIsTrue`
  does not depend on them).
* Tracing, the parsing of configuration, the C, Node and Python bindings: nothing reads
  back what they keep.
* Remote archivers' protocols: an archiver takes a file or does not.
* A reinitialize while another process serves the device, or of a device whose settings
  mix a numbered destination with an unnumbered type: the model has one process, and
  types are the same for all destinations.
