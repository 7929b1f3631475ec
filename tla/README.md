# Verification of go-pq-cdc

TLA+ models of the change-data-capture connector in `src/`: how it sets up the
database, how several instances take the initial snapshot together, what it does
with the replication stream of PostgreSQL from the bytes of a message to the ack,
and how all of it is started, supervised and shut down. TLC checks the models on
small instances; TLAPS proves every safety property of the passing runs for all
values of the parameters, under the conditions given below.

Paths below are relative to the repository (`pq/...`, `connector.go`).

## The system

An application gives the connector a listener and calls `Run`. The connector

1. creates the publication and the replication slot,
2. takes a snapshot of the existing rows if none was completed for the slot,
3. opens the replication stream, hands every change to the listener and tells
   PostgreSQL how far the listener has acknowledged.

| Component | State | Operations | Interacts with |
|---|---|---|---|
| **stream** `pq/replication/stream.go` | received, confirmed and delivered positions; look-ahead buffer; buffers per xid; channel to `process` | `Open`, `sink`, `process`, `flushTicker`, `reconnect`, `Close` | walsender and slot (messages), listener (callback, `Ack`), snapshot job (reads its LSN) |
| **snapshot job** `pq/snapshot` | rows of `cdc_snapshot_job` and `cdc_snapshot_chunks`, an advisory lock, an exported snapshot, one heartbeat per worker | `Prepare`, `Execute`, claim, process, mark, release, finalize | other instances (only through the database), listener |
| **chunk partitioning** `pq/snapshot/coordinator.go` | none beyond the chunks it creates | choose a strategy, create chunks, build a chunk's query | snapshot job |
| **connector** `connector.go` | ready, closed, cancel and fatal channels | `NewConnector`, `Run`, `WaitUntilReady`, `Close` | all of them; signals and the caller's context |
| **supervisor** `supervise.go` | attempt count, backoff | build a connector, run it, close it | connector |
| **slot** `pq/slot` | a connection, a closed flag | `Create`, `Info`, metrics, `Close` | PostgreSQL, `GET /slot` |
| **heartbeat** `pq/heartbeat` | a timer, a connection, a closed flag | creates its table, upserts a row now and then | comes back as a change of the stream |
| **publication** `pq/publication` | the catalog of the database | replica identities, create, merge tables and row filters | other instances that start, configuration |
| **decoding** `pq/message` | relation cache, streaming flag | one decoder per message type | stream |
| config, metrics, HTTP, TimescaleDB, pool, retry | | | values, reporting, small helpers |

What is hard here, and what would be wrong if it failed:

- *Acknowledgement against delivery.* `sink` reads ahead of `process`, `process`
  ahead of the listener's acks; reconnects and restarts resume from the slot. The
  slot must never pass what was not processed (`AtLeastOnce`), and must finally
  pass everything (`SlotCatchesUp`).
- *Streamed transactions.* Chunks of uncommitted transactions arrive between
  committed ones. Nothing rolled back may be delivered
  (`OnlyCommittedDelivered`), and commit context must not leak (`CommitContext`,
  `LastMeansComplete`, `CommitOrder`).
- *Snapshot and stream meet at an LSN.* Every commit is in the snapshot or in the
  stream (`ZeroDataLoss`), and the snapshot is one point in time whoever reads it
  (`ConsistentSnapshot`).
- *Instances coordinate by single SQL statements.* Each check may be stale when
  acted upon (`CompletedJobKept`, `NoChunkSkippedAlone`, `OneReaderPerChunk`), and a
  crash leaves half of a change behind (`JobCreated`, `JobCompletes`).
- *Integer ranges.* Chunks partition the rows, at the ends of the integers too
  (`ExactlyOnce`, `SparseKeysHandled`).
- *Start and stop from anywhere.* Six goroutines, two callers of `Close`, signals
  and a context meet on one-shot channels. `Run`, `Close` and `WaitUntilReady`
  must return (`RunReturns`, `CloseReturns`, `WaiterReleased`), no connection may
  stay behind (`NoConnectionLeft`), and a failure must end in a stream or in a
  return (`Settles`, `Recovers`). With a snapshot `Open` waits for a job that other
  instances may have to complete, without a limit (`FetchesForever`).
- *Set-up races.* Instances that start together alter one catalog with single
  statements, on what they read before or could not read (`PublicationMatches`,
  `IdentitiesMatch`, `NoOpinionNoChange`, `SomeoneStarts`).
- *Decoding depends on history.* What a message means depends on the Relations
  and stream markers before it, across DDL, rollbacks and reconnects
  (`ChangeIsDecoded`, `RowsMatch`, `NoWrongValue`).

`PROJECT.json` lists these hazards line by line under `hazards`.

## Modules

| Module | Models | Used by |
|---|---|---|
| `PgWal` | the WAL as logical decoding shows it (external) | `ReplicationStream` |
| `ReplicationStream` | `stream.go` with walsender, slot and listener | `MCReplicationStream`, `ReplicationStreamProofs`, `StreamOrderProofs` |
| `DeliveryContract` | what the stream promises a consumer, abstractly | `ReplicationStream` implements it (`HonoursContract`) |
| `ReplicationStreamProofs` | proofs: types and at-least-once delivery of the stream | `StreamOrderProofs` |
| `StreamOrderProofs` | proofs: commit context, order, refinement of `DeliveryContract` | |
| `PgOutput` | `pq/message`, the relation cache and the streaming flag | `MCPgOutput`, `PgOutputProofs` |
| `StreamLifecycle` | the goroutines of `stream.go`, reconnect and `Close` | `ConnectorLifecycle` |
| `ConnectorLifecycle` | `connector.go`, `supervise.go`, slot and heartbeat connections, composed with the stream | `MCConnectorLifecycle`, `ConnectorLifecycleProofs` |
| `PublicationSetup` | what `NewConnector` does to the database | `MCPublicationSetup`, `PublicationSetupProofs` |
| `SnapshotJob` | `pq/snapshot` as run by several instances, and `connector.run` around it | `MCSnapshotJob`, `SnapshotJobProofs` |
| `ChunkPartition` | chunk creation and chunk queries | `MCChunkPartition`, `ChunkPartitionProofs` |
| `PgOutputProofs`, `ConnectorLifecycleProofs`, `PublicationSetupProofs`, `ChunkPartitionProofs` | proofs about the module of that name | |
| `SnapshotJobProofs` | proofs: types, one point in time | `SnapshotHandoffProofs` |
| `SnapshotHandoffProofs` | proofs: no loss between snapshot and stream, no chunk skipped, the job is kept | |

Definitions marked *Mutant* in a comment are not part of the model. Each is the
form a definition would have with a plausible mistake; `PROJECT.json` says which
property detects it.

### ReplicationStream

A change is named by its LSN, a position is an index into the WAL. A message on
the channel is the change, the position an ack of it would confirm (`walStart`),
the commit context and the last-in-transaction mark. The WAL is chosen initially:
a record the walsender has not read may as well not exist yet.

| Code | Model |
|---|---|
| `Connect`, `Open`, `setup` | `Open`, `SetupLSN`, `StartReplication` |
| `handleXLogData`, `dispatchMessage` | `SinkBegin`, `SinkChange`, `SinkCommit`, `SinkStreamStart`, `SinkStreamStop`, `SinkStreamCommit`, `SinkStreamAbort` |
| `messageBuffer` | `pending`, `BufferMessage`; a blocked send is `outbox`, `SendMessage`, `DropMessage` |
| `streamTxBuffer` | `txns`, `activeXid`, `streaming`, `AppendMessage`, `FlushTx`, `DiscardTx` |
| `process`, `ackFunc`, `ackLSNFunc` | `ProcessHeartbeat`, `ProcessMessage`, `Ack` |
| `handleKeepalive`, `flushTicker`, `sendStandbyStatusUpdate` | `Keepalive`, `SendStandbyStatusUpdate` |
| `reconnect`, `resetForReconnect`, `markReplayFloor` | `Disconnect`, `ReconnectFails`, `Reconnect` |
| `Close`, end of the process, `Supervise` | `CancelContext`, `Close`, `Crash` |
| walsender, slot, server (external) | `DecodeSilently`, `SlotAdvance`, `PgRestart` |

The walsender streams a chunk of any unfinished transaction whenever it likes,
which includes every memory limit; it sends only transactions that commit at or
after its start position. `PgRestart` may put the slot back to any earlier
position, because PostgreSQL saves it only at checkpoints.

`processed` is what the consumer has made durable: the model's listener acks a
message only after it and all messages before it were consumed, by `Ack` or, when
`UseAckLSN`, by `AckLSN` with the commit LSN.

Left out here: Relation messages, which go through the same default branch as rows
and reach the listener as any message does; messages that cannot be decoded (see
`PgOutput`); the limits of `reconnect` (giving up is `Crash`; see
`StreamLifecycle`); the stall warnings of `flushTicker`.

### DeliveryContract

The same promise without goroutines, buffers and positions in flight: changes are
handed over in commit order (`HandOver`), the consumer makes them durable
(`Consume`), and the slot passes a commit only after that (`Release`). A new
process starts over, and the slot may fall back. `ReplicationStream` implements it
with the identity on `wal`, `confirmedFlush`, `delivered` and `processed`:
`HonoursContract` is `Contract!Spec`, and each of its steps is a step of the
contract or none.

### SnapshotJob

One action per SQL statement an instance sends, because the statements of
different instances interleave. Positions are numbers of commits; a view is the
set of transactions a snapshot sees. `pc` follows `connector.run`:
`start`, `slot`/`create` (`slot.Create`), `prepare`, `lsn`, `init`,
`cleanup`/`delete`, `export`, `chunks`, `save` (coordinator) or `wait` (worker),
`execute`, `claim`/`process`/`mark`/`release` (the worker's loop), `finalize`,
`complete`, `opening`, `streaming`. With resnapshot `reset`/`resetJob` come first;
in mode snapshot_only there is no slot and no stream, and after `finalize` the run
returns nil (`done`). A `setting` fixes mode, resnapshot, the number of instances
and the bounds on commits and faults, so that one run covers several of them.

| Code | Model |
|---|---|
| `shouldTakeSnapshot(Only)`, `slot.Create` | `ShouldTakeSnapshot`, `Taking`, `SlotInfo`, `CreateSlot` |
| `setupJob`, `getCurrentLSN`, `initializeCoordinator`, `cleanupJob` | `SetupJob`, `GetCurrentLSN`, `InitializeCoordinator`, `CleanupChunks`, `CleanupJob` (also `CleanupJobForSlot`) |
| `exportSnapshotTransaction`, `createMetadata` | `ExportSnapshotTransaction`, `SaveChunks`, `SaveJob` |
| `waitForCoordinator`, `Execute` | `WaitForCoordinator`, `WaitTimeout`, `LoadJob` |
| `claimNextChunk`, `processChunkWithTransaction`, `markChunkCompleted`, `handleInvalidSnapshot` | `ClaimNextChunk`, `ProcessChunk`, `MarkChunkCompleted`, `ReleaseChunk` |
| `heartbeatWorker`, claim timeout | `HeartbeatReceive`, `HeartbeatTick`, `Expire` |
| `finalizeSnapshot` | `CheckJobCompleted`, `MarkJobAsCompleted` |
| `fetchSnapshotLSN`, `CaptureSlot` | `OpenStream` |
| `executeSnapshotWithRetry`, `retryOperation`, `retryDBOperation` | `Invalidated`, `AttemptFails`, `StatementFails` |
| end of a process, `Close`, `executeSnapshotOnly` | `Crash`, `Start`, `Restart`, `Exit`, `CollectLeaked` |

`createMetadata` inserts the chunks table by table and in batches, each a committed
statement. `SaveChunks` inserts the next batch, of any length, and is repeated until
all are there (`saved` is how far it got); workers, other coordinators and crashes
fall in between. The chunks are numbered over all tables, so the end of a table is
the end of some batch.

Abstractions: the rows of a chunk reach the listener in one step; the two updates
of `markChunkCompleted` are one; a worker claims any claimable chunk, where the query
takes one with the least index in its table; ids are reused once nothing mentions
them. A lost session without a crash of its process is not modelled.

### ChunkPartition

A table is a set of integer keys with a page each, a subset that satisfies the
query condition, and its configuration; `CreateTableChunks` chooses a strategy as
the code does, and `ProcessChunk` reads the chunks one by one with the query
`buildChunkQuery` would build. Rows are ordered by the key, or by ctid for a table
without one. The ctid orders the rows of a plain table; through a partitioned parent
(no pages of its own, `totalBlocks` = 0) rows of several partitions share it, and
each query returns those it cannot tell apart in an order of its own (`Ties`).
Integers are `-HalfRange..HalfRange-1` and wrap
(`HalfRange` is 2^63 in the code); `MaxAlloc` stands for the longest slice Go can
make.

### PgOutput

A message is a sequence of tagged fields. The encoder, the output plugin's habit
of sending a Relation before the first change after anything that may have altered
the table, and the locks of `ALTER TABLE` are PostgreSQL's (external); the decoder
reads by position, as the code does, and takes what it finds there for what it
expects. The transaction's id is part of a message only within a streamed block;
outside, `stampCommit` writes it into rows but not into a `Truncate`, whose id stays
zero (`NoXid`). `Begin` and `Commit` are steps of the walsender. `truth` is the
change behind the last message, `got` what `message.New` made of it.

| Code | Model |
|---|---|
| `message.New`, `NewInsert`, `NewUpdate`, `NewDelete`, `NewTruncate` | `New`, operators of the same names |
| `relation[msg.OID] = msg` | `relation`, `NewRelation`, `SendRelation` |
| `tuple.NewData`, `DecodeWithColumn`, `decodeTextColumnData` | `IsTuple`, `Named`, `DecodeWithColumn`, `decodeTextColumnData` |
| `stampCommit` as far as the id goes | `stampCommit` |
| TOAST columns in `Update.decode` | `MergeToast` |
| `startTx`, `stopTx`, `flushTx`, `discardTx` as far as `streaming` goes | `StreamStart`, `StreamStop`, `StreamCommit`, `StreamAbort` |
| new buffers in `sink` | `Reconnect` |
| a decoding error in `handleXLogData` | `Failed` |

### StreamLifecycle and ConnectorLifecycle

Here a message is only a place in `messageCH`. Every place where a goroutine can
wait or look at shared state is a value of `sink`, `process`, `ticker`, `closeAt`
(one `Close` of the stream per caller), `run`, `closer` or `supervisor`. `connMu`
needs no variable: it is held over single reads and writes, or over one attempt to
reconnect, which is where `sink = "dialing"` and `CloseConnection` waits.

| Code | Model |
|---|---|
| `sinkLoop`, `sink`, `send` | `SinkRead`, `SinkSend`, `SinkIdle`, `SinkReadFails`, `StatusUpdateFails`, `SinkBroken`, `SinkFinish`, `SinkDecides`, `SinkCloses`, `SinkReports` |
| `reconnect` | `ReconnectAttempt`, `ReconnectDials`, `ReconnectSucceeds`, `ReconnectSlotInUse`, `ReconnectFails`, `ReconnectCancelled` |
| `process`, `flushTicker` | `ProcessTake`, `ListenerReturns`, `ProcessEnds`, `TickerEnds` |
| `stream.Close` | `CloseClaims`, `CloseConnection`, `CloseCancels`, `CloseWaits`, `CloseTimesOut` |
| `Run`, `captureAndOpenStream`, `stream.Open` | `Run` ... `BecomeReady`, `BootstrapFails`, `BootstrapCancelled`, `OpenNotConnected`, `ReusedConnectionFails` |
| `setup`: `fetchSnapshotLSN` | `OpenFetches`, `FetchSnapshotLSN`, `FetchFails` |
| `waitForShutdownOrFatal`, `runGuarded` | `WaitEnds`, `BackgroundPanics` |
| `slot.Info`, `heartbeat.execute` | `SlotInfo`, `HeartbeatExecute` |
| `connector.Close`, `isClosed` | `CloseSignals`, `CloseSlot`, `CloseHeartbeat`, `CloseStream`, `CloseDone` |
| `Supervise` | `AttemptEnds`, `BackoffEnds`, `BuildConnector`, `BuildFails` |
| walsender, network, runtime, other processes (external) | `ConnectionLost`, `WalsenderTimeout`, `OtherCaptures`, `OtherReleases`, `OtherCompletes`, `Signal`, `CancelContext` |

With a snapshot (`fromSnapshot`) `Open` first fetches the LSN of the job. The retries
there have no limit and no context: an attempt succeeds only when the job is completed
(`jobDone`) and the context is not done, and the only way out otherwise is an error
that is not retried. The job may have been left incomplete by this instance's own
`Execute`, and then another instance has to complete it (`OtherCompletes`), which
nothing promises. `RunReturns`, `WaiterReleased` and `Settles` except a `Run` that
stays there for ever (`FetchesForever`).

Delays are left out: an attempt may be the last one whenever it fails. `held` says
that PostgreSQL has not noticed yet that a walsender lost its peer.

### PublicationSetup

Each SQL statement is one step; an instance acts on what it read steps before. A
row filter is an expression and whether it is PostgreSQL's text of it, because the
code compares the text of the configuration with the deparsed one. A failure that
`IsRetryableStartupError` accepts leads to `retry`, any other to `failed`. The first
`Info` may fail for any reason (`infoErr`); `initializePublication` then goes on as
if there were no publication, and `Create`, which asks again, may find one whose
tables and filters are left as they are.

| Code | Model |
|---|---|
| `EnsureTable` | `EnsureTable`, `CreateTable` |
| `ApplyReplicaIdentities`, `CheckReplicaIdentities` | `ReadIdentities`, `AlterIdentity` |
| `initializePublication`, `Create`, `Info` | `LookForPublication`, `publicationAlreadyExisted`, `CreateInfo`, `CreatePublication` |
| `ApplyPublicationFilters` | `ReadPublicationTables`, `mergeDesiredPublicationTables`, `SetTable` |
| `ValidateHeartbeatInPublication`, `GetSnapshotTables` | `Validate` |
| `Supervise`, restart, migrations | `Retry`, `Restart`, `TableAppears` |

## Runs

Passing runs:

| Run | Question | Bounds |
|---|---|---|
| `StreamDelivery` | all safety properties, the inductive invariant and the refinement of `DeliveryContract`, with streamed transactions, messages held unacked, `AckLSN`, and any two faults | three WALs of five records, two transactions, channel of 1, two unacked messages |
| `StreamSyncListener` | delivery, refinement and liveness with heartbeats and a start at a snapshot's LSN, for a listener that acks before it returns | three WALs, channel of 1, two faults |
| `StreamCancel` | what is still delivered after the context ended, and with savepoints in streamed transactions | four WALs, one unacked message, one fault besides the cancellation |
| `SnapshotShared` | all safety properties and liveness without faults: a pair in either mode, and one instance with resnapshot | two chunks, a commit at any time |
| `SnapshotFaults` | what survives a crash and failing statements: no loss for an instance alone, one point in time after a crash, no chunk skipped by an instance alone, a complete export | seven settings of one or two instances, both modes, with and without resnapshot; up to two commits, one crash, two failing statements |
| `Partition` | every row once | five-bit integers, three rows, two pages or a partitioned parent, with and without a key, every strategy |
| `Lifecycle` | shutdown, release of connections and waiters, recovery | supervised with and without reconnect and with one failure (a further attempt to reconnect may fail too), supervised with a snapshot job, or run and closed directly without a failure; channel of 1, one signal, a context that may end at any time |
| `Publication` | set-up by several instances at once | three instances, three tables, five configurations, every combination of existing tables, identities and publication; any first `Info` may fail; one restart |
| `Decode` | decoding through DDL, rollbacks and reconnects | two tables, three definitions, both identities, with and without maps; a key of two values, one text that is stored out of line, NULL |

The bounds are the smallest at which the cases meet: two transactions are needed
to nest and interleave, a third only repeats the relation between two; a channel
of one message makes every send block; two faults let a restart follow a
reconnect; two instances and two chunks let an instance hold one chunk while the
other takes the second, loses its snapshot or finalizes; two attempts of each
retry let one fail and one succeed (the code has 5 and 3). One failure is enough to
take the lifecycle through every error path, and a second attempt through every
retry; three instances let one lose a race against a pair that is half done. Two
tables and one streamed transaction let every message fall between those of the
other. Snapshot, partition, lifecycle and publication runs do not check for
deadlock: these protocols end. Stream and decoder never end, and their runs do
check.

The fault-tolerant forms of the snapshot's properties (`ZeroDataLossAlone`,
`ConsistentAfterCrash`, `NoChunkSkippedAlone`, `ExportCompleteAlone`) and of the
others (`NoConnectionLeft`, `NoCrash`, `RunReturns`, `WaiterReleased`, `Settles`,
`PublicationMatches`, `ExactlyOnce`, `NoWrongValueKeyKept`) say in their condition
where the general form fails; the configurations below show the general form failing
there.

`SlotCatchesUp` is checked for listeners that call `Ack`. `AckLSN` with a commit
LSN confirms the start of the commit record, so the slot stays one commit behind.

Three runs are expected to find a violation. Each documents a disagreement between
the code and its docs (`findings` in `PROJECT.json`):

| Run | What happens |
|---|---|
| `StreamSavepointLoss` | rolling back a savepoint of a streamed transaction drops the transaction |
| `SuperviseRecovery` | after a lost connection the old walsender still holds the slot; 55006 is not retried, the stream counts as corrupted, and `Supervise` returns |
| `SnapshotOnlyPartial` | a chunk that failed stays in progress, and the snapshot_only run returns nil without it |

Four more findings concern passing runs. `Publication` shows that with `pruneTables`
configured tables are added to a live publication, where the comment of the option
(`config.go:18`) says they are not. `Lifecycle`, `Partition` and `SnapshotFaults`
check their property with an exception that the comments and docs do not make; the
configurations `LifecycleFetch`, `PartitionKeyless` and `SnapshotPartialInsert` show
it violated without.

Further configurations, not part of the regular runs, reproduce disagreements met
on the way; run them with `tlc -config X.cfg` on the MC module:

| Configuration | Violates | What happens |
|---|---|---|
| `StreamHeartbeatLoss` | `AtLeastOnce` | the automatic ack of a heartbeat confirms messages the listener still holds (`stream.go:876`; README "it never drops a change") |
| `StreamCancelLoss` | `AtLeastOnce` | a message dropped when the context ends is acked past, and `Close` confirms it (`stream.go:341`; README "it never drops a change") |
| `StreamReplayMetric` | `ReplayIsNotNew` | rows of a transaction never delivered are below the replay floor (`stream.go:891`, comment at 112) |
| `SnapshotHiddenCommit` | `ZeroDataLoss` | a commit in the WAL but not yet visible is below the snapshot's LSN and not in the snapshot (`coordinator.go:231`; `docs/SNAPSHOT_FEATURE.md:51` "Zero Data Loss") |
| `SnapshotLeakedExport` | `ZeroDataLoss` | a failed attempt leaves its export open, and chunks of the new job are read under it (`coordinator.go:125`, comment at 36) |
| `SnapshotCrashingPair` | `ZeroDataLoss` | `finalizeSnapshot` counted the old job's chunks and marks the job of a new coordinator (`snapshot.go:162`, comment "idempotent - safe for multiple workers") |
| `SnapshotCrashingPair` | `CompletedJobKept` (in its place) | a job read as incomplete is deleted after it was completed (`coordinator.go:33`; `docs/SNAPSHOT_FEATURE.md:1845` "takes snapshot only once") |
| `SnapshotPartialInsert` | `NoChunkSkipped` | a worker still on a leaked export reads the first batch of the new job, counts all rows as completed before the next batch is inserted, and completes the job (`coordinator.go:82`; "Zero Data Loss") |
| `SnapshotOrphanChunks` | `JobCreated` | a crash before the job row is saved leaves chunks that block every later snapshot (`coordinator.go:82`; `docs/SNAPSHOT_FEATURE.md:50` "Crash Recovery") |
| `SnapshotTwoReaders` | `OneReaderPerChunk` | a heartbeat notice is dropped, and a live worker's chunk is claimed by another (`worker.go:251`; README "Workers send heartbeat") |
| `SnapshotNoReclaim` | `JobCompletes` | a worker stops when nothing is claimable; a dead worker's chunk is then never reclaimed (`worker.go:164`; `docs/SNAPSHOT_FEATURE.md:1433` "instance-1 or instance-2 reclaims C2") |
| `SnapshotResnapshot` | `JobCompletes` | with resnapshot two instances that start together delete each other's job, again and again (`connector.go:502`) |
| `PartitionSparse` | `SparseKeysHandled` | the slice of ranges is allocated before the sparse check (`coordinator.go:785`; `docs/SNAPSHOT_FEATURE.md:1353`) |
| `PartitionOverflow` | `ExactlyOnce` | the last range is empty next to the largest integer (`coordinator.go:789`; "Zero Data Loss") |
| `PartitionKeyless` | `AlwaysExactlyOnce` | a partitioned table without a key, read by offset: two chunks' queries order rows of equal ctid differently (`coordinator.go:604`; comment at 737 "slow but always works") |
| `LifecycleLeak` | `NothingLeaks` | a signal or a panic ends `Run` while the sink dials; `Close` gives up after its timeout and the new connection stays (`stream.go:558`) |
| `LifecycleTimescale` | `NothingLeaks` | nothing closes the TimescaleDB connection (`hypertable.go:26`) |
| `LifecycleCrash` | `NeverCrashes` | an application closes the connector while it starts: `signal.Notify` comes after the channel was closed, and a signal panics (`connector.go:420`) |
| `LifecycleFetch` | `ContextEndsRun` | the context ends while `Open` fetches the LSN of the snapshot job: every attempt fails and is repeated (`stream.go:1190`; `supervise.go:56` "always ends the loop cleanly") |
| `PublicationStale` | `SnapshotCoversConfig` | a table that `SET TABLE` adds is not in the info the snapshot's tables are taken from (`connector.go:289`) |
| `PublicationRolling` | `EveryConfigPublished` | instances with different tables overwrite each other's list (`row_filter.go:25`) |
| `PublicationInfoError` | `ConfigTakesEffect` | the first `Info` fails, the publication is taken for a new one, and tables and filters are not applied (`connector.go:287`) |
| `DecodeKeyUpdate` | `NoWrongValue` | default identity, an update of the key: a TOAST column that was not sent is taken from the key tuple and reported as NULL (`update.go:109`; README "To guarantee that UPDATE messages include full, correct data") |
| `DecodeRejected` | `ChangeIsDecoded` | a value its codec rejects: the change is logged at debug level and skipped (`stream.go:718`; README "it never drops a change") |

### Fairness

`ReplicationStream!Fairness`: goroutines that can run do run, the walsender goes
on sending and applies status updates, the listener goes on acking, and an attempt
to open or reconnect finally succeeds. Faults are bounded. The ticker of
`flushTicker` justifies fairness of the status updates; nothing is assumed of
keepalives. `SnapshotJob!Fairness`: a process that runs keeps running, timers fire,
leaked connections are collected. A crashed process comes back only in
`RestartSpec`. No fairness is assumed of the heartbeat's tick, of commits or of
faults. `ConnectorLifecycle!Fairness`: every goroutine that can go on goes on, the
listener returns, and PostgreSQL ends the walsender of a lost connection
(`wal_sender_timeout`). Nothing forces a message to arrive, a read to time out, a
caller to signal, cancel or close, or another process to let go of the slot or to
complete a snapshot job; the
timeout of `stream.Close` is counted on only where the sink may reconnect.
`PublicationSetup!Spec`: a process that runs takes its next statement; restarts
and migrations are not promised.

## Proofs

TLC checks the runs' instances; the theorems below hold for every value of the
constants that satisfies the modules' assumptions: any number of records,
instances, chunks, tables, rows, faults and restarts. A condition in the middle
column restricts the settings, never the interleavings.

| Theorem | Condition | Property |
|---|---|---|
| `ReplicationStreamProofs!TypeCorrect` | | `TypeOK` |
| `DeliveryInvariant`, `AtLeastOnceDelivery` | `SafeSetting` | `DeliveryInv`, `AtLeastOnce` |
| `OnlyCommitted`, `OwnCommitContext` | | `OnlyCommittedDelivered`, `CommitContext` |
| `DeliveryInCommitOrder`, `LastIsLast` | `SafeSetting` | `CommitOrder`, `LastMeansComplete` |
| `StreamHonoursContract` | `SafeSetting` | `HonoursContract` |
| `SnapshotJobProofs!TypeCorrect` | | `TypeOK` |
| `CrashesKeepOnePoint`, `SnapshotIsOnePoint` | `Gentle` (in `ConsistentAfterCrash` already) | `ConsistentAfterCrash`, `ConsistentSnapshot` |
| `UndisturbedJobKept` | `Undisturbed` | `CompletedJobKept` |
| `UndisturbedZeroDataLoss` | `Undisturbed`, `Plain` | `ZeroDataLoss` |
| `AloneZeroDataLoss`, `AloneExportComplete`, `AloneEveryChunkRead` | one instance (in the properties) | `ZeroDataLossAlone`, `ExportCompleteAlone`, `NoChunkSkippedAlone` |
| `ChunksPartitionRows` | `Roomy` | `ExactlyOnce` |
| `ConnectorLifecycleProofs!TypeCorrect`, `SupervisedNeverCrashes`, `AlarmsAreReal`, `CloseLeavesNothing` | | `TypeOK`, `NoCrash`, `NoFalseAlarm`, `NoConnectionLeft` |
| `PublicationSetupProofs!TypeCorrect`, `PublicationIsConfigured`, `IdentitiesAreConfigured` | | `TypeOK`, `PublicationMatches`, `IdentitiesMatch` |
| `NobodyElseChanges`, `UsedIsStreamed` | all instances have one configuration | `NoOpinionNoChange`, `WhatItUsesIsStreamed` |
| `PgOutputProofs!TypeCorrect`, `DecodedRowsMatch` | | `TypeOK`, `RowsMatch` |
| `EveryChangeDecoded` | no value is rejected, or `skipMapDecode` | `ChangeIsDecoded` |

`ContextInvariant`, `OrderInvariant`, `LifecycleInvariant` and `CacheIsCurrent`
state inductive invariants that a reader may want to use as they are.

Where a condition is needed a configuration above shows why: the three settings
that `SafeSetting` excludes by `StreamCancelLoss`, `StreamHeartbeatLoss` and
`StreamSavepointLoss`; failing statements, resnapshot, crashes and commits that are
not yet visible by `SnapshotCrashingPair`, `SnapshotLeakedExport`,
`SnapshotPartialInsert`, `SnapshotResnapshot` and `SnapshotHiddenCommit`; sums that
wrap by `PartitionOverflow`; configurations that differ by `PublicationRolling`;
rejected values by `DecodeRejected`. Exceptions within a property are shown by
`PublicationInfoError`, `PartitionKeyless`, `LifecycleLeak`, `LifecycleCrash` and
`DecodeKeyUpdate`.

Every proof that a step keeps an invariant has one case or lemma per action, and
lemmas for the operators the actions are built from.

### The stream

`AtLeastOnce` says that the slot's position is *covered*: every transaction
committed below it is processed. It is not inductive, because the slot takes the
position of a status update, which takes the confirmed position, which takes the
position of whatever message is acked. `DeliveryInv` therefore says that

- every such position is covered (`PositionsCovered`);
- acking any message in the listener's hands, the channel or the blocked send is
  safe once the messages up to it are processed (`QueuesSafe`); the position that a
  commit gives its last message is safe because the rest of the transaction is in
  front of it;
- while streaming, everything committed before the walsender's position is
  processed or in that pipeline, or still in the look-ahead buffer or in the
  buffer of its transaction, and buffered messages still have their own position
  (`WalsenderInv`);
- a stream not opened yet starts empty and at position 0 (`FreshStream`), which
  makes a start at the slot's position safe.

`ContextInv` follows a message from the sink to the listener: what is buffered for
a streamed transaction was streamed for it and no rolled-back savepoint is left in
it, the look-ahead buffer belongs to the commit announced by Begin, and whatever is
queued belongs to a commit and carries its context. It needs no safe setting.

`OrderInv` says that every message in a queue is the *next* one once the messages
before it are handed over: everything committed earlier, and what precedes it in
its transaction, is in front of it. It needs `DeliveryInv` at the point where a
stream resumes, where "everything earlier" is what the slot has passed, and
`ContextInv` to know the commit a message belongs to. From the three, each action
is a step of `DeliveryContract` or leaves its variables alone: handing a message to
the listener is `HandOver` because the message is next, an ack is `Consume`, and
the slot's move is `Release` because its position is covered.

### The snapshot

The invariants are layered, each under the weakest condition it needs:

- `TypeInv` and `ReadInv` (any faults): a completed row was delivered, and a worker
  about to mark a row has delivered it. `NoChunkSkipped` does not follow, since
  rows may still be missing when they are counted.
- `OwnerInv` (any faults): an export has one owner, an instance between the lock
  and the job's row holds the lock, and nobody else mentions its export yet.
- `CoordInv`, `ViewInv` (`Gentle`: no failing statement, no resnapshot): while the
  job's export is open its owner holds the lock and all rows are of that job, and
  nobody removes rows between two batches of a coordinator; so all batches were
  inserted when a row was completed, there is one view from which every completed
  row was read, and a new coordinator finds no reader left.
- `LsnInv`, `SlotInv` (`Plain`: a commit is visible once it is in the WAL): an
  export sees everything before the LSN of its job and before the slot.
- `QuietInv` (`Undisturbed`: also no crash, mode initial): the export stays open
  until the job is completed, hence no coordinator cleans the job up, and every
  stream starts from the LSN of the one job.
- `AloneInv`, `CoverInv`, `ExportInv` (one instance, any faults): it works only on
  rows of its own job, whatever an earlier attempt left, and counts them only when
  all batches are inserted; all it counts as completed was delivered, and read from
  views that hold everything before the job's LSN.

### Partition

Each strategy gives the rows a number (the distance of the key from the smallest,
the page, the rank in key order) and a chunk a slot of numbers of one size; a number
is in exactly one slot, and the number of chunks is just enough. `Cover` says so of
the chunks created, `PartitionInv` counts what has been read. `Roomy` states that
no sum of a key, span or count and a chunk size leaves the integers; `Ordered`
(in `ExactlyOnce`) that the queries of the chunks agree on the order of the rows,
so that a rank belongs to one row. That the
smallest and largest key exist comes from the well-foundedness of `<`.

### Lifecycle

None of the three properties is inductive: each depends on who can still act.
`SignalInv` (Supervise closes only what has returned) and `CloseInv` (who closed the
stream, and how far) say where the callers are, `SinkInv` and `ResultInv` what the
sink can be doing given the result of `Run`, `AlarmInv` why a connection is not
streaming, `ShutInv` and `StreamShutInv` that what was closed stays closed, since
no reconnect is under way and a late `slot.Info` or heartbeat finds the flag set.

### Publication

The instances act on lists that are stale. The key lemma is `WantedTwice`: merging
one configuration into the list it led to changes nothing. Hence what an instance
is about to set is what it would set if it read the list now (`PublicationInv`), and
a publication created in between suits it already. An instance whose first `Info`
failed never sets a list, so it disturbs no other. `IdentityInv` says that what is
not pending is in place, `StreamedInv` that an instance's info is out of date only
in what was added since or pruned. `DeploymentAssumption` and `DatabaseAssumption`
state what configuration and catalog are: tables that exist, filters in the
configuration as text, in the catalog deparsed.

### Decoding

`CacheInv`: the cached definition of every table that the walsender regards as
announced is the one in force, a table the streamed transaction altered is not
announced for ordinary ones, a table it left alone has the same definition if it is
rolled back, and the streaming flag is set exactly within a block. So the decoder
finds each field where the encoder wrote it, which is shown for each kind of
message, and the maps follow column by column. `PgOutputAssumption` says that a
table has at least one column and that their names differ.

### Model-checked only

- Liveness (`EverythingProcessed`, `SlotCatchesUp`, `JobCompletes`, `StreamOpens`,
  `RunReturns`, `CloseReturns`, `WaiterReleased`, `Settles`, `SomeoneStarts`): the
  provers do not handle fairness and `ENABLED`.
- The properties of the violation runs and of the further configurations, which do
  not hold.
- Conditions that TLC's instances include and the theorems do not:
  `ConsistentSnapshot` and `CompletedJobKept` for one instance with resnapshot, and
  `CompletedJobKept` for a pair in mode snapshot_only, where the coordinator may
  leave, and its export with it, before the job is completed (`SnapshotShared`).

## Not modelled

- Metrics and their endpoint, except for `GET /slot`: they report and change
  nothing that these properties depend on.
- Configuration defaults and the validation of single values: pure functions of
  one value.
- Bytes: lengths and counts in messages, the copy that keeps a tuple from aliasing
  the read buffer, the codecs of single types.
- The snapshot's connection pool and decoder cache, which one worker uses at a
  time, and the retry helper, a wrapper of a library whose uses are modelled where
  they decide something.
- The TimescaleDB query that names the chunks of a hypertable.
- The loss of a database session without a crash of its process, which would free
  the advisory lock, and two slots whose names hash to the same lock.
- Elapsed time: a timer may fire whenever it is running.

## Plan

1. `SnapshotJob`: prove `ConsistentSnapshot` and `CompletedJobKept` for one instance
   with resnapshot.
2. `ReplicationStream`: prove from `DeliveryInv` that a status update never moves
   the confirmed position of a process backwards.
3. `ChunkPartition`: state the chunks' bounds (no more than `MaxAlloc`) as a lemma
   for keys that are not sparse.
4. Shorten the proofs that repeat one case per action where a lemma about the
   shape of the step serves several.
