---------------------------- MODULE SnapshotJob ----------------------------
(***************************************************************************)
(* The initial snapshot of pq/snapshot, taken by several instances of the  *)
(* connector that share two tables of the source database (the job row and *)
(* the chunk rows), an advisory lock that elects the coordinator, and the  *)
(* exported snapshot every chunk is read under.  connector.go decides when *)
(* to take it, retries it, and opens the stream at the job's LSN.          *)
(*                                                                         *)
(* PostgreSQL is external.  The application's transactions commit in the   *)
(* order 1, 2, ...; a position is the number of commit records before it.  *)
(* A view is the set of transactions a snapshot sees.  A SQL statement is  *)
(* atomic; the statements of different instances interleave.  An id (of an *)
(* exported snapshot, of a chunk row) is reused only once nothing in the   *)
(* system mentions it, which nobody can tell from a new one.               *)
(***************************************************************************)
EXTENDS Integers, FiniteSets, FiniteSetsExt

CONSTANTS
  Instances,        \* connector processes
  Nobody,           \* holder of the free lock
  Chunks,           \* the chunks, in the order they are inserted
  MaxExecute,       \* attempts of executeSnapshotWithRetry (5 in the code)
  MaxPrepare,       \* attempts of retryOperation (3 in the code)
  MaxExports,       \* bound: export connections the server accepts
  Settings          \* the settings a behaviour may have

\* A setting: how many instances run, the configuration they share, and the
\* bounds on what happens around them.
Setting ==
  [started : Nat \ {0},      \* instances that run
   only : BOOLEAN,           \* snapshot.mode is snapshot_only, not initial
   resnapshot : BOOLEAN,     \* snapshot.resnapshot
   hidden : BOOLEAN,         \* a commit record can be in the WAL before the
                             \* transaction is visible to new snapshots
   writes : Nat,             \* transactions the application commits
   crashes : Nat,            \* crashes of an instance
   errors : Nat]             \* statements that fail after their retries

ASSUME SnapshotAssumption ==
  /\ IsFiniteSet(Instances) /\ Nobody \notin Instances
  /\ Chunks \subseteq Nat \ {0} /\ Chunks # {} /\ IsFiniteSet(Chunks)
  /\ MaxExecute \in Nat \ {0} /\ MaxPrepare \in Nat \ {0}
  /\ MaxExports \in Nat \ {0}
  /\ Settings \subseteq Setting
  /\ \A s \in Settings : s.started <= Cardinality(Instances)

VARIABLES
  setting,    \* the setting of this behaviour
  written,    \* commit records in the WAL
  visible,    \* transactions that new snapshots see
  job,        \* the row of cdc_snapshot_job
  chunks,     \* the rows of cdc_snapshot_chunks
  slot,       \* commits before the replication slot, NoSlot: not created
  lock,       \* the instance whose session holds the advisory lock
  exports,    \* exported snapshots whose transaction is open
  me,         \* each instance's own state
  delivered,  \* the views each chunk was handed to the listener from
  crashes, errors

wal    == <<written, visible>>
db     == <<slot, job, chunks>>
faults == <<setting, crashes, errors>>
vars   == <<setting, written, visible, slot, job, chunks, lock, exports, me, delivered,
            crashes, errors>>

NoSlot == -1
NoJob == [export |-> 0, lsn |-> 0, done |-> 0, completed |-> FALSE]
HasJob == job.export # 0

\* A chunk row.  Its id is its index and the export it was created for;
\* fresh says that heartbeat_at is within the claim timeout.
Row(g) == [gen |-> g, status |-> "pending", fresh |-> FALSE]
NoRow == Row(0)
HasChunks == \E c \in Chunks : chunks[c].gen # 0
NoChunk == <<0, 0>>
IsRow(id) == id # NoChunk /\ chunks[id[1]].gen = id[2]

Phases == {"absent", "down", "start", "reset", "resetJob", "slot", "create",
           "prepare", "lsn", "init", "cleanup", "delete", "export", "chunks",
           "save", "wait", "execute", "claim", "process", "mark", "release",
           "finalize", "complete", "opening", "streaming", "failed", "done",
           "exited"}

\* A connector that has just been built.
Process(phase) ==
  [pc |-> phase, lsn |-> 0, own |-> 0, saved |-> 0, known |-> 0, chunk |-> NoChunk,
   chan |-> NoChunk, active |-> NoChunk, execs |-> 0, preps |-> 0,
   fromSnapshot |-> FALSE, from |-> 0]

Init ==
  /\ setting \in Settings
  /\ written = 0 /\ visible = {}
  /\ slot = NoSlot
  /\ job = NoJob /\ chunks = [c \in Chunks |-> NoRow]
  /\ lock = Nobody /\ exports = {}
  /\ \E running \in SUBSET Instances :
       /\ Cardinality(running) = setting.started
       /\ me = [i \in Instances |->
                 Process(IF i \in running THEN "start" ELSE "absent")]
  /\ delivered = [c \in Chunks |-> {}]
  /\ crashes = 0 /\ errors = 0

At(i, phase) == me[i].pc = phase
Goto(i, phase) == me' = [me EXCEPT ![i].pc = phase]

\* The ids that a row, an open export or an instance still mentions.
UsedIds == {job.export} \cup {chunks[c].gen : c \in Chunks}
           \cup {e.id : e \in exports}
           \cup UNION {{me[i].own, me[i].known, me[i].chunk[2], me[i].chan[2],
                        me[i].active[2]} : i \in Instances}
NewId == CHOOSE n \in 1..(Cardinality(UsedIds) + 1) : n \notin UsedIds

(***************************************************************************)
(* The application (external).  A commit record is written to the WAL, and *)
(* flushed, before other sessions see the transaction.                     *)
(***************************************************************************)
Write ==
  /\ written < setting.writes
  /\ written' = written + 1
  /\ \/ visible' = visible \cup {written'}
     \/ setting.hidden /\ UNCHANGED visible
  /\ UNCHANGED <<db, lock, exports, me, delivered, faults>>

BecomeVisible ==
  /\ \E t \in (1..written) \ visible : visible' = visible \cup {t}
  /\ UNCHANGED <<written, db, lock, exports, me, delivered, faults>>

(***************************************************************************)
(* connector.run up to Prepare, and the retries around it.                 *)
(***************************************************************************)
\* Where run goes on to take a snapshot, and after Execute: in mode initial
\* with the slot and the stream; snapshot_only has neither, and returns nil.
Taking   == IF setting.only THEN "prepare" ELSE "slot"
Executed == IF setting.only THEN "done" ELSE "opening"

\* Mutant: a job that is not completed counts as one.
AnyJobCounts(i) ==
  /\ At(i, "start")
  /\ Goto(i, IF setting.resnapshot THEN "reset"
             ELSE IF HasJob THEN Executed ELSE Taking)
  /\ UNCHANGED <<wal, db, lock, exports, delivered, faults>>

\* shouldTakeSnapshot and shouldTakeSnapshotOnly.  When no snapshot is taken
\* the slot that the snapshot was taken with is found and used.
ShouldTakeSnapshot(i) ==
  /\ At(i, "start")
  /\ Goto(i, IF setting.resnapshot THEN "reset"
             ELSE IF HasJob /\ job.completed THEN Executed ELSE Taking)
  /\ UNCHANGED <<wal, db, lock, exports, delivered, faults>>

\* Mutant: one attempt too many.
OneAttemptTooMany(i) ==
  me' = [me EXCEPT ![i].preps = @ + 1, ![i].execs = 0,
                   ![i].pc = IF me[i].preps <= MaxPrepare
                               THEN Taking ELSE "failed"]

\* retryOperation: the attempt failed; once more from the slot, or run fails.
\* Nothing closes the attempt's export connection.  executeSnapshotOnly has
\* one attempt.
AttemptFails(i) ==
  me' = [me EXCEPT ![i].preps = @ + 1, ![i].execs = 0,
                   ![i].pc = IF ~setting.only /\ me[i].preps + 1 < MaxPrepare
                               THEN "slot" ELSE "failed"]

\* slot.Create, before Prepare so that the server keeps the WAL: it looks
\* for the slot, then creates it.  PostgreSQL waits for the transactions that
\* are not visible yet, and fails the instance that comes second.
SlotInfo(i) ==
  /\ At(i, "slot")
  /\ Goto(i, IF slot = NoSlot THEN "create" ELSE "prepare")
  /\ UNCHANGED <<wal, db, lock, exports, delivered, faults>>

CreateSlot(i) ==
  /\ At(i, "create")
  /\ \/ /\ slot = NoSlot /\ visible = 1..written
        /\ slot' = written /\ Goto(i, "prepare")
     \/ slot # NoSlot /\ AttemptFails(i) /\ UNCHANGED slot
  /\ UNCHANGED <<wal, job, chunks, lock, exports, delivered, faults>>

(***************************************************************************)
(* Prepare: coordinator election, then the coordinator's initialisation.   *)
(***************************************************************************)
\* setupJob: pg_try_advisory_lock, which the session that already holds the
\* lock gets again.
SetupJob(i) ==
  /\ At(i, "prepare")
  /\ IF lock \in {Nobody, i}
       THEN lock' = i /\ Goto(i, "lsn")
       ELSE Goto(i, "wait") /\ UNCHANGED lock
  /\ UNCHANGED <<wal, db, exports, delivered, faults>>

\* getCurrentLSN: pg_current_wal_lsn(), before the snapshot is exported.
GetCurrentLSN(i) ==
  /\ At(i, "lsn")
  /\ me' = [me EXCEPT ![i].lsn = written, ![i].pc = "init"]
  /\ UNCHANGED <<wal, db, lock, exports, delivered, faults>>

\* Mutant: any job that is found is removed.
RemovesAnyJob(i) ==
  /\ At(i, "init")
  /\ Goto(i, IF HasJob THEN "cleanup" ELSE "export")
  /\ UNCHANGED <<wal, db, lock, exports, delivered, faults>>

\* initializeCoordinator: a job that is read as incomplete is removed.
InitializeCoordinator(i) ==
  /\ At(i, "init")
  /\ Goto(i, IF HasJob /\ ~job.completed THEN "cleanup" ELSE "export")
  /\ UNCHANGED <<wal, db, lock, exports, delivered, faults>>

\* cleanupJob: the chunks first, then the job.  The coordinator calls it for
\* an incomplete job, and with resnapshot every instance before anything
\* else (CleanupJobForSlot), whatever the job's state.
CleanupChunks(i) ==
  /\ chunks' = [c \in Chunks |-> NoRow]
  /\ \/ At(i, "cleanup") /\ Goto(i, "delete")
     \/ At(i, "reset") /\ Goto(i, "resetJob")
  /\ UNCHANGED <<wal, slot, job, lock, exports, delivered, faults>>

CleanupJob(i) ==
  /\ job' = NoJob
  /\ \/ At(i, "delete") /\ Goto(i, "export")
     \/ At(i, "resetJob") /\ Goto(i, Taking)
  /\ UNCHANGED <<wal, slot, chunks, lock, exports, delivered, faults>>

\* exportSnapshotTransaction.  An export of an earlier attempt is forgotten
\* with its transaction still open.
ExportSnapshotTransaction(i) ==
  /\ At(i, "export")
  /\ Cardinality(exports) < MaxExports
  /\ exports' = exports \cup {[id |-> NewId, owner |-> i, view |-> visible]}
  /\ me' = [me EXCEPT ![i].own = NewId, ![i].saved = 0, ![i].pc = "chunks"]
  /\ UNCHANGED <<wal, db, lock, delivered, faults>>

\* The chunks that createMetadata inserts next, up to the chunk last.
Batch(i, last) == {c \in Chunks : c > me[i].saved /\ c <= last}

\* createMetadata, first half: the chunk rows, table after table and in batches,
\* each of which is a statement of its own.  A row is UNIQUE, and a batch with
\* one that is there already fails: those before it stay.
SaveChunks(i) ==
  /\ At(i, "chunks")
  /\ \E last \in {c \in Chunks : c > me[i].saved} :
       \/ /\ \A c \in Batch(i, last) : chunks[c].gen = 0
          /\ chunks' = [c \in Chunks |-> IF c \in Batch(i, last)
                                          THEN Row(me[i].own) ELSE chunks[c]]
          /\ me' = [me EXCEPT ![i].saved = last,
                              ![i].pc = IF \E c \in Chunks : c > last THEN "chunks"
                                        ELSE "save"]
       \/ /\ \E c \in Batch(i, last) : chunks[c].gen # 0
          /\ AttemptFails(i)
          /\ UNCHANGED chunks
  /\ UNCHANGED <<wal, slot, job, lock, exports, delivered, faults>>

\* Mutant: the LSN is taken after the snapshot was exported.
SaveJobLateLSN(i) ==
  /\ At(i, "save")
  /\ job' = [NoJob EXCEPT !.export = me[i].own, !.lsn = written]
  /\ me' = [me EXCEPT ![i].pc = "execute",
                      ![i].fromSnapshot = ~setting.only]
  /\ UNCHANGED <<wal, slot, chunks, lock, exports, delivered, faults>>

\* createMetadata, second half: the job row, whose key is the slot.  After
\* Prepare the stream is told to open from the snapshot's LSN.
SaveJob(i) ==
  /\ At(i, "save")
  /\ IF HasJob
       THEN AttemptFails(i) /\ UNCHANGED job
       ELSE /\ job' = [NoJob EXCEPT !.export = me[i].own, !.lsn = me[i].lsn]
            /\ me' = [me EXCEPT ![i].pc = "execute",
                      ![i].fromSnapshot = ~setting.only]
  /\ UNCHANGED <<wal, slot, chunks, lock, exports, delivered, faults>>

\* waitForCoordinator: polls until the job and the chunks are there.
WaitForCoordinator(i) ==
  /\ At(i, "wait")
  /\ HasJob /\ HasChunks
  /\ me' = [me EXCEPT ![i].pc = "execute",
                      ![i].fromSnapshot = ~setting.only]
  /\ UNCHANGED <<wal, db, lock, exports, delivered, faults>>

WaitTimeout(i) ==
  /\ At(i, "wait")
  /\ ~(HasJob /\ HasChunks)
  /\ AttemptFails(i)
  /\ UNCHANGED <<wal, db, lock, exports, delivered, faults>>

(***************************************************************************)
(* Execute: every instance claims chunks and reads them under the export   *)
(* its copy of the job names.                                              *)
(***************************************************************************)
\* Execute loads the job; workerProcess starts a heartbeat for its loop.
LoadJob(i) ==
  /\ At(i, "execute")
  /\ IF HasJob
       THEN me' = [me EXCEPT ![i].known = job.export, ![i].pc = "claim",
                             ![i].chan = NoChunk, ![i].active = NoChunk]
       ELSE AttemptFails(i)
  /\ UNCHANGED <<wal, db, lock, exports, delivered, faults>>

\* The rows buildClaimChunkQuery selects from.
Claimable(c) ==
  /\ chunks[c].gen # 0
  /\ \/ chunks[c].status = "pending"
     \/ chunks[c].status = "in_progress" /\ ~chunks[c].fresh

\* claimNextChunk takes one with the smallest chunk_index, which is counted per
\* table: any of them.  notifyHeartbeat drops the notice when the heartbeat has
\* not taken the previous one yet.
ClaimNextChunk(i) ==
  /\ At(i, "claim")
  /\ LET free == {c \in Chunks : Claimable(c)} IN
     \/ /\ free = {}
        /\ me' = [me EXCEPT ![i].pc = "finalize", ![i].chunk = NoChunk,
                            ![i].chan = NoChunk, ![i].active = NoChunk]
        /\ UNCHANGED chunks
     \/ \E c \in free :
          LET id == <<c, chunks[c].gen>> IN
          /\ chunks' = [chunks EXCEPT ![c].status = "in_progress", ![c].fresh = TRUE]
          /\ me' = [me EXCEPT ![i].chunk = id, ![i].pc = "process",
                              ![i].chan = IF @ = NoChunk THEN id ELSE @]
  /\ UNCHANGED <<wal, slot, job, lock, exports, delivered, faults>>

\* Mutant: the chunk is read without SET TRANSACTION SNAPSHOT.
ReadsCurrentData(i) ==
  /\ At(i, "process")
  /\ delivered' = [delivered EXCEPT ![me[i].chunk[1]] = @ \cup {visible}]
  /\ Goto(i, "mark")
  /\ UNCHANGED <<wal, db, lock, exports, faults>>

\* processChunkWithTransaction: SET TRANSACTION SNAPSHOT fails when the
\* exporting transaction is gone; otherwise the rows go to the listener.
ProcessChunk(i) ==
  /\ At(i, "process")
  /\ \/ \E e \in exports :
          /\ e.id = me[i].known
          /\ delivered' = [delivered EXCEPT ![me[i].chunk[1]] = @ \cup {e.view}]
          /\ Goto(i, "mark")
     \/ /\ \A e \in exports : e.id # me[i].known
        /\ Goto(i, "release")
        /\ UNCHANGED delivered
  /\ UNCHANGED <<wal, db, lock, exports, faults>>

\* Mutant: the row is found by its chunk_index.
SetStatusByIndex(id, status) ==
  chunks' = IF chunks[id[1]].gen # 0
              THEN [chunks EXCEPT ![id[1]].status = status]
              ELSE chunks

\* An UPDATE of a chunk row by its id, whoever holds it now; one that is put
\* back loses its heartbeat_at.
SetStatus(id, status) ==
  chunks' = IF IsRow(id)
              THEN [chunks EXCEPT ![id[1]].status = status,
                                  ![id[1]].fresh = @ /\ status # "pending"]
              ELSE chunks

\* markChunkCompleted; the counter belongs to whatever job the slot has.
MarkChunkCompleted(i) ==
  /\ At(i, "mark")
  /\ SetStatus(me[i].chunk, "completed")
  /\ job' = IF HasJob THEN [job EXCEPT !.done = @ + 1] ELSE job
  /\ Goto(i, "claim")
  /\ UNCHANGED <<wal, slot, lock, exports, delivered, faults>>

\* ErrSnapshotInvalidated leaves the worker's loop: executeSnapshotWithRetry
\* calls Execute again, or gives up.
Invalidated(i) ==
  IF ~setting.only /\ me[i].execs + 1 < MaxExecute
    THEN me' = [me EXCEPT ![i].execs = @ + 1, ![i].pc = "execute"]
    ELSE AttemptFails(i)

\* handleInvalidSnapshot.
ReleaseChunk(i) ==
  /\ At(i, "release")
  /\ SetStatus(me[i].chunk, "pending")
  /\ Invalidated(i)
  /\ UNCHANGED <<wal, slot, job, lock, exports, delivered, faults>>

\* Mutant: the job counts as completed once no chunk is pending.
NonePending(i) ==
  /\ At(i, "finalize")
  /\ Goto(i, IF HasChunks /\ \A c \in Chunks : chunks[c].gen # 0 =>
                                 chunks[c].status # "pending"
               THEN "complete" ELSE Executed)
  /\ UNCHANGED <<wal, db, lock, exports, delivered, faults>>

\* finalizeSnapshot: checkJobCompleted counts the rows of the slot.
CheckJobCompleted(i) ==
  /\ At(i, "finalize")
  /\ LET rows == {c \in Chunks : chunks[c].gen # 0} IN
     Goto(i, IF /\ rows # {}
                /\ \A c \in rows : chunks[c].status = "completed"
               THEN "complete" ELSE Executed)
  /\ UNCHANGED <<wal, db, lock, exports, delivered, faults>>

\* Mutant: only the coordinator marks the job.
CoordinatorMarks(i) ==
  /\ At(i, "complete")
  /\ job' = IF HasJob /\ lock = i THEN [job EXCEPT !.completed = TRUE] ELSE job
  /\ exports' = {e \in exports : e.id # me[i].own}
  /\ lock' = IF lock = i THEN Nobody ELSE lock
  /\ me' = [me EXCEPT ![i].own = 0, ![i].pc = Executed]
  /\ UNCHANGED <<wal, slot, chunks, delivered, faults>>

\* finalizeSnapshot, a statement later: markJobAsCompleted for the slot's
\* job, then closeAllConnections.
MarkJobAsCompleted(i) ==
  /\ At(i, "complete")
  /\ job' = IF HasJob THEN [job EXCEPT !.completed = TRUE] ELSE job
  /\ exports' = {e \in exports : e.id # me[i].own}
  /\ lock' = IF lock = i THEN Nobody ELSE lock
  /\ me' = [me EXCEPT ![i].own = 0, ![i].pc = Executed]
  /\ UNCHANGED <<wal, slot, chunks, delivered, faults>>

(***************************************************************************)
(* Opening the stream.  CaptureSlot waits for the slot; fetchSnapshotLSN   *)
(* retries for as long as the job is not completed.  An instance that took *)
(* no snapshot starts where the slot stands.                               *)
(***************************************************************************)
OpenStream(i) ==
  /\ At(i, "opening")
  /\ \A k \in Instances : ~At(k, "streaming")
  /\ \/ /\ ~me[i].fromSnapshot
        /\ Goto(i, "streaming")
     \/ /\ me[i].fromSnapshot /\ job.completed
        /\ me' = [me EXCEPT ![i].pc = "streaming", ![i].from = job.lsn]
     \/ /\ me[i].fromSnapshot /\ ~HasJob
        /\ Goto(i, "failed")
  /\ UNCHANGED <<wal, db, lock, exports, delivered, faults>>

(***************************************************************************)
(* Heartbeats.  heartbeatWorker runs while its worker's loop does.         *)
(***************************************************************************)
InLoop(i) == me[i].pc \in {"claim", "process", "mark", "release"}

HeartbeatReceive(i) ==
  /\ InLoop(i) /\ me[i].chan # NoChunk
  /\ me' = [me EXCEPT ![i].active = me[i].chan, ![i].chan = NoChunk]
  /\ UNCHANGED <<wal, db, lock, exports, delivered, faults>>

HeartbeatTick(i) ==
  /\ InLoop(i) /\ IsRow(me[i].active) /\ ~chunks[me[i].active[1]].fresh
  /\ chunks' = [chunks EXCEPT ![me[i].active[1]].fresh = TRUE]
  /\ UNCHANGED <<wal, slot, job, lock, exports, me, delivered, faults>>

\* The claim timeout passes.  The configuration asks for several heartbeats
\* within it, so it does not pass for a row with a heartbeat running.
Expire(c) ==
  /\ chunks[c].status = "in_progress" /\ chunks[c].fresh
  /\ \A i \in Instances :
       InLoop(i) => <<c, chunks[c].gen>> \notin {me[i].active, me[i].chan}
  /\ chunks' = [chunks EXCEPT ![c].fresh = FALSE]
  /\ UNCHANGED <<wal, slot, job, lock, exports, me, delivered, faults>>

(***************************************************************************)
(* Failures.                                                               *)
(***************************************************************************)
\* A statement fails for good (retryDBOperation gave up).  A failed read of
\* the job counts as no job; a failed clean-up for resnapshot and a failed
\* release are only logged; a chunk that fails, or is not marked, is left in
\* progress; anything else fails the attempt.
StatementFails(i) ==
  /\ errors < setting.errors
  /\ errors' = errors + 1
  /\ \/ At(i, "start") /\ Goto(i, IF setting.resnapshot THEN "reset" ELSE Taking)
     \/ (At(i, "reset") \/ At(i, "resetJob")) /\ Goto(i, Taking)
     \/ At(i, "init") /\ Goto(i, "export")
     \/ (At(i, "process") \/ At(i, "mark")) /\ Goto(i, "claim")
     \/ At(i, "release") /\ Invalidated(i)
     \/ /\ me[i].pc \in {"slot", "create", "prepare", "lsn", "cleanup", "delete",
                         "export", "chunks", "save", "execute", "claim",
                         "finalize", "complete"}
        /\ AttemptFails(i)
  /\ UNCHANGED <<wal, db, lock, exports, delivered, setting, crashes>>

\* run returned an error: connector.Close closes the snapshotter, and a new
\* connector is started.
Restart(i) ==
  /\ At(i, "failed")
  /\ exports' = {e \in exports : e.id # me[i].own}
  /\ lock' = IF lock = i THEN Nobody ELSE lock
  /\ me' = [me EXCEPT ![i] = Process("start")]
  /\ UNCHANGED <<wal, db, delivered, faults>>

\* snapshot_only: run returned nil, and the application closes the connector
\* and ends.
Exit(i) ==
  /\ At(i, "done")
  /\ exports' = {e \in exports : e.id # me[i].own}
  /\ lock' = IF lock = i THEN Nobody ELSE lock
  /\ me' = [me EXCEPT ![i] = Process("exited")]
  /\ UNCHANGED <<wal, db, delivered, faults>>

\* The process dies; the server ends its sessions.
Crash(i) ==
  /\ me[i].pc \notin {"absent", "down", "exited"} /\ crashes < setting.crashes
  /\ crashes' = crashes + 1
  /\ exports' = {e \in exports : e.owner # i}
  /\ lock' = IF lock = i THEN Nobody ELSE lock
  /\ me' = [me EXCEPT ![i] = Process("down")]
  /\ UNCHANGED <<wal, db, delivered, setting, errors>>

Start(i) ==
  /\ At(i, "down")
  /\ me' = [me EXCEPT ![i] = Process("start")]
  /\ UNCHANGED <<wal, db, lock, exports, delivered, faults>>

\* A forgotten export connection is closed when the runtime collects it.
CollectLeaked ==
  /\ \E e \in exports : /\ me[e.owner].own # e.id
                        /\ exports' = exports \ {e}
  /\ UNCHANGED <<wal, db, lock, me, delivered, faults>>

Step(i) ==
  \/ ShouldTakeSnapshot(i) \/ SlotInfo(i) \/ CreateSlot(i)
  \/ SetupJob(i) \/ GetCurrentLSN(i)
  \/ InitializeCoordinator(i) \/ CleanupChunks(i) \/ CleanupJob(i)
  \/ ExportSnapshotTransaction(i) \/ SaveChunks(i)
  \/ SaveJob(i) \/ WaitForCoordinator(i) \/ LoadJob(i) \/ ClaimNextChunk(i)
  \/ ProcessChunk(i) \/ MarkChunkCompleted(i) \/ ReleaseChunk(i)
  \/ CheckJobCompleted(i) \/ MarkJobAsCompleted(i) \/ OpenStream(i)
  \/ Restart(i) \/ Exit(i)

Next ==
  \/ Write \/ BecomeVisible \/ CollectLeaked
  \/ \E i \in Instances :
       \/ Step(i) \/ WaitTimeout(i) \/ HeartbeatReceive(i) \/ HeartbeatTick(i)
       \/ StatementFails(i) \/ Crash(i) \/ Start(i)
  \/ \E c \in Chunks : Expire(c)

Spec == Init /\ [][Next]_vars

\* Every process that runs keeps running, time passes, and connections that
\* are lost are closed in the end; a process that died need not come back.
Fairness ==
  /\ \A i \in Instances : WF_vars(Step(i)) /\ WF_vars(WaitTimeout(i))
                          /\ WF_vars(HeartbeatReceive(i))
  /\ \A c \in Chunks : WF_vars(Expire(c))
  /\ WF_vars(CollectLeaked)

FairSpec == Spec /\ Fairness

\* The same, where a process that died is always started again.
RestartSpec == FairSpec /\ \A i \in Instances : WF_vars(Start(i))

-----------------------------------------------------------------------------
Ids == {NoChunk} \cup (Chunks \X (Nat \ {0}))

\* Every variable has its type; attempts are counted within the limits of the
\* retries, and a chunk an instance names is one of some job.
TypeOK ==
  /\ setting \in Settings
  /\ written \in 0..setting.writes /\ visible \subseteq 1..written
  /\ slot \in {NoSlot} \cup 0..setting.writes
  /\ job \in [export : Nat, lsn : 0..setting.writes, done : Nat,
              completed : BOOLEAN]
  /\ chunks \in [Chunks -> [gen : Nat, fresh : BOOLEAN,
                            status : {"pending", "in_progress", "completed"}]]
  /\ lock \in Instances \cup {Nobody}
  /\ exports \subseteq [id : Nat \ {0}, owner : Instances,
                        view : SUBSET (1..setting.writes)]
  /\ me \in [Instances ->
       [pc : Phases, lsn : 0..setting.writes, own : Nat, saved : {0} \cup Chunks,
        known : Nat, chunk : Ids, chan : Ids, active : Ids,
        execs : 0..(MaxExecute - 1), preps : 0..MaxPrepare,
        fromSnapshot : BOOLEAN, from : 0..setting.writes]]
  /\ delivered \in [Chunks -> SUBSET SUBSET (1..setting.writes)]
  /\ crashes \in 0..setting.crashes /\ errors \in 0..setting.errors

\* No data is missed between the snapshot and the stream: an instance that
\* streams skips the commits before the slot and before the snapshot's LSN,
\* so every chunk must have reached the listener from a view that holds them.
ZeroDataLoss ==
  \A i \in Instances : At(i, "streaming") =>
    \A c \in Chunks : \E v \in delivered[c] :
      1..Max({slot, me[i].from}) \subseteq v

\* ZeroDataLoss for a connector that runs alone, whatever fails: retries,
\* crashes and resnapshot do not open the stream past what was read.
ZeroDataLossAlone ==
  (setting.started = 1 /\ ~setting.hidden) => ZeroDataLoss

\* A completed snapshot is one point in time: there is a view from which
\* every chunk reached the listener, whichever instances read them.
ConsistentSnapshot ==
  job.completed => \E v \in SUBSET (1..setting.writes) :
                     \A c \in Chunks : v \in delivered[c]

\* ConsistentSnapshot whenever instances may crash but no statement of a live
\* one fails: the coordinator may change, or leave (snapshot_only) while
\* others still read.
ConsistentAfterCrash ==
  (setting.errors = 0 /\ ~setting.resnapshot) => ConsistentSnapshot

\* No chunk is skipped altogether: when the job is completed each chunk has
\* reached the listener at least once, from some view.
NoChunkSkipped ==
  job.completed => \A c \in Chunks : delivered[c] # {}

\* NoChunkSkipped for a connector that runs alone, whatever fails: between two
\* batches of chunks nobody counts the rows, and a table that was left half
\* inserted is never worked on.
NoChunkSkippedAlone == setting.started = 1 => NoChunkSkipped

\* Once a snapshot is completed for the slot it stays so: no coordinator
\* that starts late removes or replaces the job, so it is taken once.
CompletedJobKept ==
  [][job.completed => job'.completed /\ job'.lsn = job.lsn]_vars

\* snapshot_only: an instance that returns nil has exported everything, or
\* another one has ("exit when done").
ExportComplete ==
  \A i \in Instances : At(i, "done") => \A c \in Chunks : delivered[c] # {}

\* The same for an instance on its own none of whose statements fail.
ExportCompleteAlone ==
  (setting.started = 1 /\ setting.errors = 0) => ExportComplete

\* The heartbeat does its work: a chunk that a live worker is reading, and
\* whose row still exists, is not being read by another one too.
OneReaderPerChunk ==
  \A i, k \in Instances :
    (i # k /\ At(i, "process") /\ At(k, "process") /\ IsRow(me[i].chunk))
      => me[i].chunk # me[k].chunk

\* A snapshot is started: the job's row is there in the end, whatever an
\* earlier coordinator left behind.
JobCreated == <>HasJob

\* A snapshot that was started is completed: finalizeSnapshot is reached with
\* every chunk read, whichever instances are left to read them.
JobCompletes == HasJob ~> job.completed

\* In mode initial some instance gets past fetchSnapshotLSN and streams.
StreamOpens == setting.only \/ <>\E i \in Instances : At(i, "streaming")
=============================================================================
