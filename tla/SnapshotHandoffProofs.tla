----------------------- MODULE SnapshotHandoffProofs -----------------------
(***************************************************************************)
(* Proofs about the end of a snapshot: the stream that opens afterwards    *)
(* misses nothing, and the completed job stays.                            *)
(***************************************************************************)
EXTENDS SnapshotJobProofs

(***************************************************************************)
(* Any number of instances that share a snapshot in mode initial, without  *)
(* crashes, failing statements and resnapshot.  Instances still time out,  *)
(* fail the attempts of Prepare, start again, and take chunks from each    *)
(* other.                                                                  *)
(***************************************************************************)
Undisturbed == Gentle /\ setting.crashes = 0 /\ ~setting.only

\* The snapshot holds everything before lsn.
CoveredFrom(lsn) == \E v \in Views : 1..lsn \subseteq v /\ AllFrom(v)

\* The export of a job stays open until the job is completed, so that nobody
\* removes the job.
JobQuiet ==
  /\ (HasJob /\ ~job.completed) => \E e \in exports : e.id = job.export
  /\ job.completed => HasJob
  /\ (Plain /\ job.completed) => CoveredFrom(job.lsn)

Working == KnowsJob \cup {"release"}

\* An instance that works on chunks, or waits to open the stream, does so for
\* the one job there will be.
Quiet(i) ==
  /\ me[i].pc \notin {"cleanup", "delete", "done"}
  /\ me[i].pc \in Working => HasJob
  /\ me[i].pc \in Working \cup {"execute"} => me[i].fromSnapshot
  /\ (me[i].pc = "opening" /\ ~me[i].fromSnapshot) => job.completed
  /\ me[i].pc = "streaming" => job.completed
  /\ me[i].from = 0 \/ (me[i].pc = "streaming" /\ me[i].from = job.lsn)
  /\ (Plain /\ me[i].pc = "complete") => CoveredFrom(job.lsn)

QuietInv == JobQuiet /\ \A i \in Instances : Quiet(i)

\* Initially nobody has begun.
LEMMA InitQuiet == Init => QuietInv
BY DEF Init, QuietInv, JobQuiet, Quiet, Process, NoJob, HasJob, Working, KnowsJob

\* The job goes on: it is not deleted, keeps its LSN, and stays completed.
JobGoesOn ==
  /\ HasJob => HasJob' /\ job'.lsn = job.lsn
  /\ job.completed => job'.completed
  /\ \A c \in Chunks : delivered[c] \subseteq delivered'[c]
  /\ UNCHANGED setting

\* A step of one instance keeps QuietInv if it does for that instance and the
\* job.
LEMMA QuietStep ==
  ASSUME QuietInv, NEW i \in Instances, OthersKept(i), Quiet(i)', JobQuiet',
         JobGoesOn
  PROVE  QuietInv'
<1>1. ASSUME NEW k \in Instances PROVE Quiet(k)'
  <2>1. CASE k = i
    BY <2>1
  <2>2. CASE k # i
    <3>1. me'[k] = me[k] /\ Quiet(k) /\ JobQuiet
      BY <2>2 DEF OthersKept, QuietInv
    <3>2. (HasJob /\ CoveredFrom(job.lsn)) => CoveredFrom(job.lsn)'
      <4>1. \A v \in Views : v \in Views' /\ (AllFrom(v) => AllFrom(v)')
        BY DEF JobGoesOn, Views, AllFrom
      <4>2. HasJob => job'.lsn = job.lsn
        BY DEF JobGoesOn
      <4>3. QED
        BY <4>1, <4>2 DEF CoveredFrom
    <3>3. Plain' => Plain
      BY DEF Plain, JobGoesOn
    <3>4. me[k].pc = "complete" => HasJob
      BY <3>1 DEF Quiet, Working, KnowsJob
    <3>5. me[k].pc = "streaming" => HasJob
      BY <3>1 DEF Quiet, JobQuiet
    <3>6. QED
      BY <3>1, <3>2, <3>3, <3>4, <3>5 DEF Quiet, JobGoesOn
  <2>3. QED
    BY <2>1, <2>2
<1>2. QED
  BY <1>1 DEF QuietInv

\* A step that leaves the job's row alone, and its export open.
LEMMA JobStays ==
  ASSUME JobQuiet, job'.export = job.export, job'.lsn = job.lsn,
         job'.completed = job.completed,
         \A e \in exports : (e.id = job.export /\ ~job.completed) => e \in exports',
         \A c \in Chunks : delivered[c] \subseteq delivered'[c], UNCHANGED setting
  PROVE  JobQuiet' /\ JobGoesOn
<1>1. HasJob' = HasJob /\ Plain' = Plain
  BY DEF HasJob, Plain
<1>2. CoveredFrom(job.lsn) => CoveredFrom(job.lsn)'
  <2>1. \A v \in Views : v \in Views' /\ (AllFrom(v) => AllFrom(v)')
    BY DEF Views, AllFrom
  <2>2. QED
    BY <2>1 DEF CoveredFrom
<1>3. JobGoesOn
  BY <1>1 DEF JobGoesOn
<1>4. QED
  BY <1>1, <1>2, <1>3 DEF JobQuiet

\* A step of an instance that is not at work and does not touch the job.
Elsewhere == Phases \ (Working \cup {"execute", "cleanup", "delete", "done",
                                     "opening", "streaming"})

\* So does a step of an instance that does not work on the snapshot.
LEMMA AsideStep ==
  ASSUME QuietInv, NEW i \in Instances, OthersKept(i), me'[i].pc \in Elsewhere,
         me'[i].from = me[i].from \/ me'[i].from = 0, me[i].pc # "streaming",
         UNCHANGED <<job, delivered, setting>>,
         \A e \in exports : (e.id = job.export /\ ~job.completed) => e \in exports'
  PROVE  QuietInv'
<1>1. JobQuiet' /\ JobGoesOn
  BY JobStays DEF QuietInv
<1>2. Quiet(i)'
  BY DEF QuietInv, Quiet, Elsewhere, Working, KnowsJob
<1>3. QED
  BY <1>1, <1>2, QuietStep

\* Every step of an undisturbed deployment keeps QuietInv.
LEMMA NextQuiet ==
  ASSUME SnapshotInv, Undisturbed, QuietInv, [Next]_vars
  PROVE  QuietInv'
<1>1. /\ TypeInv /\ ReadInv /\ OwnerInv /\ CoordInv /\ ViewInv /\ QuietInv /\ [Next]_vars
      /\ setting.errors = 0 /\ ~setting.resnapshot /\ errors \in 0..setting.errors
      /\ setting.crashes = 0 /\ ~setting.only /\ crashes \in 0..setting.crashes
  BY DEF Undisturbed, Gentle, SnapshotInv, TypeInv, WalType
<1>2. /\ me \in [Instances -> Local]
      /\ delivered \in [Chunks -> SUBSET SUBSET (1..setting.writes)]
      /\ \A i \in Instances : me[i].chunk \in Ids
      /\ job \in [export : Nat, lsn : 0..setting.writes, done : Nat,
                  completed : BOOLEAN]
  BY <1>1 DEF TypeInv, MeType, DbType, ServerType, Local
<1>3. JobQuiet /\ \A i \in Instances : Quiet(i)
  BY <1>1 DEF QuietInv
<1>4. ASSUME NEW i \in Instances, ShouldTakeSnapshot(i) PROVE QuietInv'
  <2>1. UNCHANGED <<job, exports, delivered, setting>>
    BY <1>4 DEF ShouldTakeSnapshot, db, faults
  <2>2. CASE HasJob /\ job.completed
    <3>1. Moves(i, "opening") /\ me'[i].from = 0
      BY <1>4, <1>1, <1>2, <1>3, <2>2, GotoMoves
      DEF ShouldTakeSnapshot, At, Executed, Quiet
    <3>2. Quiet(i)'
      BY <2>1, <2>2, <3>1 DEF Quiet, Moves, Working, KnowsJob
    <3>3. QED
      BY <1>1, <1>3, <2>1, <3>1, <3>2, JobStays, QuietStep DEF Moves
  <2>3. CASE ~(HasJob /\ job.completed)
    <3>1. /\ Moves(i, "slot") /\ me'[i].from = me[i].from
          /\ me[i].pc # "streaming"
      BY <1>4, <1>1, <1>2, <2>3, GotoMoves DEF ShouldTakeSnapshot, At, Taking
    <3>2. QED
      BY <1>1, <2>1, <3>1, AsideStep
      DEF Moves, Elsewhere, Phases, Working, KnowsJob
  <2>4. QED
    BY <2>2, <2>3
<1>5. ASSUME NEW i \in Instances, SlotInfo(i) PROVE QuietInv'
  <2>1. /\ \E p \in {"create", "prepare"} : Moves(i, p)
        /\ me'[i].from = me[i].from /\ me[i].pc # "streaming"
    BY <1>5, <1>1, <1>2, GotoMoves DEF SlotInfo, At
  <2>2. UNCHANGED <<job, exports, delivered, setting>>
    BY <1>5 DEF SlotInfo, db, faults
  <2>3. QED
    BY <1>1, <1>2, <2>1, <2>2, AsideStep DEF Moves, Elsewhere, Phases, Working, KnowsJob
<1>6. ASSUME NEW i \in Instances, CreateSlot(i) PROVE QuietInv'
  <2>1. /\ \E p \in {"prepare", "slot", "failed"} : Moves(i, p)
        /\ me'[i].from = me[i].from /\ me[i].pc # "streaming"
    BY <1>6, <1>1, <1>2, GotoMoves, FailMoves DEF CreateSlot, At
  <2>2. UNCHANGED <<job, exports, delivered, setting>>
    BY <1>6 DEF CreateSlot, db, faults
  <2>3. QED
    BY <1>1, <1>2, <2>1, <2>2, AsideStep DEF Moves, Elsewhere, Phases, Working, KnowsJob
<1>7. ASSUME NEW i \in Instances, SetupJob(i) PROVE QuietInv'
  <2>1. /\ \E p \in {"lsn", "wait"} : Moves(i, p)
        /\ me'[i].from = me[i].from /\ me[i].pc # "streaming"
    BY <1>7, <1>1, <1>2, GotoMoves DEF SetupJob, At
  <2>2. UNCHANGED <<job, exports, delivered, setting>>
    BY <1>7 DEF SetupJob, db, faults
  <2>3. QED
    BY <1>1, <1>2, <2>1, <2>2, AsideStep DEF Moves, Elsewhere, Phases, Working, KnowsJob
<1>8. ASSUME NEW i \in Instances, GetCurrentLSN(i) PROVE QuietInv'
  <2>1. /\ OthersKept(i) /\ me'[i].pc = "init" /\ me'[i].from = me[i].from
        /\ me[i].pc # "streaming"
    <3>1. me' = [me EXCEPT ![i] = [me[i] EXCEPT !.lsn = written, !.pc = "init"]]
      BY <1>8 DEF GetCurrentLSN
    <3>2. QED
      BY <1>8, <1>2, <3>1 DEF GetCurrentLSN, At, OthersKept, Local
  <2>2. UNCHANGED <<job, exports, delivered, setting>>
    BY <1>8 DEF GetCurrentLSN, db, faults
  <2>3. QED
    BY <1>1, <2>1, <2>2, AsideStep DEF Elsewhere, Phases, Working, KnowsJob
<1>9. ASSUME NEW i \in Instances, InitializeCoordinator(i) PROVE QuietInv'
  <2>1. lock = i /\ me[i].pc = "init"
    BY <1>9, <1>1 DEF InitializeCoordinator, At, OwnerInv, LockPhases
  <2>2. ~(HasJob /\ ~job.completed)
    <3>1. \A e \in exports : e.id # job.export
      BY <1>1, <2>1, LockedOut DEF AfterSave
    <3>2. QED
      BY <1>3, <3>1 DEF JobQuiet
  <2>3. /\ Moves(i, "export") /\ me'[i].from = me[i].from
        /\ UNCHANGED <<job, exports, delivered, setting>>
    BY <1>9, <1>2, <2>2, GotoMoves DEF InitializeCoordinator, db, faults
  <2>4. QED
    BY <1>1, <2>1, <2>3, AsideStep DEF Moves, Elsewhere, Phases, Working, KnowsJob
<1>10. ASSUME NEW i \in Instances, CleanupChunks(i) PROVE QuietInv'
  BY <1>10, <1>1, <1>3 DEF CleanupChunks, At, Quiet, CoordInv
<1>11. ASSUME NEW i \in Instances, CleanupJob(i) PROVE QuietInv'
  BY <1>11, <1>1, <1>3 DEF CleanupJob, At, Quiet, CoordInv
<1>12. ASSUME NEW i \in Instances, ExportSnapshotTransaction(i) PROVE QuietInv'
  <2> DEFINE n == NewId
             x == [id |-> n, owner |-> i, view |-> visible]
  <2>1. /\ exports' = exports \cup {x} /\ me[i].pc = "export"
        /\ UNCHANGED <<job, delivered, setting>>
        /\ me' = [me EXCEPT ![i] = [me[i] EXCEPT !.own = n, !.saved = 0,
                                               !.pc = "chunks"]]
    BY <1>12 DEF ExportSnapshotTransaction, At, db, faults
  <2> HIDE DEF n, x
  <2>2. OthersKept(i) /\ me'[i].pc = "chunks" /\ me'[i].from = me[i].from
    BY <1>2, <2>1 DEF OthersKept, Local
  <2>3. QED
    BY <1>1, <2>1, <2>2, AsideStep DEF Elsewhere, Phases, Working, KnowsJob
<1>13. ASSUME NEW i \in Instances, SaveChunks(i) PROVE QuietInv'
  <2>1. /\ \E p \in {"chunks", "save", "slot", "failed"} : Moves(i, p)
        /\ me'[i].from = me[i].from /\ me[i].pc # "streaming"
    <3>1. me[i].pc = "chunks"
      BY <1>13 DEF SaveChunks, At
    <3>2. QED
      BY <1>13, <1>2, <3>1, SaveMoves DEF Inserts
  <2>2. UNCHANGED <<job, exports, delivered, setting>>
    BY <1>13 DEF SaveChunks, db, faults
  <2>3. QED
    BY <1>1, <1>2, <2>1, <2>2, AsideStep DEF Moves, Elsewhere, Phases, Working, KnowsJob
<1>14. ASSUME NEW i \in Instances, SaveJob(i) PROVE QuietInv'
  <2>1. me[i].pc = "save" /\ UNCHANGED <<exports, delivered, setting>>
    BY <1>14 DEF SaveJob, At, faults
  <2>2. CASE HasJob
    <3>1. /\ \E p \in {"slot", "failed"} : Moves(i, p)
          /\ me'[i].from = me[i].from /\ UNCHANGED job
      BY <1>14, <1>2, <2>2, FailMoves DEF SaveJob
    <3>2. QED
      BY <1>1, <2>1, <3>1, AsideStep DEF Moves, Elsewhere, Phases, Working, KnowsJob
  <2>3. CASE ~HasJob
    <3>1. /\ Moves(i, "execute") /\ me'[i].from = me[i].from
          /\ me'[i].fromSnapshot = ~setting.only
      BY <1>14, <1>2, <2>3, ExecuteMoves DEF SaveJob
    <3>2. /\ job'.export = me[i].own /\ ~job'.completed
      BY <1>14, <2>3 DEF SaveJob, NoJob
    <3>3. \E e \in exports' : e.id = job'.export
      BY <1>1, <2>1, <3>2 DEF OwnerInv, Unsaved
    <3>4. ~job.completed
      BY <1>3, <2>3 DEF JobQuiet
    <3>5. JobQuiet' /\ JobGoesOn
      BY <2>1, <2>3, <3>2, <3>3, <3>4 DEF JobQuiet, JobGoesOn
    <3>6. me'[i].fromSnapshot /\ me'[i].from = 0
      BY <1>1, <1>3, <2>1, <3>1 DEF Quiet
    <3>7. Quiet(i)'
      BY <3>1, <3>6 DEF Quiet, Moves, Working, KnowsJob
    <3>8. QED
      BY <1>1, <3>1, <3>5, <3>7, QuietStep DEF Moves
  <2>4. QED
    BY <2>2, <2>3
<1>15. ASSUME NEW i \in Instances, WaitForCoordinator(i) PROVE QuietInv'
  <2>1. /\ Moves(i, "execute") /\ me'[i].from = me[i].from /\ me[i].pc = "wait"
        /\ me'[i].fromSnapshot = ~setting.only
    BY <1>15, <1>2, ExecuteMoves DEF WaitForCoordinator, At
  <2>2. UNCHANGED <<job, exports, delivered, setting>>
    BY <1>15 DEF WaitForCoordinator, db, faults
  <2>3. me'[i].fromSnapshot /\ me'[i].from = 0
    BY <1>1, <1>3, <2>1 DEF Quiet
  <2>4. Quiet(i)'
    BY <2>1, <2>3 DEF Quiet, Moves, Working, KnowsJob
  <2>5. QED
    BY <1>1, <1>3, <2>1, <2>2, <2>4, JobStays, QuietStep DEF Moves
<1>16. ASSUME NEW i \in Instances, LoadJob(i) PROVE QuietInv'
  <2>1. me[i].pc = "execute" /\ UNCHANGED <<job, exports, delivered, setting>>
    BY <1>16 DEF LoadJob, At, db, faults
  <2>2. CASE HasJob
    <3>1. me' = [me EXCEPT ![i] = [me[i] EXCEPT !.known = job.export, !.pc = "claim",
                                    !.chan = NoChunk, !.active = NoChunk]]
      BY <1>16, <2>2 DEF LoadJob
    <3>2. /\ OthersKept(i) /\ me'[i].pc = "claim" /\ me'[i].from = me[i].from
          /\ me'[i].fromSnapshot = me[i].fromSnapshot
      BY <1>2, <3>1 DEF OthersKept, Local
    <3>3. Quiet(i)'
      BY <1>3, <2>1, <2>2, <3>2 DEF Quiet, HasJob
    <3>4. QED
      BY <1>1, <1>3, <2>1, <3>2, <3>3, JobStays, QuietStep
  <2>3. CASE ~HasJob
    <3>1. /\ \E p \in {"slot", "failed"} : Moves(i, p)
          /\ me'[i].from = me[i].from
      BY <1>16, <1>2, <2>3, FailMoves DEF LoadJob
    <3>2. QED
      BY <1>1, <2>1, <3>1, AsideStep DEF Moves, Elsewhere, Phases, Working, KnowsJob
  <2>4. QED
    BY <2>2, <2>3
<1>17. ASSUME NEW i \in Instances, ClaimNextChunk(i) PROVE QuietInv'
  <2>1. /\ OthersKept(i) /\ me'[i].pc \in {"process", "finalize"} /\ me'[i].from = me[i].from
        /\ me'[i].fromSnapshot = me[i].fromSnapshot /\ me[i].pc \in {"claim"}
    BY <1>17, <1>1, <1>2, ClaimMoves DEF ClaimNextChunk, At, Moves, Claims, ClaimsNothing
  <2>2. UNCHANGED <<job, exports, setting>> /\ \A c \in Chunks : delivered[c] \subseteq delivered'[c]
    BY <1>17, <1>2 DEF ClaimNextChunk, db, faults
  <2>3. Quiet(i)'
    BY <1>3, <2>1, <2>2 DEF Quiet, Working, KnowsJob, HasJob
  <2>4. QED
    BY <1>1, <1>3, <2>1, <2>2, <2>3, JobStays, QuietStep
<1>18. ASSUME NEW i \in Instances, ProcessChunk(i) PROVE QuietInv'
  <2>1. /\ OthersKept(i) /\ me'[i].pc \in {"mark", "release"} /\ me'[i].from = me[i].from
        /\ me'[i].fromSnapshot = me[i].fromSnapshot /\ me[i].pc \in {"process"}
    BY <1>18, <1>1, <1>2, GotoMoves DEF ProcessChunk, At, Moves
  <2>2. UNCHANGED <<job, exports, setting>> /\ \A c \in Chunks : delivered[c] \subseteq delivered'[c]
    BY <1>18, <1>2 DEF ProcessChunk, db, faults
  <2>3. Quiet(i)'
    BY <1>3, <2>1, <2>2 DEF Quiet, Working, KnowsJob, HasJob
  <2>4. QED
    BY <1>1, <1>3, <2>1, <2>2, <2>3, JobStays, QuietStep
<1>19. ASSUME NEW i \in Instances, MarkChunkCompleted(i) PROVE QuietInv'
  <2>1. /\ Moves(i, "claim") /\ me'[i].from = me[i].from /\ me[i].pc = "mark"
        /\ me'[i].fromSnapshot = me[i].fromSnapshot
    BY <1>19, <1>2, GotoMoves DEF MarkChunkCompleted, At
  <2>2. /\ UNCHANGED <<exports, delivered, setting>>
        /\ job'.export = job.export /\ job'.lsn = job.lsn
        /\ job'.completed = job.completed
    BY <1>19, <1>2 DEF MarkChunkCompleted, faults
  <2>3. Quiet(i)'
    BY <1>3, <2>1, <2>2 DEF Quiet, Moves, Working, KnowsJob, HasJob
  <2>4. QED
    BY <1>1, <1>3, <2>1, <2>2, <2>3, JobStays, QuietStep DEF Moves
<1>20. ASSUME NEW i \in Instances, ReleaseChunk(i) PROVE QuietInv'
  <2>1. /\ \E p \in {"execute", "slot", "failed"} : Moves(i, p)
        /\ me'[i].from = me[i].from /\ me[i].pc = "release"
        /\ me'[i].fromSnapshot = me[i].fromSnapshot
    BY <1>20, <1>2, AgainMoves DEF ReleaseChunk, At
  <2>2. UNCHANGED <<job, exports, delivered, setting>>
    BY <1>20 DEF ReleaseChunk, faults
  <2>3. Quiet(i)'
    BY <1>3, <2>1, <2>2 DEF Quiet, Moves, Working, KnowsJob
  <2>4. QED
    BY <1>1, <1>3, <2>1, <2>2, <2>3, JobStays, QuietStep DEF Moves
<1>21. ASSUME NEW i \in Instances, CheckJobCompleted(i) PROVE QuietInv'
  <2>1. /\ UNCHANGED <<job, chunks, exports, delivered, setting>>
        /\ me[i].pc = "finalize" /\ HasJob /\ me[i].fromSnapshot
    BY <1>21, <1>3 DEF CheckJobCompleted, At, db, faults, Quiet, Working, KnowsJob
  <2>2. CASE Goto(i, "opening")
    <3>1. /\ Moves(i, "opening") /\ me'[i].from = me[i].from
          /\ me'[i].fromSnapshot = me[i].fromSnapshot
      BY <1>2, <2>2, GotoMoves
    <3>2. Quiet(i)'
      BY <1>3, <2>1, <3>1 DEF Quiet, Moves, Working, KnowsJob
    <3>3. QED
      BY <1>1, <1>3, <2>1, <3>1, <3>2, JobStays, QuietStep DEF Moves
  <2>3. CASE /\ Goto(i, "complete")
             /\ \E c \in Chunks : chunks[c].gen # 0
             /\ \A c \in Chunks : chunks[c].gen # 0 => chunks[c].status = "completed"
    <3>1. /\ Moves(i, "complete") /\ me'[i].from = me[i].from
          /\ me'[i].fromSnapshot = me[i].fromSnapshot
      BY <1>2, <2>3, GotoMoves
    <3>2. PICK v \in Views : Common(v)
      BY <1>1 DEF ViewInv
    <3>3. AllFrom(v)
      BY <2>3, <3>2 DEF Common, Whole, AllFrom
    <3>4. Plain => 1..job.lsn \subseteq v
      BY <2>1, <3>2 DEF Common
    <3>5. Plain' => CoveredFrom(job.lsn)'
      BY <2>1, <3>2, <3>3, <3>4 DEF CoveredFrom, AllFrom, Views, Plain
    <3>6. Quiet(i)'
      BY <1>3, <2>1, <3>1, <3>5 DEF Quiet, Moves, HasJob
    <3>7. QED
      BY <1>1, <1>3, <2>1, <3>1, <3>6, JobStays, QuietStep DEF Moves
  <2>4. QED
    BY <1>21, <1>1, <2>2, <2>3 DEF CheckJobCompleted, Executed
<1>22. ASSUME NEW i \in Instances, MarkJobAsCompleted(i) PROVE QuietInv'
  <2>1. /\ me' = [me EXCEPT ![i] = [me[i] EXCEPT !.own = 0, !.pc = "opening"]]
        /\ me[i].pc = "complete" /\ UNCHANGED <<chunks, delivered, setting>>
        /\ HasJob /\ me[i].fromSnapshot
    BY <1>22, <1>1, <1>3
    DEF MarkJobAsCompleted, At, faults, Executed, Quiet, Working, KnowsJob
  <2>2. job'.export = job.export /\ job'.lsn = job.lsn /\ job'.completed
    BY <1>22, <1>2, <2>1 DEF MarkJobAsCompleted
  <2>3. /\ OthersKept(i) /\ me'[i].pc = "opening" /\ me'[i].from = me[i].from
        /\ me'[i].fromSnapshot = me[i].fromSnapshot
    BY <1>2, <2>1 DEF OthersKept, Local
  <2>4. HasJob' /\ JobGoesOn
    BY <2>1, <2>2 DEF HasJob, JobGoesOn
  <2>5. Plain' => CoveredFrom(job.lsn)'
    BY <1>3, <2>1, <2>2 DEF Quiet, CoveredFrom, AllFrom, Views, Plain
  <2>6. JobQuiet'
    BY <2>2, <2>4, <2>5 DEF JobQuiet
  <2>7. Quiet(i)'
    BY <1>3, <2>1, <2>3 DEF Quiet, Working, KnowsJob
  <2>8. QED
    BY <1>1, <2>3, <2>4, <2>6, <2>7, QuietStep
<1>23. ASSUME NEW i \in Instances, OpenStream(i) PROVE QuietInv'
  <2>1. UNCHANGED <<job, exports, delivered, setting>> /\ me[i].pc = "opening"
    BY <1>23 DEF OpenStream, At, db, faults
  <2>2. CASE ~me[i].fromSnapshot /\ Goto(i, "streaming")
    <3>1. Moves(i, "streaming") /\ me'[i].from = me[i].from
      BY <1>2, <2>2, GotoMoves
    <3>2. Quiet(i)'
      BY <1>3, <2>1, <2>2, <3>1 DEF Quiet, Moves, Working, KnowsJob
    <3>3. QED
      BY <1>1, <1>3, <2>1, <3>1, <3>2, JobStays, QuietStep DEF Moves
  <2>3. CASE /\ job.completed
             /\ me' = [me EXCEPT ![i].pc = "streaming", ![i].from = job.lsn]
    <3>1. me' = [me EXCEPT ![i] = [me[i] EXCEPT !.pc = "streaming", !.from = job.lsn]]
      BY <2>3
    <3>2. OthersKept(i) /\ me'[i].pc = "streaming" /\ me'[i].from = job.lsn
      BY <1>2, <3>1 DEF OthersKept, Local
    <3>3. Quiet(i)'
      BY <2>1, <2>3, <3>2 DEF Quiet, Working, KnowsJob
    <3>4. QED
      BY <1>1, <1>3, <2>1, <3>2, <3>3, JobStays, QuietStep
  <2>4. CASE Goto(i, "failed")
    <3>1. Moves(i, "failed") /\ me'[i].from = me[i].from
      BY <1>2, <2>4, GotoMoves
    <3>2. QED
      BY <1>1, <2>1, <3>1, AsideStep DEF Moves, Elsewhere, Phases, Working, KnowsJob
  <2>5. QED
    BY <1>23, <2>2, <2>3, <2>4 DEF OpenStream
<1>24. ASSUME NEW i \in Instances, Restart(i) PROVE QuietInv'
  <2>1. /\ OthersKept(i) /\ me'[i].pc = "start" /\ me'[i].from = 0
        /\ me[i].pc = "failed"
    BY <1>24, <1>2, ProcessMovesOn DEF Restart, At
  <2>2. /\ UNCHANGED <<job, delivered, setting>>
        /\ exports' = {e \in exports : e.id # me[i].own}
    BY <1>24 DEF Restart, db, faults
  <2>3. \A e \in exports : e.id = job.export => e.id # me[i].own
    BY <1>1, <2>1 DEF CoordInv, Coordinates, OwnerInv, ExportsOwned, AfterSave
  <2>4. QED
    BY <1>1, <2>1, <2>2, <2>3, AsideStep DEF Elsewhere, Phases, Working, KnowsJob
<1>25. ASSUME NEW i \in Instances, Exit(i) PROVE QuietInv'
  BY <1>25, <1>3 DEF Exit, At, Quiet
<1>26. ASSUME NEW i \in Instances, WaitTimeout(i) PROVE QuietInv'
  <2>1. /\ \E p \in {"slot", "failed"} : Moves(i, p)
        /\ me'[i].from = me[i].from /\ me[i].pc # "streaming"
    BY <1>26, <1>1, <1>2, FailMoves DEF WaitTimeout, At
  <2>2. UNCHANGED <<job, exports, delivered, setting>>
    BY <1>26 DEF WaitTimeout, db, faults
  <2>3. QED
    BY <1>1, <1>2, <2>1, <2>2, AsideStep DEF Moves, Elsewhere, Phases, Working, KnowsJob
<1>27. ASSUME NEW i \in Instances, HeartbeatReceive(i) PROVE QuietInv'
  <2>1. /\ \E p \in {"claim", "process", "mark", "release"} : p = me[i].pc /\ Moves(i, p)
        /\ me'[i].from = me[i].from /\ me'[i].fromSnapshot = me[i].fromSnapshot
    BY <1>27, <1>2, HeartbeatMoves
  <2>2. UNCHANGED <<job, exports, delivered, setting>>
    BY <1>27 DEF HeartbeatReceive, db, faults
  <2>3. Quiet(i)'
    BY <1>3, <2>1, <2>2 DEF Quiet, Moves, HasJob
  <2>4. QED
    BY <1>1, <1>3, <2>1, <2>2, <2>3, JobStays, QuietStep DEF Moves
<1>28. ASSUME NEW i \in Instances, HeartbeatTick(i) PROVE QuietInv'
  <2>1. UNCHANGED <<job, exports, me, delivered, setting>>
    BY <1>28 DEF HeartbeatTick, db, faults
  <2>2. QED
    BY <1>1, <2>1
    DEF QuietInv, JobQuiet, Quiet, HasJob, Plain, CoveredFrom, Views, AllFrom
<1>29. ASSUME NEW i \in Instances, StatementFails(i) PROVE QuietInv'
  BY <1>29, <1>1 DEF StatementFails
<1>30. ASSUME NEW i \in Instances, Crash(i) PROVE QuietInv'
  BY <1>30, <1>1 DEF Crash
<1>31. ASSUME NEW i \in Instances, Start(i) PROVE QuietInv'
  <2>1. /\ OthersKept(i) /\ me'[i].pc = "start" /\ me'[i].from = 0
        /\ me[i].pc = "down"
    BY <1>31, <1>2, ProcessMovesOn DEF Start, At
  <2>2. UNCHANGED <<job, exports, delivered, setting>>
    BY <1>31 DEF Start, db, faults
  <2>3. QED
    BY <1>1, <2>1, <2>2, AsideStep DEF Elsewhere, Phases, Working, KnowsJob
<1>32. ASSUME NEW c \in Chunks, Expire(c) PROVE QuietInv'
  <2>1. UNCHANGED <<job, exports, me, delivered, setting>>
    BY <1>32 DEF Expire, db, faults
  <2>2. QED
    BY <1>1, <2>1
    DEF QuietInv, JobQuiet, Quiet, HasJob, Plain, CoveredFrom, Views, AllFrom
<1>33. CASE Write
  <2>1. UNCHANGED <<job, exports, me, delivered, setting>>
    BY <1>33 DEF Write, db, faults
  <2>2. QED
    BY <1>1, <2>1
    DEF QuietInv, JobQuiet, Quiet, HasJob, Plain, CoveredFrom, Views, AllFrom
<1>34. CASE BecomeVisible
  <2>1. UNCHANGED <<job, exports, me, delivered, setting>>
    BY <1>34 DEF BecomeVisible, db, faults
  <2>2. QED
    BY <1>1, <2>1
    DEF QuietInv, JobQuiet, Quiet, HasJob, Plain, CoveredFrom, Views, AllFrom
<1>35. CASE CollectLeaked
  <2>1. UNCHANGED <<job, me, delivered, setting>>
    BY <1>35 DEF CollectLeaked, db, faults
  <2>2. \A e \in exports : e.id = job.export => e \in exports'
    BY <1>35, <1>1 DEF CollectLeaked, CoordInv, Coordinates
  <2>3. JobQuiet'
    BY <1>3, <2>1, <2>2, JobStays
  <2>4. \A i \in Instances : Quiet(i)'
    BY <1>3, <2>1 DEF Quiet, HasJob, Plain, CoveredFrom, Views, AllFrom
  <2>5. QED
    BY <2>3, <2>4 DEF QuietInv
<1>36. CASE UNCHANGED vars
  <2>1. UNCHANGED <<job, exports, me, delivered, setting>>
    BY <1>36 DEF vars, db, faults
  <2>2. QED
    BY <1>1, <2>1
    DEF QuietInv, JobQuiet, Quiet, HasJob, Plain, CoveredFrom, Views, AllFrom
<1>37. QED
  BY <1>1, <1>4, <1>5, <1>6, <1>7, <1>8, <1>9, <1>10, <1>11, <1>12, <1>13,
     <1>14, <1>15, <1>16, <1>17, <1>18, <1>19, <1>20, <1>21, <1>22, <1>23,
     <1>24, <1>25, <1>26, <1>27, <1>28, <1>29, <1>30, <1>31, <1>32, <1>33,
     <1>34, <1>35, <1>36
  DEF Next, Step

\* The steps that write the job's row.
LEMMA JobWriters ==
  ASSUME [Next]_vars
  PROVE  \/ UNCHANGED job
         \/ \E i \in Instances : \/ CleanupJob(i) \/ SaveJob(i)
                                 \/ MarkChunkCompleted(i) \/ MarkJobAsCompleted(i)
<1>1. ASSUME NEW i \in Instances, Step(i)
      PROVE  \/ UNCHANGED job
             \/ CleanupJob(i) \/ SaveJob(i) \/ MarkChunkCompleted(i)
             \/ MarkJobAsCompleted(i)
  <2>1. CASE \/ ShouldTakeSnapshot(i) \/ SlotInfo(i) \/ CreateSlot(i)
             \/ SetupJob(i) \/ GetCurrentLSN(i) \/ InitializeCoordinator(i)
             \/ CleanupChunks(i)
    BY <2>1
    DEF ShouldTakeSnapshot, SlotInfo, CreateSlot, SetupJob, GetCurrentLSN,
        InitializeCoordinator, CleanupChunks, db
  <2>2. CASE \/ ExportSnapshotTransaction(i) \/ SaveChunks(i)
             \/ WaitForCoordinator(i) \/ LoadJob(i) \/ ClaimNextChunk(i)
             \/ ProcessChunk(i)
    BY <2>2
    DEF ExportSnapshotTransaction, SaveChunks, WaitForCoordinator, LoadJob,
        ClaimNextChunk, ProcessChunk, db
  <2>3. CASE \/ ReleaseChunk(i) \/ CheckJobCompleted(i) \/ OpenStream(i)
             \/ Restart(i) \/ Exit(i)
    BY <2>3 DEF ReleaseChunk, CheckJobCompleted, OpenStream, Restart, Exit, db
  <2>4. QED
    BY <1>1, <2>1, <2>2, <2>3 DEF Step
<1>2. ASSUME NEW i \in Instances,
             \/ WaitTimeout(i) \/ HeartbeatReceive(i) \/ HeartbeatTick(i)
             \/ StatementFails(i) \/ Crash(i) \/ Start(i)
      PROVE  UNCHANGED job
  BY <1>2 DEF WaitTimeout, HeartbeatReceive, HeartbeatTick, StatementFails, Crash,
              Start, db
<1>3. ASSUME NEW c \in Chunks, Expire(c) PROVE UNCHANGED job
  BY <1>3 DEF Expire
<1>4. CASE Write \/ BecomeVisible \/ CollectLeaked \/ UNCHANGED vars
  BY <1>4 DEF Write, BecomeVisible, CollectLeaked, vars, db
<1>5. QED
  BY <1>1, <1>2, <1>3, <1>4 DEF Next

\* No step of it takes back a completed job.
LEMMA NextKept ==
  ASSUME SnapshotInv, Undisturbed, QuietInv, [Next]_vars
  PROVE  job.completed => job'.completed /\ job'.lsn = job.lsn
<1>1. job \in [export : Nat, lsn : 0..setting.writes, done : Nat, completed : BOOLEAN]
  BY DEF SnapshotInv, TypeInv, DbType
<1>2. ASSUME NEW i \in Instances, CleanupJob(i) PROVE FALSE
  BY <1>2 DEF CleanupJob, At, QuietInv, Quiet, Undisturbed, SnapshotInv, CoordInv
<1>3. ASSUME NEW i \in Instances, SaveJob(i)
      PROVE  job.completed => job'.completed /\ job'.lsn = job.lsn
  BY <1>3 DEF SaveJob, QuietInv, JobQuiet
<1>4. ASSUME NEW i \in Instances, MarkChunkCompleted(i) \/ MarkJobAsCompleted(i)
      PROVE  job.completed => job'.completed /\ job'.lsn = job.lsn
  BY <1>1, <1>4 DEF MarkChunkCompleted, MarkJobAsCompleted
<1>5. QED
  BY <1>2, <1>3, <1>4, JobWriters

\* What holds throughout an undisturbed snapshot.
UndisturbedInv ==
  /\ Undisturbed /\ SnapshotInv /\ QuietInv
  /\ Plain => SlotInv

\* The invariants of an undisturbed deployment hold together.
LEMMA UndisturbedInvariant == Spec /\ Undisturbed => []UndisturbedInv
<1>1. Init /\ Undisturbed => UndisturbedInv
  BY InitSnapshot, InitQuiet, InitSlot DEF UndisturbedInv
<1>2. UndisturbedInv /\ [Next]_vars => UndisturbedInv'
  <2>1. SUFFICES ASSUME UndisturbedInv, [Next]_vars PROVE UndisturbedInv'
    OBVIOUS
  <2>2. SnapshotInv' /\ QuietInv'
    BY <2>1, NextSnapshot, NextQuiet DEF UndisturbedInv
  <2>3. Undisturbed' /\ Plain' = Plain
    BY <2>1, SettingStays DEF UndisturbedInv, Undisturbed, Gentle, Plain
  <2>4. Plain => SlotInv'
    BY <2>1, NextSlot DEF UndisturbedInv, SnapshotInv, Undisturbed
  <2>5. QED
    BY <2>2, <2>3, <2>4 DEF UndisturbedInv
<1>3. QED
  BY <1>1, <1>2, PTL DEF Spec

\* In an undisturbed snapshot the completed job is kept (CompletedJobKept): of
\* any number of coordinators that find the lock free later, none removes or
\* replaces it, so the snapshot is taken once.
THEOREM UndisturbedJobKept == Spec /\ Undisturbed => CompletedJobKept
<1>1. UndisturbedInv /\ [Next]_vars =>
        [job.completed => job'.completed /\ job'.lsn = job.lsn]_vars
  BY NextKept DEF UndisturbedInv
<1>2. QED
  BY <1>1, UndisturbedInvariant, PTL DEF Spec, CompletedJobKept

\* The greater of two positions is one of them.
LEMMA MaxOfTwo ==
  ASSUME NEW a \in Int, NEW b \in Int
  PROVE  Max({a, b}) = a \/ Max({a, b}) = b
<1> DEFINE P(x) == x \in {a, b} /\ \A y \in {a, b} : x >= y
<1>1. \E x : P(x)
  <2>1. CASE a >= b
    BY <2>1
  <2>2. CASE b >= a
    BY <2>2
  <2>3. QED
    BY <2>1, <2>2
<1>2. Max({a, b}) = CHOOSE x : P(x)
  BY DEF Max
<1>3. P(CHOOSE x : P(x))
  BY <1>1
<1>4. QED
  BY <1>2, <1>3

\* An undisturbed snapshot and the stream after it leave nothing out
\* (ZeroDataLoss): whichever of any number of instances opens the stream, from
\* the snapshot's LSN or from where the slot stands, every chunk has reached
\* the listener from a view that holds all the commits the stream skips.  The
\* database makes a commit visible as soon as it is in the WAL (Plain).
THEOREM UndisturbedZeroDataLoss == Spec /\ Undisturbed /\ Plain => []ZeroDataLoss
<1>1. UndisturbedInv /\ Plain => ZeroDataLoss
  <2>1. SUFFICES ASSUME UndisturbedInv, Plain, NEW i \in Instances, At(i, "streaming"),
                        NEW c \in Chunks
                 PROVE  \E v \in delivered[c] : 1..Max({slot, me[i].from}) \subseteq v
    BY DEF ZeroDataLoss
  <2>2. job.completed /\ me[i].from \in {0, job.lsn}
    BY <2>1 DEF UndisturbedInv, QuietInv, Quiet, At
  <2>3. PICK v \in Views : 1..job.lsn \subseteq v /\ v \in delivered[c]
    BY <2>1, <2>2 DEF UndisturbedInv, QuietInv, JobQuiet, CoveredFrom, AllFrom
  <2>4. 1..slot \subseteq v
    BY <2>1, <2>3 DEF UndisturbedInv, SlotInv
  <2>5. slot \in Int /\ me[i].from \in Int
    BY <2>1, SettingType
    DEF UndisturbedInv, SnapshotInv, TypeInv, DbType, MeType, Local, NoSlot
  <2>6. Max({slot, me[i].from}) = slot \/ Max({slot, me[i].from}) = me[i].from
    BY <2>5, MaxOfTwo
  <2>7. 1..0 = {}
    OBVIOUS
  <2>8. 1..me[i].from \subseteq v
    BY <2>2, <2>3, <2>7
  <2>9. QED
    BY <2>3, <2>4, <2>6, <2>8
<1>2. Plain /\ [Next]_vars => Plain'
  BY SettingStays DEF Plain
<1>3. QED
  BY <1>1, <1>2, UndisturbedInvariant, PTL DEF Spec

(***************************************************************************)
(* One instance on its own, whatever fails around it.  The others stay     *)
(* absent, so every step is one of the following.                          *)
(***************************************************************************)
AtWork == Working \cup {"execute"}

\* Phases in which an instance holds no chunk and has no stream.
Rest == {"down", "start", "reset", "resetJob", "slot", "create", "prepare", "lsn",
         "init", "cleanup", "delete", "export", "chunks", "failed", "exited"}

OneRuns ==
  /\ \A i, k \in Instances : (me[i].pc # "absent" /\ me[k].pc # "absent") => i = k
  /\ \A i \in Instances : me[i].pc = "absent" => lock # i

AllDelivered == \A c \in Chunks : delivered[c] # {}

\* It never waits for a coordinator, and works only on rows of its own job, all
\* of which are there.
AloneAt(i) ==
  /\ me[i].pc # "wait"
  /\ setting.only => me[i].pc \notin {"opening", "streaming"}
  /\ me[i].pc = "chunks" =>
       \A c \in Chunks : c <= me[i].saved =>
         chunks[c].gen = me[i].own /\ chunks[c].status = "pending"
  /\ me[i].pc = "save" =>
       \A c \in Chunks : chunks[c].gen = me[i].own /\ chunks[c].status = "pending"
  /\ me[i].pc = "complete" => AllDelivered
  /\ me[i].pc \in AtWork => /\ HasJob /\ \A c \in Chunks : chunks[c].gen = job.export
                            /\ setting.only \/ me[i].fromSnapshot
  /\ me[i].pc \in Working => me[i].known = job.export

AloneInv ==
  /\ OneRuns /\ NoChunkSkipped
  /\ \A i \in Instances : AloneAt(i)

\* Initially at most one instance can have started.
LEMMA InitAlone == Init /\ setting.started = 1 => AloneInv
<1>1. SUFFICES ASSUME Init, setting.started = 1 PROVE AloneInv
  OBVIOUS
<1>2. PICK running \in SUBSET Instances :
        /\ Cardinality(running) = 1
        /\ me = [i \in Instances |->
                  Process(IF i \in running THEN "start" ELSE "absent")]
  BY <1>1 DEF Init
<1>3. IsFiniteSet(running)
  BY <1>2, SnapshotAssumption, FS_Subset
<1>4. \E x : running = {x}
  BY <1>2, <1>3, FS_Singleton
<1>5. lock = Nobody /\ \A i \in Instances : lock # i
  BY <1>1, SnapshotAssumption DEF Init
<1>6. \A i \in Instances :
        /\ me[i].pc = "start" \/ me[i].pc = "absent"
        /\ me[i].pc # "absent" => i \in running
  BY <1>2 DEF Process
<1>7. OneRuns
  BY <1>4, <1>5, <1>6 DEF OneRuns
<1>8. \A i \in Instances : AloneAt(i)
  BY <1>6 DEF AloneAt, AtWork, Working, KnowsJob
<1>9. NoChunkSkipped
  BY <1>1 DEF Init, NoJob, NoChunkSkipped
<1>10. QED
  BY <1>7, <1>8, <1>9 DEF AloneInv

KeepsFrom(i) ==
  me'[i].from = me[i].from /\ me'[i].fromSnapshot = me[i].fromSnapshot

\* Nothing but an instance, and perhaps the chunk rows, changes.
Quietly == UNCHANGED <<job, exports, lock, delivered, setting>>

\* The instance goes on with its next attempt or its initialisation; the job
\* and rows may be deleted, but nothing is read, listed or completed.
Rests(i) ==
  /\ me[i].pc # "absent" /\ OthersKept(i) /\ me'[i].pc \in Rest
  /\ me'[i].pc = "chunks" => me'[i].saved = 0
  /\ me'[i].from \in {me[i].from, 0}
  /\ lock' \in {lock, i, Nobody} /\ UNCHANGED <<delivered, setting>>
  /\ UNCHANGED job \/ job' = NoJob
  /\ \A e \in exports' : e.id = job.export => e \in exports
  /\ \A c \in Chunks : chunks'[c].status = "completed" =>
       chunks'[c].gen = chunks[c].gen /\ chunks[c].status = "completed"

\* A chunk that failed, or could not be marked or released, is left behind.
Retries(i) ==
  /\ \/ me[i].pc \in {"process", "mark"} /\ Moves(i, "claim")
     \/ me[i].pc = "release" /\ Moves(i, "execute")
  /\ KeepsFrom(i) /\ Quietly /\ UNCHANGED chunks /\ errors < setting.errors

\* No snapshot is needed.
Skips(i) ==
  /\ me[i].pc = "start" /\ HasJob /\ job.completed
  /\ Moves(i, Executed) /\ KeepsFrom(i) /\ Quietly /\ UNCHANGED chunks

ListsRows(i) ==
  /\ me[i].pc = "chunks" /\ KeepsFrom(i) /\ Quietly
  /\ \E p \in {"chunks", "save"} : Moves(i, p)
  /\ me'[i].pc = "save" => \A c \in Chunks : c <= me'[i].saved
  /\ \A c \in Chunks :
       \/ chunks'[c] = chunks[c] /\ (c <= me'[i].saved => c <= me[i].saved)
       \/ chunks'[c].gen = me[i].own /\ chunks'[c].status = "pending"

SavesJob(i) ==
  /\ me[i].pc = "save" /\ Moves(i, "execute") /\ me'[i].from = me[i].from
  /\ setting.only \/ me'[i].fromSnapshot
  /\ job'.export = me[i].own /\ job'.lsn = me[i].lsn /\ ~job'.completed
  /\ UNCHANGED <<chunks, exports, lock, delivered, setting>>

LoadsJob(i) ==
  /\ me[i].pc = "execute" /\ OthersKept(i) /\ me'[i].pc = "claim"
  /\ me'[i].known = job.export /\ KeepsFrom(i) /\ Quietly /\ UNCHANGED chunks

TakesRow(i, c) ==
  /\ me[i].pc = "claim" /\ OthersKept(i) /\ me'[i].pc = "process"
  /\ me'[i].chunk = <<c, chunks[c].gen>> /\ chunks[c].gen # 0
  /\ me'[i].known = me[i].known /\ KeepsFrom(i) /\ Quietly
  /\ chunks'[c].status = "in_progress"
  /\ \A d \in Chunks : /\ chunks'[d].gen = chunks[d].gen
                       /\ d # c => chunks'[d].status = chunks[d].status

TakesNone(i) ==
  /\ me[i].pc = "claim" /\ OthersKept(i) /\ me'[i].pc = "finalize"
  /\ \A c \in Chunks : ~Claimable(c)
  /\ me'[i].known = me[i].known /\ KeepsFrom(i) /\ Quietly /\ UNCHANGED chunks

ReadsOrNot(i) ==
  /\ me[i].pc = "process" /\ KeepsFrom(i) /\ me[i].chunk[1] \in Chunks
  /\ \/ Moves(i, "release") /\ UNCHANGED delivered
     \/ Moves(i, "mark") /\ \E e \in exports : Reads(i, e)
  /\ UNCHANGED <<job, chunks, exports, lock, setting>>

Marks(i) ==
  /\ me[i].pc = "mark" /\ Moves(i, "claim") /\ KeepsFrom(i)
  /\ job'.export = job.export /\ job'.lsn = job.lsn
  /\ job'.completed => job.completed
  /\ UNCHANGED <<exports, lock, delivered, setting>>
  /\ \A c \in Chunks :
       /\ chunks'[c].gen = chunks[c].gen
       /\ \/ chunks'[c].status = chunks[c].status /\ c # me[i].chunk[1]
          \/ chunks'[c].status = chunks[c].status /\ ~IsRow(me[i].chunk)
          \/ c = me[i].chunk[1] /\ chunks'[c].status = "completed"

Releases(i) ==
  /\ me[i].pc = "release" /\ Moves(i, "execute") /\ KeepsFrom(i) /\ Quietly
  /\ \A c \in Chunks :
       /\ chunks'[c].gen = chunks[c].gen
       /\ \/ chunks'[c].status = chunks[c].status /\ c # me[i].chunk[1]
          \/ chunks'[c].status = chunks[c].status /\ ~IsRow(me[i].chunk)
          \/ c = me[i].chunk[1] /\ chunks'[c].status = "pending"

AllCompleted ==
  /\ \E c \in Chunks : chunks[c].gen # 0
  /\ \A c \in Chunks : chunks[c].gen # 0 => chunks[c].status = "completed"

Finalizes(i) ==
  /\ me[i].pc = "finalize" /\ KeepsFrom(i) /\ Quietly /\ UNCHANGED chunks
  /\ \/ Moves(i, "complete") /\ AllCompleted
     \/ Moves(i, Executed) /\ ~AllCompleted

Completes(i) ==
  /\ me[i].pc = "complete" /\ OthersKept(i) /\ me'[i].pc = Executed /\ KeepsFrom(i)
  /\ job'.export = job.export /\ job'.lsn = job.lsn
  /\ exports' \in SUBSET exports /\ lock' \in {lock, Nobody}
  /\ UNCHANGED <<chunks, delivered, setting>>

Opens(i) ==
  /\ me[i].pc = "opening" /\ OthersKept(i) /\ Quietly /\ UNCHANGED chunks
  /\ \/ /\ ~me[i].fromSnapshot /\ me'[i].pc = "streaming"
        /\ me'[i].from = me[i].from
     \/ /\ job.completed /\ me'[i].pc = "streaming" /\ me'[i].from = job.lsn
     \/ me'[i].pc = "failed" /\ me'[i].from = me[i].from

\* No instance's phase, chunk or job changes: time, the server, the heartbeat.
Outside ==
  /\ \A k \in Instances :
       /\ me'[k].pc = me[k].pc /\ me'[k].own = me[k].own
       /\ me'[k].saved = me[k].saved
       /\ me'[k].known = me[k].known /\ me'[k].chunk = me[k].chunk
       /\ me'[k].from = me[k].from /\ me'[k].fromSnapshot = me[k].fromSnapshot
  /\ UNCHANGED <<job, lock, delivered, setting>> /\ exports' \in SUBSET exports
  /\ \A c \in Chunks : /\ chunks'[c].gen = chunks[c].gen
                       /\ chunks'[c].status = chunks[c].status

AloneStep(i) ==
  \/ Rests(i) \/ Retries(i) \/ Skips(i) \/ ListsRows(i) \/ SavesJob(i)
  \/ LoadsJob(i) \/ (\E c \in Chunks : TakesRow(i, c)) \/ TakesNone(i)
  \/ ReadsOrNot(i) \/ Marks(i) \/ Releases(i) \/ Finalizes(i) \/ Completes(i)
  \/ Opens(i)

\* SetStatus writes the row it names, and no other.
LEMMA SetStatusWrites ==
  ASSUME chunks \in [Chunks -> RowType], NEW id \in Ids, NEW st, SetStatus(id, st)
  PROVE  \A c \in Chunks :
           /\ chunks'[c].gen = chunks[c].gen
           /\ \/ chunks'[c].status = chunks[c].status /\ c # id[1]
              \/ chunks'[c].status = chunks[c].status /\ ~IsRow(id)
              \/ c = id[1] /\ chunks'[c].status = st
<1>1. CASE IsRow(id)
  <2> DEFINE b == chunks[id[1]].fresh /\ st # "pending"
  <2>1. id[1] \in Chunks
    BY <1>1 DEF IsRow, Ids
  <2>2. chunks' = [chunks EXCEPT ![id[1]] =
                    [chunks[id[1]] EXCEPT !.status = st, !.fresh = b]]
    BY <1>1 DEF SetStatus
  <2> HIDE DEF b
  <2>3. QED
    BY <2>1, <2>2 DEF RowType
<1>2. CASE ~IsRow(id)
  BY <1>2 DEF SetStatus
<1>3. QED
  BY <1>1, <1>2

\* A failing statement leaves its instance where it is, or sends it back.
LEMMA StatementKinds ==
  ASSUME me \in [Instances -> Local], NEW i \in Instances, StatementFails(i)
  PROVE  Rests(i) \/ Retries(i)
<1>1. /\ UNCHANGED <<job, chunks, exports, lock, delivered, setting>>
      /\ errors < setting.errors
  BY DEF StatementFails, db
<1>2. CASE At(i, "start") /\ Goto(i, IF setting.resnapshot THEN "reset" ELSE Taking)
  BY <1>1, <1>2, GotoMoves DEF At, Taking, Rests, Moves, Rest
<1>3. CASE (At(i, "reset") \/ At(i, "resetJob")) /\ Goto(i, Taking)
  BY <1>1, <1>3, GotoMoves DEF At, Taking, Rests, Moves, Rest
<1>4. CASE At(i, "init") /\ Goto(i, "export")
  BY <1>1, <1>4, GotoMoves DEF At, Rests, Moves, Rest
<1>5. CASE (At(i, "process") \/ At(i, "mark")) /\ Goto(i, "claim")
  BY <1>1, <1>5, GotoMoves DEF At, Retries, KeepsFrom, Quietly
<1>6. CASE At(i, "release") /\ Invalidated(i)
  <2>1. /\ \E p \in {"execute", "slot", "failed"} : Moves(i, p)
        /\ me'[i].from = me[i].from /\ me'[i].fromSnapshot = me[i].fromSnapshot
    BY <1>6, AgainMoves
  <2>2. QED
    BY <1>1, <1>6, <2>1 DEF At, Rests, Retries, KeepsFrom, Quietly, Moves, Rest
<1>7. CASE /\ me[i].pc \in {"slot", "create", "prepare", "lsn", "cleanup", "delete",
                            "export", "chunks", "save", "execute", "claim",
                            "finalize", "complete"}
           /\ AttemptFails(i)
  BY <1>1, <1>7, FailMoves DEF Rests, Moves, Rest
<1>8. QED
  BY <1>2, <1>3, <1>4, <1>5, <1>6, <1>7 DEF StatementFails

\* Every step with one instance is of the kinds listed above.
LEMMA AloneSteps ==
  ASSUME TypeInv, ReadInv, AloneInv, [Next]_vars
  PROVE  Outside \/ \E i \in Instances : AloneStep(i)
<1>1. TypeInv /\ ReadInv /\ AloneInv /\ [Next]_vars
  OBVIOUS
<1>2. /\ me \in [Instances -> Local] /\ chunks \in [Chunks -> RowType]
      /\ delivered \in [Chunks -> SUBSET SUBSET (1..setting.writes)]
      /\ \A i \in Instances : me[i].chunk \in Ids
      /\ lock \in Instances \cup {Nobody}
      /\ job \in [export : Nat, lsn : 0..setting.writes, done : Nat,
                  completed : BOOLEAN]
      /\ exports \subseteq [id : Nat \ {0}, owner : Instances,
                            view : SUBSET (1..setting.writes)]
  BY <1>1 DEF TypeInv, MeType, DbType, ServerType, Local
<1>3. ASSUME NEW i \in Instances, ShouldTakeSnapshot(i) PROVE AloneStep(i)
  <2>1. UNCHANGED <<job, chunks, exports, lock, delivered, setting>> /\ me[i].pc = "start"
    BY <1>3 DEF ShouldTakeSnapshot, At, db, faults
  <2>2. CASE ~setting.resnapshot /\ HasJob /\ job.completed
    <3>1. Goto(i, Executed)
      BY <1>3, <2>2 DEF ShouldTakeSnapshot
    <3>2. Skips(i)
      BY <1>2, <2>1, <2>2, <3>1, GotoMoves DEF Skips, KeepsFrom, Quietly
    <3>3. QED
      BY <3>2 DEF AloneStep
  <2>3. CASE ~(~setting.resnapshot /\ HasJob /\ job.completed)
    <3>1. \E p \in {"reset", "prepare", "slot"} : Goto(i, p)
      BY <1>3, <2>3 DEF ShouldTakeSnapshot, Taking
    <3>2. Rests(i)
      BY <1>2, <2>1, <3>1, GotoMoves DEF Rests, Moves, Rest
    <3>3. QED
      BY <3>2 DEF AloneStep
  <2>4. QED
    BY <2>2, <2>3
<1>4. ASSUME NEW i \in Instances, SlotInfo(i) PROVE AloneStep(i)
  <2>1. /\ \E p \in {"create", "prepare"} : Moves(i, p)
        /\ me'[i].from = me[i].from /\ me[i].pc # "absent"
    BY <1>4, <1>2, GotoMoves DEF SlotInfo, At
  <2>2. UNCHANGED <<job, chunks, exports, lock, delivered, setting>>
    BY <1>4 DEF SlotInfo, db, faults
  <2>3. Rests(i)
    BY <2>1, <2>2 DEF Rests, Moves, Rest
  <2>4. QED
    BY <2>3 DEF AloneStep
<1>5. ASSUME NEW i \in Instances, CreateSlot(i) PROVE AloneStep(i)
  <2>1. /\ \E p \in {"prepare", "slot", "failed"} : Moves(i, p)
        /\ me'[i].from = me[i].from /\ me[i].pc # "absent"
    BY <1>5, <1>2, GotoMoves, FailMoves DEF CreateSlot, At
  <2>2. UNCHANGED <<job, chunks, exports, lock, delivered, setting>>
    BY <1>5 DEF CreateSlot, db, faults
  <2>3. Rests(i)
    BY <2>1, <2>2 DEF Rests, Moves, Rest
  <2>4. QED
    BY <2>3 DEF AloneStep
<1>6. ASSUME NEW i \in Instances, SetupJob(i) PROVE AloneStep(i)
  <2>1. UNCHANGED <<job, chunks, exports, delivered, setting>> /\ me[i].pc = "prepare"
    BY <1>6 DEF SetupJob, At, db, faults
  <2>2. lock \in {Nobody, i}
    BY <1>1, <1>2, <2>1 DEF AloneInv, OneRuns
  <2>3. Goto(i, "lsn") /\ lock' = i
    BY <1>6, <2>2 DEF SetupJob
  <2>4. Rests(i)
    BY <1>2, <2>1, <2>3, GotoMoves DEF Rests, Moves, Rest
  <2>5. QED
    BY <2>4 DEF AloneStep
<1>7. ASSUME NEW i \in Instances, GetCurrentLSN(i) PROVE AloneStep(i)
  <2>1. /\ UNCHANGED <<job, chunks, exports, lock, delivered, setting>> /\ me[i].pc = "lsn"
        /\ me' = [me EXCEPT ![i] = [me[i] EXCEPT !.lsn = written, !.pc = "init"]]
    BY <1>7 DEF GetCurrentLSN, At, db, faults
  <2>2. OthersKept(i) /\ me'[i].pc = "init" /\ me'[i].from = me[i].from
    BY <1>2, <2>1 DEF OthersKept, Local
  <2>3. Rests(i)
    BY <2>1, <2>2 DEF Rests, Rest
  <2>4. QED
    BY <2>3 DEF AloneStep
<1>8. ASSUME NEW i \in Instances, InitializeCoordinator(i) PROVE AloneStep(i)
  <2>1. /\ \E p \in {"cleanup", "export"} : Moves(i, p)
        /\ me'[i].from = me[i].from /\ me[i].pc # "absent"
    BY <1>8, <1>2, GotoMoves DEF InitializeCoordinator, At
  <2>2. UNCHANGED <<job, chunks, exports, lock, delivered, setting>>
    BY <1>8 DEF InitializeCoordinator, db, faults
  <2>3. Rests(i)
    BY <2>1, <2>2 DEF Rests, Moves, Rest
  <2>4. QED
    BY <2>3 DEF AloneStep
<1>9. ASSUME NEW i \in Instances, CleanupChunks(i) PROVE AloneStep(i)
  <2>1. /\ \E p \in {"delete", "resetJob"} : Moves(i, p)
        /\ me'[i].from = me[i].from /\ me[i].pc # "absent"
    BY <1>9, <1>2, GotoMoves DEF CleanupChunks, At
  <2>2. UNCHANGED <<job, exports, lock, delivered, setting>>
    BY <1>9 DEF CleanupChunks, faults
  <2>3. \A c \in Chunks : chunks'[c].status = "pending"
    BY <1>9 DEF CleanupChunks, NoRow, Row
  <2>4. Rests(i)
    BY <2>1, <2>2, <2>3 DEF Rests, Moves, Rest
  <2>5. QED
    BY <2>4 DEF AloneStep
<1>10. ASSUME NEW i \in Instances, CleanupJob(i) PROVE AloneStep(i)
  <2>1. /\ \E p \in {"export", "slot", "prepare"} : Moves(i, p)
        /\ me'[i].from = me[i].from /\ me[i].pc # "absent"
    BY <1>10, <1>2, GotoMoves DEF CleanupJob, At, Taking
  <2>2. UNCHANGED <<chunks, exports, lock, delivered, setting>> /\ job' = NoJob
    BY <1>10 DEF CleanupJob, faults
  <2>3. Rests(i)
    BY <2>1, <2>2 DEF Rests, Moves, Rest
  <2>4. QED
    BY <2>3 DEF AloneStep
<1>11. ASSUME NEW i \in Instances, ExportSnapshotTransaction(i) PROVE AloneStep(i)
  <2> DEFINE n == NewId
             x == [id |-> n, owner |-> i, view |-> visible]
  <2>1. /\ exports' = exports \cup {x} /\ me[i].pc = "export"
        /\ UNCHANGED <<job, chunks, lock, delivered, setting>>
        /\ me' = [me EXCEPT ![i] = [me[i] EXCEPT !.own = n, !.saved = 0,
                                               !.pc = "chunks"]]
    BY <1>11 DEF ExportSnapshotTransaction, At, db, faults
  <2>2. x.id = n /\ n # job.export
    BY <1>1, NewIdIsNew DEF TypeInv, ServerType, UsedIds
  <2> HIDE DEF n, x
  <2>3. OthersKept(i) /\ me'[i].pc = "chunks" /\ me'[i].from = me[i].from
    BY <1>2, <2>1 DEF OthersKept, Local
  <2>4. Rests(i)
    BY <2>1, <2>2, <2>3 DEF Rests, Rest
  <2>5. QED
    BY <2>4 DEF AloneStep
<1>12. ASSUME NEW i \in Instances, SaveChunks(i) PROVE AloneStep(i)
  <2>1. me[i].pc = "chunks" /\ UNCHANGED <<job, exports, lock, delivered, setting>>
    BY <1>12 DEF SaveChunks, At, faults
  <2>2. KeepsFrom(i)
    BY <1>12, <1>2, SaveMoves DEF KeepsFrom
  <2>3. CASE UNCHANGED chunks /\ \E p \in {"slot", "failed"} : Moves(i, p)
    <3>1. Rests(i)
      BY <2>1, <2>2, <2>3 DEF Rests, Moves, Rest, KeepsFrom
    <3>2. QED
      BY <3>1 DEF AloneStep
  <2>4. ASSUME NEW p \in {"chunks", "save"}, Inserts(i, p) PROVE AloneStep(i)
    <3>1. me[i].saved \in Int /\ me'[i].saved \in Int
      <4>1. me[i].saved \in Nat
        BY <1>2, SavedType
      <4>2. me'[i].saved \in Nat
        BY <2>4, SnapshotAssumption DEF Inserts
      <4>3. QED
        BY <4>1, <4>2
    <3>2. \A c \in Chunks :
            \/ chunks'[c] = chunks[c] /\ (c <= me'[i].saved => c <= me[i].saved)
            \/ chunks'[c].gen = me[i].own /\ chunks'[c].status = "pending"
      BY <2>4, <3>1, SnapshotAssumption DEF Inserts, Row
    <3>3. ListsRows(i)
      BY <2>1, <2>2, <2>4, <3>2 DEF ListsRows, Inserts, Moves, Quietly
    <3>4. QED
      BY <3>3 DEF AloneStep
  <2>5. QED
    BY <1>12, <1>2, <2>3, <2>4, SaveMoves
<1>13. ASSUME NEW i \in Instances, SaveJob(i) PROVE AloneStep(i)
  <2>1. me[i].pc = "save" /\ UNCHANGED <<chunks, exports, lock, delivered, setting>>
    BY <1>13 DEF SaveJob, At, faults
  <2>2. CASE HasJob
    <3>1. AttemptFails(i) /\ UNCHANGED job
      BY <1>13, <2>2 DEF SaveJob
    <3>2. Rests(i)
      BY <1>2, <2>1, <3>1, FailMoves DEF Rests, Moves, Rest
    <3>3. QED
      BY <3>2 DEF AloneStep
  <2>3. CASE ~HasJob
    <3>1. /\ Moves(i, "execute") /\ me'[i].from = me[i].from
          /\ me'[i].fromSnapshot = ~setting.only
      BY <1>13, <1>2, <2>3, ExecuteMoves DEF SaveJob
    <3>2. job'.export = me[i].own /\ job'.lsn = me[i].lsn /\ ~job'.completed
      BY <1>13, <2>3 DEF SaveJob, NoJob
    <3>3. SavesJob(i)
      BY <2>1, <3>1, <3>2 DEF SavesJob
    <3>4. QED
      BY <3>3 DEF AloneStep
  <2>4. QED
    BY <2>2, <2>3
<1>14. ASSUME NEW i \in Instances, WaitForCoordinator(i) PROVE AloneStep(i)
  BY <1>14, <1>1 DEF WaitForCoordinator, At, AloneInv, AloneAt
<1>15. ASSUME NEW i \in Instances, LoadJob(i) PROVE AloneStep(i)
  <2>1. me[i].pc = "execute" /\ UNCHANGED <<job, chunks, exports, lock, delivered, setting>>
    BY <1>15 DEF LoadJob, At, db, faults
  <2>2. CASE HasJob
    <3>1. me' = [me EXCEPT ![i] = [me[i] EXCEPT !.known = job.export, !.pc = "claim",
                                    !.chan = NoChunk, !.active = NoChunk]]
      BY <1>15, <2>2 DEF LoadJob
    <3>2. LoadsJob(i)
      BY <1>2, <2>1, <3>1 DEF LoadsJob, OthersKept, Local, KeepsFrom, Quietly
    <3>3. QED
      BY <3>2 DEF AloneStep
  <2>3. CASE ~HasJob
    <3>1. AttemptFails(i)
      BY <1>15, <2>3 DEF LoadJob
    <3>2. Rests(i)
      BY <1>2, <2>1, <3>1, FailMoves DEF Rests, Moves, Rest
    <3>3. QED
      BY <3>2 DEF AloneStep
  <2>4. QED
    BY <2>2, <2>3
<1>16. ASSUME NEW i \in Instances, ClaimNextChunk(i) PROVE AloneStep(i)
  <2>1. me[i].pc = "claim" /\ Quietly
    BY <1>16 DEF ClaimNextChunk, At, faults, Quietly
  <2>2. OthersKept(i) /\ me'[i].known = me[i].known /\ KeepsFrom(i)
    BY <1>16, <1>2, ClaimMoves DEF KeepsFrom
  <2>3. CASE ClaimsNothing(i)
    <3>1. TakesNone(i)
      BY <2>1, <2>2, <2>3 DEF ClaimsNothing, TakesNone
    <3>2. QED
      BY <3>1 DEF AloneStep
  <2>4. ASSUME NEW c \in Chunks, Claims(i, c)
        PROVE  AloneStep(i)
    <3>1. chunks' = [chunks EXCEPT ![c] =
                      [chunks[c] EXCEPT !.status = "in_progress", !.fresh = TRUE]]
      BY <2>4 DEF Claims
    <3>2. /\ chunks'[c].status = "in_progress"
          /\ \A d \in Chunks : /\ chunks'[d].gen = chunks[d].gen
                               /\ d # c => chunks'[d].status = chunks[d].status
      BY <1>2, <3>1 DEF RowType
    <3>3. TakesRow(i, c)
      BY <2>1, <2>2, <2>4, <3>2 DEF TakesRow, Claims, Claimable
    <3>4. QED
      BY <3>3 DEF AloneStep
  <2>5. QED
    BY <1>16, <1>2, <2>3, <2>4, ClaimMoves
<1>17. ASSUME NEW i \in Instances, ProcessChunk(i) PROVE AloneStep(i)
  <2>1. /\ UNCHANGED <<job, chunks, exports, lock, setting>> /\ me[i].pc = "process"
        /\ me[i].chunk[1] \in Chunks
    BY <1>17, <1>1, <1>2 DEF ProcessChunk, db, faults, At, ReadInv, WorkerRead, Ids
  <2>2. KeepsFrom(i)
    BY <1>17, <1>2, GotoMoves DEF ProcessChunk, KeepsFrom
  <2>3. \/ Moves(i, "release") /\ UNCHANGED delivered
        \/ Moves(i, "mark") /\ \E e \in exports : Reads(i, e)
    BY <1>17, <1>2, <2>1, ProcessMoves
  <2>4. ReadsOrNot(i)
    BY <2>1, <2>2, <2>3 DEF ReadsOrNot
  <2>5. QED
    BY <2>4 DEF AloneStep
<1>18. ASSUME NEW i \in Instances, MarkChunkCompleted(i) PROVE AloneStep(i)
  <2>1. /\ me[i].pc = "mark" /\ UNCHANGED <<exports, lock, delivered, setting>>
        /\ job'.export = job.export /\ job'.lsn = job.lsn
        /\ job'.completed = job.completed
    BY <1>18, <1>2 DEF MarkChunkCompleted, At, faults
  <2>2. Moves(i, "claim") /\ KeepsFrom(i)
    BY <1>18, <1>2, GotoMoves DEF MarkChunkCompleted, KeepsFrom
  <2>3. Marks(i)
    BY <1>18, <1>2, <2>1, <2>2, SetStatusWrites DEF MarkChunkCompleted, Marks
  <2>4. QED
    BY <2>3 DEF AloneStep
<1>19. ASSUME NEW i \in Instances, ReleaseChunk(i) PROVE AloneStep(i)
  <2>1. me[i].pc = "release" /\ Quietly
    BY <1>19 DEF ReleaseChunk, At, faults, Quietly
  <2>2. /\ \E p \in {"execute", "slot", "failed"} : Moves(i, p)
        /\ me'[i].from = me[i].from /\ me'[i].fromSnapshot = me[i].fromSnapshot
    BY <1>19, <1>2, AgainMoves DEF ReleaseChunk
  <2>3. \A c \in Chunks :
          /\ chunks'[c].gen = chunks[c].gen
          /\ \/ chunks'[c].status = chunks[c].status /\ c # me[i].chunk[1]
             \/ chunks'[c].status = chunks[c].status /\ ~IsRow(me[i].chunk)
             \/ c = me[i].chunk[1] /\ chunks'[c].status = "pending"
    BY <1>19, <1>2, SetStatusWrites DEF ReleaseChunk
  <2>4. CASE Moves(i, "execute")
    <3>1. Releases(i)
      BY <2>1, <2>2, <2>3, <2>4 DEF Releases, KeepsFrom
    <3>2. QED
      BY <3>1 DEF AloneStep
  <2>5. CASE Moves(i, "slot") \/ Moves(i, "failed")
    <3>1. Rests(i)
      BY <2>1, <2>2, <2>3, <2>5 DEF Rests, Moves, Rest, Quietly
    <3>2. QED
      BY <3>1 DEF AloneStep
  <2>6. QED
    BY <2>2, <2>4, <2>5
<1>20. ASSUME NEW i \in Instances, CheckJobCompleted(i) PROVE AloneStep(i)
  <2>1. me[i].pc = "finalize" /\ Quietly /\ UNCHANGED chunks
    BY <1>20 DEF CheckJobCompleted, At, db, faults, Quietly
  <2>2. CASE AllCompleted
    <3>1. Goto(i, "complete")
      BY <1>20, <2>2 DEF CheckJobCompleted, AllCompleted
    <3>2. Finalizes(i)
      BY <1>2, <2>1, <2>2, <3>1, GotoMoves DEF Finalizes, KeepsFrom
    <3>3. QED
      BY <3>2 DEF AloneStep
  <2>3. CASE ~AllCompleted
    <3>1. Goto(i, Executed)
      BY <1>20, <2>3 DEF CheckJobCompleted, AllCompleted
    <3>2. Finalizes(i)
      BY <1>2, <2>1, <2>3, <3>1, GotoMoves DEF Finalizes, KeepsFrom
    <3>3. QED
      BY <3>2 DEF AloneStep
  <2>4. QED
    BY <2>2, <2>3
<1>21. ASSUME NEW i \in Instances, MarkJobAsCompleted(i) PROVE AloneStep(i)
  <2>1. /\ me' = [me EXCEPT ![i] = [me[i] EXCEPT !.own = 0, !.pc = Executed]]
        /\ me[i].pc = "complete" /\ UNCHANGED <<chunks, delivered, setting>>
        /\ exports' \in SUBSET exports /\ lock' \in {lock, Nobody}
        /\ job'.export = job.export /\ job'.lsn = job.lsn
    BY <1>21, <1>2 DEF MarkJobAsCompleted, At, faults
  <2>2. OthersKept(i) /\ me'[i].pc = Executed /\ KeepsFrom(i)
    BY <1>2, <2>1 DEF OthersKept, Local, KeepsFrom
  <2>3. Completes(i)
    BY <2>1, <2>2 DEF Completes
  <2>4. QED
    BY <2>3 DEF AloneStep
<1>22. ASSUME NEW i \in Instances, OpenStream(i) PROVE AloneStep(i)
  <2>1. me[i].pc = "opening" /\ Quietly /\ UNCHANGED chunks
    BY <1>22 DEF OpenStream, At, db, faults, Quietly
  <2>2. CASE ~me[i].fromSnapshot /\ Goto(i, "streaming")
    <3>1. Moves(i, "streaming") /\ me'[i].from = me[i].from
      BY <1>2, <2>2, GotoMoves
    <3>2. Opens(i)
      BY <2>1, <2>2, <3>1 DEF Opens, Moves
    <3>3. QED
      BY <3>2 DEF AloneStep
  <2>3. CASE /\ job.completed
             /\ me' = [me EXCEPT ![i].pc = "streaming", ![i].from = job.lsn]
    <3>1. me' = [me EXCEPT ![i] = [me[i] EXCEPT !.pc = "streaming", !.from = job.lsn]]
      BY <2>3
    <3>2. OthersKept(i) /\ me'[i].pc = "streaming" /\ me'[i].from = job.lsn
      BY <1>2, <3>1 DEF OthersKept, Local
    <3>3. Opens(i)
      BY <2>1, <2>3, <3>2 DEF Opens
    <3>4. QED
      BY <3>3 DEF AloneStep
  <2>4. CASE Goto(i, "failed")
    <3>1. Moves(i, "failed") /\ me'[i].from = me[i].from
      BY <1>2, <2>4, GotoMoves
    <3>2. Opens(i)
      BY <2>1, <3>1 DEF Opens, Moves
    <3>3. QED
      BY <3>2 DEF AloneStep
  <2>5. QED
    BY <1>22, <2>2, <2>3, <2>4 DEF OpenStream
<1>23. ASSUME NEW i \in Instances, Restart(i) PROVE AloneStep(i)
  <2>1. /\ OthersKept(i) /\ me'[i].pc = "start" /\ me'[i].from = 0
        /\ me[i].pc # "absent"
    BY <1>23, <1>2, ProcessMovesOn DEF Restart, At
  <2>2. /\ UNCHANGED <<job, chunks, delivered, setting>>
        /\ exports' \in SUBSET exports /\ lock' \in {lock, Nobody}
    BY <1>23 DEF Restart, db, faults
  <2>3. Rests(i)
    BY <2>1, <2>2 DEF Rests, Rest
  <2>4. QED
    BY <2>3 DEF AloneStep
<1>24. ASSUME NEW i \in Instances, Exit(i) PROVE AloneStep(i)
  <2>1. /\ OthersKept(i) /\ me'[i].pc = "exited" /\ me'[i].from = 0
        /\ me[i].pc # "absent"
    BY <1>24, <1>2, ProcessMovesOn DEF Exit, At
  <2>2. /\ UNCHANGED <<job, chunks, delivered, setting>>
        /\ exports' \in SUBSET exports /\ lock' \in {lock, Nobody}
    BY <1>24 DEF Exit, db, faults
  <2>3. Rests(i)
    BY <2>1, <2>2 DEF Rests, Rest
  <2>4. QED
    BY <2>3 DEF AloneStep
<1>25. ASSUME NEW i \in Instances, WaitTimeout(i) PROVE AloneStep(i)
  BY <1>25, <1>1 DEF WaitTimeout, At, AloneInv, AloneAt
<1>26. ASSUME NEW i \in Instances, HeartbeatReceive(i) PROVE Outside
  <2>1. /\ me' = [me EXCEPT ![i] = [me[i] EXCEPT !.active = me[i].chan, !.chan = NoChunk]]
        /\ UNCHANGED <<job, chunks, exports, lock, delivered, setting>>
    BY <1>26 DEF HeartbeatReceive, db, faults
  <2>2. Outside
    BY <1>2, <2>1 DEF Outside, Local
  <2>3. QED
    BY <2>2
<1>27. ASSUME NEW i \in Instances, HeartbeatTick(i) PROVE Outside
  <2>1. UNCHANGED <<job, exports, lock, me, delivered, setting>>
    BY <1>27 DEF HeartbeatTick, faults
  <2>2. \A d \in Chunks : chunks'[d].gen = chunks[d].gen /\ chunks'[d].status = chunks[d].status
    BY <1>27, <1>2 DEF HeartbeatTick, RowType
  <2>3. QED
    BY <2>1, <2>2 DEF Outside
<1>28. ASSUME NEW i \in Instances, StatementFails(i) PROVE AloneStep(i)
  BY <1>28, <1>2, StatementKinds DEF AloneStep
<1>29. ASSUME NEW i \in Instances, Crash(i) PROVE AloneStep(i)
  <2>1. /\ OthersKept(i) /\ me'[i].pc = "down" /\ me'[i].from = 0
        /\ me[i].pc # "absent"
    BY <1>29, <1>2, ProcessMovesOn DEF Crash, At
  <2>2. /\ UNCHANGED <<job, chunks, delivered, setting>>
        /\ exports' \in SUBSET exports /\ lock' \in {lock, Nobody}
    BY <1>29 DEF Crash, db, faults
  <2>3. Rests(i)
    BY <2>1, <2>2 DEF Rests, Rest
  <2>4. QED
    BY <2>3 DEF AloneStep
<1>30. ASSUME NEW i \in Instances, Start(i) PROVE AloneStep(i)
  <2>1. /\ OthersKept(i) /\ me'[i].pc = "start" /\ me'[i].from = 0
        /\ me[i].pc # "absent"
    BY <1>30, <1>2, ProcessMovesOn DEF Start, At
  <2>2. /\ UNCHANGED <<job, chunks, delivered, setting>>
        /\ exports' \in SUBSET exports /\ lock' \in {lock, Nobody}
    BY <1>30 DEF Start, db, faults
  <2>3. Rests(i)
    BY <2>1, <2>2 DEF Rests, Rest
  <2>4. QED
    BY <2>3 DEF AloneStep
<1>31. ASSUME NEW c \in Chunks, Expire(c) PROVE Outside
  <2>1. UNCHANGED <<job, exports, lock, me, delivered, setting>>
    BY <1>31 DEF Expire, faults
  <2>2. \A d \in Chunks : chunks'[d].gen = chunks[d].gen /\ chunks'[d].status = chunks[d].status
    BY <1>31, <1>2 DEF Expire, RowType
  <2>3. QED
    BY <2>1, <2>2 DEF Outside
<1>32. CASE Write
  <2>1. UNCHANGED <<job, chunks, lock, me, delivered, setting>> /\ exports' \in SUBSET exports
    BY <1>32 DEF Write, db, faults
  <2>2. QED
    BY <2>1 DEF Outside
<1>33. CASE BecomeVisible
  <2>1. UNCHANGED <<job, chunks, lock, me, delivered, setting>> /\ exports' \in SUBSET exports
    BY <1>33 DEF BecomeVisible, db, faults
  <2>2. QED
    BY <2>1 DEF Outside
<1>34. CASE CollectLeaked
  <2>1. UNCHANGED <<job, chunks, lock, me, delivered, setting>> /\ exports' \in SUBSET exports
    BY <1>34 DEF CollectLeaked, db, faults
  <2>2. QED
    BY <2>1 DEF Outside
<1>35. CASE UNCHANGED vars
  <2>1. UNCHANGED <<job, chunks, lock, me, delivered, setting>> /\ exports' \in SUBSET exports
    BY <1>35 DEF vars, db, faults
  <2>2. QED
    BY <2>1 DEF Outside
<1>36. QED
  BY <1>1, <1>3, <1>4, <1>5, <1>6, <1>7, <1>8, <1>9, <1>10, <1>11, <1>12,
     <1>13, <1>14, <1>15, <1>16, <1>17, <1>18, <1>19, <1>20, <1>21, <1>22,
     <1>23, <1>24, <1>25, <1>26, <1>27, <1>28, <1>29, <1>30, <1>31, <1>32,
     <1>33, <1>34, <1>35
  DEF Next, Step

\* A step of the one instance keeps AloneInv if it does so for that instance.
LEMMA KeepAlone ==
  ASSUME AloneInv, NEW i \in Instances, me[i].pc # "absent", OthersKept(i),
         me'[i].pc # "absent", lock' \in {lock, i, Nobody}, AloneAt(i)',
         NoChunkSkipped'
  PROVE  AloneInv'
<1>1. \A k \in Instances : k # i => me'[k] = me[k] /\ me[k].pc = "absent"
  BY DEF OthersKept, AloneInv, OneRuns
<1>2. OneRuns'
  <2>1. \A k \in Instances : k # i => lock' # k
    BY <1>1, SnapshotAssumption DEF AloneInv, OneRuns
  <2>2. QED
    BY <1>1, <2>1 DEF OneRuns
<1>3. \A k \in Instances : AloneAt(k)'
  BY <1>1 DEF AloneAt, AtWork, Working, KnowsJob
<1>4. QED
  BY <1>2, <1>3 DEF AloneInv

\* Every step keeps AloneInv.
LEMMA NextAlone ==
  ASSUME TypeInv, ReadInv, OwnerInv, AloneInv, [Next]_vars
  PROVE  AloneInv'
<1>1. CASE Outside
  BY <1>1
  DEF Outside, AloneInv, OneRuns, AloneAt, HasJob, NoChunkSkipped, AllDelivered
<1>2. ASSUME NEW i \in Instances, AloneStep(i) PROVE AloneInv'
  <2>1. AloneAt(i) /\ NoChunkSkipped
    BY DEF AloneInv
  <2>2. CASE Rests(i)
    <3>1. \A c \in Chunks : ~(c <= 0)
      BY SnapshotAssumption
    <3>2. AloneAt(i)'
      BY <2>2, <3>1 DEF Rests, Rest, AloneAt, AtWork, Working, KnowsJob
    <3>3. NoChunkSkipped'
      BY <2>1, <2>2 DEF Rests, NoJob, NoChunkSkipped
    <3>4. QED
      BY <2>2, <3>2, <3>3, KeepAlone DEF Rests, Rest
  <2>3. CASE Retries(i)
    <3>1. AloneAt(i)'
      BY <2>1, <2>3
      DEF Retries, Moves, Quietly, KeepsFrom, AloneAt, AtWork, Working, KnowsJob, HasJob
    <3>2. NoChunkSkipped'
      BY <2>1, <2>3 DEF Retries, Quietly, NoChunkSkipped
    <3>3. QED
      BY <2>3, <3>1, <3>2, KeepAlone DEF Retries, Moves, Quietly
  <2>4. CASE Skips(i)
    <3>1. AloneAt(i)'
      BY <2>4 DEF Skips, Moves, Quietly, Executed, AloneAt, AtWork, Working, KnowsJob
    <3>2. NoChunkSkipped'
      BY <2>1, <2>4 DEF Skips, Quietly, NoChunkSkipped
    <3>3. QED
      BY <2>4, <3>1, <3>2, KeepAlone DEF Skips, Moves, Quietly, Executed
  <2>5. CASE ListsRows(i)
    <3>1. AloneAt(i)'
      BY <2>1, <2>5 DEF ListsRows, Moves, AloneAt, AtWork, Working, KnowsJob
    <3>2. NoChunkSkipped'
      BY <2>1, <2>5 DEF ListsRows, Quietly, NoChunkSkipped
    <3>3. QED
      BY <2>5, <3>1, <3>2, KeepAlone DEF ListsRows, Moves, Quietly
  <2>6. CASE SavesJob(i)
    <3>1. me[i].own # 0
      BY <2>6 DEF SavesJob, OwnerInv, Unsaved
    <3>2. AloneAt(i)'
      BY <2>1, <2>6, <3>1
      DEF SavesJob, Moves, AloneAt, AtWork, Working, KnowsJob, HasJob
    <3>3. NoChunkSkipped'
      BY <2>1, <2>6 DEF SavesJob, NoChunkSkipped
    <3>4. QED
      BY <2>6, <3>2, <3>3, KeepAlone DEF SavesJob, Moves
  <2>7. CASE LoadsJob(i)
    <3>1. AloneAt(i)'
      BY <2>1, <2>7
      DEF LoadsJob, Quietly, KeepsFrom, AloneAt, AtWork, HasJob
    <3>2. NoChunkSkipped'
      BY <2>1, <2>7 DEF LoadsJob, Quietly, NoChunkSkipped
    <3>3. QED
      BY <2>7, <3>1, <3>2, KeepAlone DEF LoadsJob, Quietly
  <2>8. ASSUME NEW c \in Chunks, TakesRow(i, c) PROVE AloneInv'
    <3>1. AloneAt(i)'
      BY <2>1, <2>8
      DEF TakesRow, Quietly, KeepsFrom, AloneAt, AtWork, Working, KnowsJob, HasJob
    <3>2. NoChunkSkipped'
      BY <2>1, <2>8 DEF TakesRow, Quietly, NoChunkSkipped
    <3>3. QED
      BY <2>8, <3>1, <3>2, KeepAlone DEF TakesRow, Quietly
  <2>9. CASE TakesNone(i)
    <3>1. AloneAt(i)'
      BY <2>1, <2>9
      DEF TakesNone, Quietly, KeepsFrom, AloneAt, AtWork, Working, KnowsJob, HasJob
    <3>2. NoChunkSkipped'
      BY <2>1, <2>9 DEF TakesNone, Quietly, NoChunkSkipped
    <3>3. QED
      BY <2>9, <3>1, <3>2, KeepAlone DEF TakesNone, Quietly
  <2>10. CASE ReadsOrNot(i)
    <3>1. AloneAt(i)'
      BY <2>1, <2>10
      DEF ReadsOrNot, Moves, KeepsFrom, AloneAt, AtWork, Working, KnowsJob, HasJob
    <3>2. NoChunkSkipped'
      BY <2>1, <2>10 DEF ReadsOrNot, Reads, NoChunkSkipped
    <3>3. QED
      BY <2>10, <3>1, <3>2, KeepAlone DEF ReadsOrNot, Moves
  <2>11. CASE Marks(i)
    <3>1. AloneAt(i)'
      BY <2>1, <2>11
      DEF Marks, Moves, KeepsFrom, AloneAt, AtWork, Working, KnowsJob, HasJob
    <3>2. NoChunkSkipped'
      BY <2>1, <2>11 DEF Marks, NoChunkSkipped
    <3>3. QED
      BY <2>11, <3>1, <3>2, KeepAlone DEF Marks, Moves
  <2>12. CASE Releases(i)
    <3>1. AloneAt(i)'
      BY <2>1, <2>12
      DEF Releases, Moves, Quietly, KeepsFrom, AloneAt, AtWork, Working, KnowsJob, HasJob
    <3>2. NoChunkSkipped'
      BY <2>1, <2>12 DEF Releases, Quietly, NoChunkSkipped
    <3>3. QED
      BY <2>12, <3>1, <3>2, KeepAlone DEF Releases, Moves, Quietly
  <2>13. CASE Finalizes(i)
    <3>1. HasJob /\ \A c \in Chunks : chunks[c].gen = job.export
      BY <2>1, <2>13 DEF Finalizes, AloneAt, AtWork, Working, KnowsJob
    <3>2. AllCompleted => AllDelivered'
      BY <2>13, <3>1
      DEF Finalizes, Quietly, AllCompleted, HasJob, ReadInv, RowRead, AllDelivered
    <3>3. AloneAt(i)'
      BY <2>1, <2>13, <3>2
      DEF Finalizes, Moves, Quietly, KeepsFrom, Executed, AloneAt, AtWork, Working,
          KnowsJob, HasJob
    <3>4. NoChunkSkipped'
      BY <2>1, <2>13 DEF Finalizes, Quietly, NoChunkSkipped
    <3>5. QED
      BY <2>13, <3>3, <3>4, KeepAlone DEF Finalizes, Moves, Quietly, Executed
  <2>14. CASE Completes(i)
    <3>1. AloneAt(i)'
      BY <2>14 DEF Completes, Executed, AloneAt, AtWork, Working, KnowsJob
    <3>2. NoChunkSkipped'
      BY <2>1, <2>14 DEF Completes, AloneAt, AllDelivered, NoChunkSkipped
    <3>3. QED
      BY <2>14, <3>1, <3>2, KeepAlone DEF Completes, Executed
  <2>15. CASE Opens(i)
    <3>1. AloneAt(i)'
      BY <2>1, <2>15 DEF Opens, Quietly, AloneAt, AtWork, Working, KnowsJob
    <3>2. NoChunkSkipped'
      BY <2>1, <2>15 DEF Opens, Quietly, NoChunkSkipped
    <3>3. QED
      BY <2>15, <3>1, <3>2, KeepAlone DEF Opens, Quietly
  <2>16. QED
    BY <1>2, <2>2, <2>3, <2>4, <2>5, <2>6, <2>7, <2>8, <2>9, <2>10, <2>11,
       <2>12, <2>13, <2>14, <2>15
    DEF AloneStep
<1>3. QED
  BY <1>1, <1>2, AloneSteps

(***************************************************************************)
(* snapshot_only on its own: as long as no statement fails, no row is left *)
(* in progress, so that nothing is unread when the instance finds nothing  *)
(* to claim.                                                               *)
(***************************************************************************)
ExportAt(i) ==
  /\ me[i].pc \in {"execute", "claim", "finalize"} =>
       \A c \in Chunks : chunks[c].status # "in_progress"
  /\ me[i].pc \in {"process", "mark", "release"} =>
       /\ IsRow(me[i].chunk)
       /\ \A c \in Chunks : chunks[c].status = "in_progress" => c = me[i].chunk[1]
  /\ me[i].pc = "finalize" => \A c \in Chunks : chunks[c].status = "completed"
  /\ me[i].pc = "done" => AllDelivered

ExportInv == \A i \in Instances : ExportAt(i)

\* Initially nothing is exported.
LEMMA InitExport == Init => ExportInv
BY DEF Init, ExportInv, ExportAt, Process

\* A step of the one instance keeps ExportInv if it does so for that instance.
LEMMA KeepExport ==
  ASSUME AloneInv, ExportInv, NEW i \in Instances, me[i].pc # "absent",
         OthersKept(i), ExportAt(i)'
  PROVE  ExportInv'
<1>1. \A k \in Instances : k # i => me'[k] = me[k] /\ me[k].pc = "absent"
  BY DEF OthersKept, AloneInv, OneRuns
<1>2. QED
  BY <1>1 DEF ExportInv, ExportAt

\* Every step without a failing statement keeps ExportInv.
LEMMA NextExport ==
  ASSUME TypeInv, ReadInv, AloneInv, setting.errors = 0, ExportInv, [Next]_vars
  PROVE  ExportInv'
<1>1. /\ errors \in 0..setting.errors /\ chunks \in [Chunks -> RowType]
      /\ \A i \in Instances : me[i].chunk \in Ids
  BY DEF TypeInv, WalType, DbType, MeType, Local
<1>2. CASE Outside
  <2>1. \A k \in Instances : IsRow(me[k].chunk) => IsRow(me[k].chunk)'
    BY <1>1, <1>2 DEF Outside, IsRow, Ids
  <2>2. QED
    BY <1>2, <2>1 DEF Outside, ExportInv, ExportAt, AllDelivered
<1>3. ASSUME NEW i \in Instances, AloneStep(i) PROVE ExportInv'
  <2>1. ExportAt(i) /\ AloneAt(i) /\ WorkerRead(i)
    BY DEF AloneInv, ExportInv, ReadInv
  <2>2. CASE Rests(i)
    <3>1. ExportAt(i)'
      BY <2>2 DEF Rests, Rest, ExportAt
    <3>2. QED
      BY <2>2, <3>1, KeepExport DEF Rests
  <2>3. CASE Retries(i)
    BY <1>1, <2>3 DEF Retries
  <2>4. CASE Skips(i)
    <3>1. AllDelivered'
      BY <2>4 DEF Skips, Quietly, AloneInv, NoChunkSkipped, AllDelivered
    <3>2. ExportAt(i)'
      BY <2>4, <3>1 DEF Skips, Moves, Executed, ExportAt
    <3>3. QED
      BY <2>4, <3>2, KeepExport DEF Skips, Moves
  <2>5. CASE ListsRows(i)
    <3>1. ExportAt(i)'
      BY <2>5 DEF ListsRows, Moves, ExportAt
    <3>2. QED
      BY <2>5, <3>1, KeepExport DEF ListsRows, Moves
  <2>6. CASE SavesJob(i)
    <3>1. ExportAt(i)'
      BY <2>1, <2>6 DEF SavesJob, Moves, ExportAt, AloneAt
    <3>2. QED
      BY <2>6, <3>1, KeepExport DEF SavesJob, Moves
  <2>7. CASE LoadsJob(i)
    <3>1. ExportAt(i)'
      BY <2>1, <2>7 DEF LoadsJob, ExportAt
    <3>2. QED
      BY <2>7, <3>1, KeepExport DEF LoadsJob
  <2>8. ASSUME NEW c \in Chunks, TakesRow(i, c) PROVE ExportInv'
    <3>1. IsRow(me[i].chunk)' /\ me'[i].chunk[1] = c
      BY <1>1, <2>8 DEF TakesRow, IsRow, NoChunk, RowType
    <3>2. ExportAt(i)'
      BY <2>1, <2>8, <3>1 DEF TakesRow, ExportAt
    <3>3. QED
      BY <2>8, <3>2, KeepExport DEF TakesRow
  <2>9. CASE TakesNone(i)
    <3>1. HasJob /\ \A c \in Chunks : chunks[c].gen = job.export
      BY <2>1, <2>9 DEF TakesNone, AloneAt, AtWork, Working, KnowsJob
    <3>2. \A c \in Chunks : chunks[c].status = "completed"
      BY <1>1, <2>1, <2>9, <3>1
      DEF TakesNone, ExportAt, Claimable, HasJob, RowType
    <3>3. ExportAt(i)'
      BY <2>9, <3>2 DEF TakesNone, ExportAt
    <3>4. QED
      BY <2>9, <3>3, KeepExport DEF TakesNone
  <2>10. CASE ReadsOrNot(i)
    <3>1. \E p \in {"mark", "release"} : Moves(i, p)
      BY <2>10 DEF ReadsOrNot
    <3>2. IsRow(me[i].chunk)'
      BY <2>1, <2>10, <3>1 DEF ReadsOrNot, Moves, ExportAt, IsRow
    <3>3. ExportAt(i)'
      BY <2>1, <2>10, <3>1, <3>2 DEF ReadsOrNot, Moves, ExportAt
    <3>4. QED
      BY <2>10, <3>1, <3>3, KeepExport DEF ReadsOrNot, Moves
  <2>11. CASE Marks(i)
    <3>1. ExportAt(i)'
      BY <2>1, <2>11 DEF Marks, Moves, ExportAt
    <3>2. QED
      BY <2>11, <3>1, KeepExport DEF Marks, Moves
  <2>12. CASE Releases(i)
    <3>1. ExportAt(i)'
      BY <2>1, <2>12 DEF Releases, Moves, ExportAt
    <3>2. QED
      BY <2>12, <3>1, KeepExport DEF Releases, Moves
  <2>13. CASE Finalizes(i)
    <3>1. HasJob /\ \A c \in Chunks : chunks[c].gen = job.export
      BY <2>1, <2>13 DEF Finalizes, AloneAt, AtWork, Working, KnowsJob
    <3>2. CASE Moves(i, "complete")
      <4>1. ExportAt(i)'
        BY <3>2 DEF Moves, ExportAt
      <4>2. QED
        BY <2>13, <3>2, <4>1, KeepExport DEF Finalizes, Moves
    <3>3. AllCompleted
      BY <2>1, <2>13, <3>1, SnapshotAssumption
      DEF Finalizes, ExportAt, AllCompleted, HasJob
    <3>4. QED
      BY <2>13, <3>2, <3>3 DEF Finalizes
  <2>14. CASE Completes(i)
    <3>1. AllDelivered'
      BY <2>1, <2>14 DEF Completes, AloneAt, AllDelivered
    <3>2. ExportAt(i)'
      BY <2>14, <3>1 DEF Completes, Executed, ExportAt
    <3>3. QED
      BY <2>14, <3>2, KeepExport DEF Completes
  <2>15. CASE Opens(i)
    <3>1. ExportAt(i)'
      BY <2>15 DEF Opens, ExportAt
    <3>2. QED
      BY <2>15, <3>1, KeepExport DEF Opens
  <2>16. QED
    BY <1>3, <2>2, <2>3, <2>4, <2>5, <2>6, <2>7, <2>8, <2>9, <2>10, <2>11,
       <2>12, <2>13, <2>14, <2>15
    DEF AloneStep
<1>4. QED
  BY <1>2, <1>3, AloneSteps

(***************************************************************************)
(* Mode initial on its own: what is completed for the job was read from    *)
(* views that hold everything before the job's LSN, whatever job that is.  *)
(***************************************************************************)
Covered(c, lsn) == \E v \in delivered[c] : 1..lsn \subseteq v
AllCovered(lsn) == \A c \in Chunks : Covered(c, lsn)

CoverAt(i) ==
  /\ me[i].pc = "mark" => Covered(me[i].chunk[1], job.lsn)
  /\ me[i].pc = "complete" => AllCovered(job.lsn)
  /\ me[i].from = 0 \/ AllCovered(me[i].from)
  /\ (me[i].pc = "opening" /\ ~me[i].fromSnapshot) => AllDelivered
  /\ me[i].pc = "streaming" => AllDelivered

CoverJob ==
  /\ \A e \in exports : e.id = job.export => 1..job.lsn \subseteq e.view
  /\ \A c \in Chunks :
       (HasJob /\ chunks[c].gen = job.export /\ chunks[c].status = "completed")
         => Covered(c, job.lsn)
  /\ job.completed => AllCovered(job.lsn)

CoverInv == CoverJob /\ \A i \in Instances : CoverAt(i)

\* Initially no stream is open.
LEMMA InitCover == Init => CoverInv
BY DEF Init, CoverInv, CoverJob, CoverAt, Process, NoJob, HasJob

MoreDelivered == \A c \in Chunks : delivered[c] \subseteq delivered'[c]

\* What covers a position goes on to cover it when more is delivered.
LEMMA CoverGrows ==
  ASSUME MoreDelivered, NEW lsn, AllCovered(lsn)
  PROVE  \A c \in Chunks : \E v \in delivered'[c] : 1..lsn \subseteq v
BY DEF MoreDelivered, AllCovered, Covered

\* A step of the one instance keeps CoverInv if it does so for that instance
\* and the job.
LEMMA KeepCover ==
  ASSUME AloneInv, CoverInv, NEW i \in Instances, me[i].pc # "absent",
         OthersKept(i), MoreDelivered, CoverAt(i)', CoverJob'
  PROVE  CoverInv'
<1>1. ASSUME NEW k \in Instances, k # i PROVE CoverAt(k)'
  <2>1. me'[k] = me[k] /\ me[k].pc = "absent"
    BY <1>1 DEF OthersKept, AloneInv, OneRuns
  <2>2. CASE me[k].from = 0
    BY <2>1, <2>2 DEF CoverAt
  <2>3. CASE AllCovered(me[k].from)
    <3>1. AllCovered(me[k].from)'
      BY <2>1, <2>3, CoverGrows DEF AllCovered, Covered
    <3>2. QED
      BY <2>1, <3>1 DEF CoverAt
  <2>4. QED
    BY <2>2, <2>3 DEF CoverInv, CoverAt
<1>2. QED
  BY <1>1 DEF CoverInv

\* The job and the exports stay, and no row becomes completed.
LEMMA SameCover ==
  ASSUME CoverJob, UNCHANGED <<job, delivered>>,
         \A e \in exports' : e.id = job.export => e \in exports,
         \A c \in Chunks : chunks'[c].status = "completed" =>
           chunks'[c].gen = chunks[c].gen /\ chunks[c].status = "completed"
  PROVE  CoverJob'
BY DEF CoverJob, AllCovered, Covered, HasJob

\* Every step keeps CoverInv.
LEMMA NextCover ==
  ASSUME TypeInv, ReadInv, LsnInv, AloneInv, CoverInv, [Next]_vars
  PROVE  CoverInv'
<1>1. /\ chunks \in [Chunks -> RowType]
      /\ \A e \in exports' : e.id # 0
      /\ CoverJob
  BY NextType DEF TypeInv, DbType, ServerType, CoverInv
<1>2. CASE Outside
  <2>1. CoverJob'
    BY <1>1, <1>2, SameCover DEF Outside
  <2>2. \A k \in Instances : CoverAt(k)'
    BY <1>2 DEF Outside, CoverInv, CoverAt, AllCovered, Covered, AllDelivered
  <2>3. QED
    BY <2>1, <2>2 DEF CoverInv
<1>3. ASSUME NEW i \in Instances, AloneStep(i) PROVE CoverInv'
  <2>1. CoverAt(i) /\ AloneAt(i) /\ WorkerRead(i)
    BY DEF AloneInv, CoverInv, ReadInv
  <2>2. CASE Rests(i)
    <3>1. CoverJob'
      <4>1. CASE UNCHANGED job
        BY <1>1, <2>2, <4>1, SameCover DEF Rests
      <4>2. CASE job' = NoJob
        BY <1>1, <4>2 DEF NoJob, CoverJob, HasJob
      <4>3. QED
        BY <2>2, <4>1, <4>2 DEF Rests
    <3>2. CoverAt(i)'
      BY <2>1, <2>2 DEF Rests, Rest, CoverAt, AllCovered, Covered
    <3>3. QED
      BY <2>2, <3>1, <3>2, KeepCover DEF Rests, MoreDelivered
  <2>3. CASE Retries(i)
    <3>1. CoverJob'
      BY <1>1, <2>3, SameCover DEF Retries, Quietly
    <3>2. CoverAt(i)'
      BY <2>1, <2>3
      DEF Retries, Moves, KeepsFrom, Quietly, CoverAt, AllCovered, Covered
    <3>3. QED
      BY <2>3, <3>1, <3>2, KeepCover DEF Retries, Moves, Quietly, MoreDelivered
  <2>4. CASE Skips(i)
    <3>1. CoverJob'
      BY <1>1, <2>4, SameCover DEF Skips, Quietly
    <3>2. AllDelivered'
      BY <2>4 DEF Skips, Quietly, AloneInv, NoChunkSkipped, AllDelivered
    <3>3. CoverAt(i)'
      BY <2>1, <2>4, <3>2
      DEF Skips, Moves, KeepsFrom, Quietly, Executed, CoverAt, AllCovered, Covered
    <3>4. QED
      BY <2>4, <3>1, <3>3, KeepCover DEF Skips, Moves, Quietly, MoreDelivered
  <2>5. CASE ListsRows(i)
    <3>1. CoverJob'
      BY <1>1, <2>5, SameCover DEF ListsRows, Quietly
    <3>2. CoverAt(i)'
      BY <2>1, <2>5
      DEF ListsRows, Moves, KeepsFrom, Quietly, CoverAt, AllCovered, Covered
    <3>3. QED
      BY <2>5, <3>1, <3>2, KeepCover DEF ListsRows, Moves, Quietly, MoreDelivered
  <2>6. CASE SavesJob(i)
    <3>1. \A e \in exports' : e.id = job'.export => 1..job'.lsn \subseteq e.view
      BY <2>6 DEF SavesJob, LsnInv
    <3>2. CoverJob'
      BY <2>1, <2>6, <3>1 DEF SavesJob, AloneAt, CoverJob
    <3>3. CoverAt(i)'
      BY <2>1, <2>6 DEF SavesJob, Moves, CoverAt, AllCovered, Covered
    <3>4. QED
      BY <2>6, <3>2, <3>3, KeepCover DEF SavesJob, Moves, MoreDelivered
  <2>7. CASE LoadsJob(i)
    <3>1. CoverJob'
      BY <1>1, <2>7, SameCover DEF LoadsJob, Quietly
    <3>2. CoverAt(i)'
      BY <2>1, <2>7 DEF LoadsJob, KeepsFrom, Quietly, CoverAt, AllCovered, Covered
    <3>3. QED
      BY <2>7, <3>1, <3>2, KeepCover DEF LoadsJob, Quietly, MoreDelivered
  <2>8. ASSUME NEW c \in Chunks, TakesRow(i, c) PROVE CoverInv'
    <3>1. CoverJob'
      BY <1>1, <2>8, SameCover DEF TakesRow, Quietly
    <3>2. CoverAt(i)'
      BY <2>1, <2>8 DEF TakesRow, KeepsFrom, Quietly, CoverAt, AllCovered, Covered
    <3>3. QED
      BY <2>8, <3>1, <3>2, KeepCover DEF TakesRow, Quietly, MoreDelivered
  <2>9. CASE TakesNone(i)
    <3>1. CoverJob'
      BY <1>1, <2>9, SameCover DEF TakesNone, Quietly
    <3>2. CoverAt(i)'
      BY <2>1, <2>9 DEF TakesNone, KeepsFrom, Quietly, CoverAt, AllCovered, Covered
    <3>3. QED
      BY <2>9, <3>1, <3>2, KeepCover DEF TakesNone, Quietly, MoreDelivered
  <2>10. CASE ReadsOrNot(i)
    <3>1. MoreDelivered
      BY <2>10 DEF ReadsOrNot, Reads, MoreDelivered
    <3>2. CoverJob'
      <4>1. \A c \in Chunks : Covered(c, job.lsn) => Covered(c, job.lsn)'
        BY <2>10, <3>1 DEF ReadsOrNot, MoreDelivered, Covered
      <4>2. QED
        BY <1>1, <2>10, <4>1 DEF ReadsOrNot, CoverJob, AllCovered, HasJob
    <3>3. me'[i].from = 0 \/ AllCovered(me[i].from)'
      BY <2>1, <2>10, <3>1, CoverGrows
      DEF ReadsOrNot, KeepsFrom, CoverAt, AllCovered, Covered
    <3>4. CASE Moves(i, "release")
      <4>1. CoverAt(i)'
        BY <3>3, <3>4 DEF Moves, CoverAt
      <4>2. QED
        BY <2>10, <3>1, <3>2, <3>4, <4>1, KeepCover DEF ReadsOrNot, Moves
    <3>5. ASSUME NEW e \in exports, Moves(i, "mark"), Reads(i, e) PROVE CoverInv'
      <4>1. e.id = job.export
        BY <2>1, <2>10, <3>5
        DEF ReadsOrNot, Reads, AloneAt, Working, KnowsJob
      <4>2. 1..job'.lsn \subseteq e.view
        BY <1>1, <2>10, <4>1 DEF ReadsOrNot, CoverJob
      <4>3. Covered(me[i].chunk[1], job.lsn)'
        BY <3>5, <4>2 DEF Moves, Reads, Covered
      <4>4. CoverAt(i)'
        BY <3>3, <3>5, <4>3 DEF Moves, CoverAt
      <4>5. QED
        BY <2>10, <3>1, <3>2, <3>5, <4>4, KeepCover DEF ReadsOrNot, Moves
    <3>6. QED
      BY <2>10, <3>4, <3>5 DEF ReadsOrNot
  <2>11. CASE Marks(i)
    <3>1. Covered(me[i].chunk[1], job.lsn)
      BY <2>1, <2>11 DEF Marks, CoverAt
    <3>2. CoverJob'
      <4>1. \A c \in Chunks : Covered(c, job.lsn) => Covered(c, job.lsn)'
        BY <2>11 DEF Marks, Covered
      <4>2. HasJob' => HasJob
        BY <2>11 DEF Marks, HasJob
      <4>3. \A c \in Chunks :
              (HasJob' /\ chunks'[c].gen = job'.export /\ chunks'[c].status = "completed")
                => Covered(c, job.lsn)'
        BY <1>1, <2>11, <3>1, <4>1, <4>2 DEF Marks, CoverJob
      <4>4. QED
        BY <1>1, <2>11, <4>1, <4>3 DEF Marks, CoverJob, AllCovered
    <3>3. CoverAt(i)'
      BY <2>1, <2>11 DEF Marks, Moves, KeepsFrom, CoverAt, AllCovered, Covered
    <3>4. QED
      BY <2>11, <3>2, <3>3, KeepCover DEF Marks, Moves, MoreDelivered
  <2>12. CASE Releases(i)
    <3>1. CoverJob'
      BY <1>1, <2>12, SameCover DEF Releases, Quietly
    <3>2. CoverAt(i)'
      BY <2>1, <2>12
      DEF Releases, Moves, KeepsFrom, Quietly, CoverAt, AllCovered, Covered
    <3>3. QED
      BY <2>12, <3>1, <3>2, KeepCover DEF Releases, Moves, Quietly, MoreDelivered
  <2>13. CASE Finalizes(i)
    <3>1. CoverJob'
      BY <1>1, <2>13, SameCover DEF Finalizes, Quietly
    <3>2. /\ HasJob /\ \A c \in Chunks : chunks[c].gen = job.export
          /\ setting.only \/ me[i].fromSnapshot
      BY <2>1, <2>13 DEF Finalizes, AloneAt, AtWork, Working, KnowsJob
    <3>3. AllCompleted => AllCovered(job.lsn)'
      BY <1>1, <2>13, <3>2
      DEF Finalizes, Quietly, AllCompleted, CoverJob, AllCovered, Covered, HasJob
    <3>4. me'[i].from = 0 \/ AllCovered(me[i].from)'
      BY <2>1, <2>13
      DEF Finalizes, Quietly, KeepsFrom, CoverAt, AllCovered, Covered
    <3>5. CoverAt(i)'
      BY <2>13, <3>2, <3>3, <3>4
      DEF Finalizes, Moves, KeepsFrom, Executed, CoverAt
    <3>6. QED
      BY <2>13, <3>1, <3>5, KeepCover DEF Finalizes, Moves, Quietly, MoreDelivered
  <2>14. CASE Completes(i)
    <3>1. AllCovered(job.lsn)' /\ AllDelivered'
      BY <2>1, <2>14
      DEF Completes, CoverAt, AloneAt, AllDelivered, AllCovered, Covered
    <3>2. CoverJob'
      BY <1>1, <2>14, <3>1 DEF Completes, CoverJob, AllCovered, HasJob
    <3>3. CoverAt(i)'
      BY <2>1, <2>14, <3>1
      DEF Completes, KeepsFrom, Executed, CoverAt, AllCovered, Covered
    <3>4. QED
      BY <2>14, <3>2, <3>3, KeepCover DEF Completes, MoreDelivered
  <2>15. CASE Opens(i)
    <3>1. CoverJob'
      BY <1>1, <2>15, SameCover DEF Opens, Quietly
    <3>2. job.completed => AllDelivered' /\ AllCovered(job.lsn)'
      BY <1>1, <2>15
      DEF Opens, Quietly, AloneInv, NoChunkSkipped, AllDelivered, CoverJob, AllCovered,
          Covered
    <3>3. ~me[i].fromSnapshot => AllDelivered'
      BY <2>1, <2>15 DEF Opens, Quietly, CoverAt, AllDelivered
    <3>4. CoverAt(i)'
      <4>1. me'[i].from = 0 \/ AllCovered(me[i].from)'
        BY <2>1, <2>15, <3>2 DEF Opens, Quietly, CoverAt, AllCovered, Covered
      <4>2. QED
        BY <2>15, <3>2, <3>3, <4>1 DEF Opens, CoverAt
    <3>5. QED
      BY <2>15, <3>1, <3>4, KeepCover DEF Opens, Quietly, MoreDelivered
  <2>16. QED
    BY <1>3, <2>2, <2>3, <2>4, <2>5, <2>6, <2>7, <2>8, <2>9, <2>10, <2>11,
       <2>12, <2>13, <2>14, <2>15
    DEF AloneStep
<1>4. QED
  BY <1>2, <1>3, AloneSteps

\* What holds of an instance on its own.
SoloInv ==
  /\ SnapshotInv
  /\ setting.started = 1 =>
       /\ AloneInv
       /\ setting.errors = 0 => ExportInv
       /\ Plain => CoverInv /\ (~setting.only => SlotInv)

\* The invariants of a single instance hold together.
LEMMA SoloInvariant == Spec => []SoloInv
<1>1. Init => SoloInv
  BY InitSnapshot, InitAlone, InitExport, InitCover, InitSlot DEF SoloInv
<1>2. SoloInv /\ [Next]_vars => SoloInv'
  <2>1. SUFFICES ASSUME SoloInv, [Next]_vars PROVE SoloInv'
    OBVIOUS
  <2>2. SnapshotInv' /\ TypeInv /\ ReadInv /\ OwnerInv /\ (Plain => LsnInv)
    BY <2>1, NextSnapshot DEF SoloInv, SnapshotInv
  <2>3. UNCHANGED setting /\ Plain' = Plain
    BY <2>1, SettingStays DEF Plain
  <2>4. setting.started = 1 => AloneInv'
    BY <2>1, <2>2, NextAlone DEF SoloInv
  <2>5. (setting.started = 1 /\ setting.errors = 0) => ExportInv'
    BY <2>1, <2>2, NextExport DEF SoloInv
  <2>6. (setting.started = 1 /\ Plain) => CoverInv'
    BY <2>1, <2>2, NextCover DEF SoloInv
  <2>7. (setting.started = 1 /\ Plain /\ ~setting.only) => SlotInv'
    BY <2>1, <2>2, NextSlot DEF SoloInv
  <2>8. QED
    BY <2>2, <2>3, <2>4, <2>5, <2>6, <2>7 DEF SoloInv
<1>3. QED
  BY <1>1, <1>2, PTL DEF Spec

\* A connector on its own loses nothing between snapshot and stream, whatever
\* fails (ZeroDataLossAlone): with any number of crashes, failing statements and
\* commits, with or without resnapshot, every chunk has reached the listener from
\* a view that holds the commits before the position the stream starts at.
THEOREM AloneZeroDataLoss == Spec => []ZeroDataLossAlone
<1>1. SoloInv => ZeroDataLossAlone
  <2>1. SUFFICES ASSUME SoloInv, setting.started = 1, Plain, NEW i \in Instances,
                        me[i].pc = "streaming", NEW c \in Chunks
                 PROVE  \E v \in delivered[c] : 1..Max({slot, me[i].from}) \subseteq v
    BY DEF ZeroDataLossAlone, ZeroDataLoss, Plain, At
  <2>2. /\ SlotInv /\ CoverAt(i)
    BY <2>1 DEF SoloInv, AloneInv, AloneAt, CoverInv
  <2>3. delivered[c] # {} /\ (me[i].from = 0 \/ Covered(c, me[i].from))
    BY <2>1, <2>2 DEF CoverAt, AllDelivered, AllCovered
  <2>4. 1..0 = {}
    OBVIOUS
  <2>5. PICK v \in delivered[c] : 1..me[i].from \subseteq v
    BY <2>3, <2>4 DEF Covered
  <2>6. 1..slot \subseteq v
    BY <2>2 DEF SlotInv
  <2>7. slot \in Int /\ me[i].from \in Int
    BY <2>1, SettingType
    DEF SoloInv, SnapshotInv, TypeInv, DbType, MeType, Local, NoSlot
  <2>8. Max({slot, me[i].from}) = slot \/ Max({slot, me[i].from}) = me[i].from
    BY <2>7, MaxOfTwo
  <2>9. QED
    BY <2>5, <2>6, <2>8
<1>2. QED
  BY <1>1, SoloInvariant, PTL

\* A connector on its own skips no chunk, whatever fails (NoChunkSkippedAlone):
\* the chunks are inserted table after table and batch after batch, and a crash
\* or a failing statement can come between any two of them, but a job is only
\* completed once every chunk has reached the listener.
THEOREM AloneEveryChunkRead == Spec => []NoChunkSkippedAlone
<1>1. SoloInv => NoChunkSkippedAlone
  BY DEF SoloInv, AloneInv, NoChunkSkippedAlone
<1>2. QED
  BY <1>1, SoloInvariant, PTL

\* A connector on its own in mode snapshot_only that returns without an error
\* has handed over every chunk (ExportCompleteAlone), although it may have
\* crashed any number of times before, as long as no statement failed.
THEOREM AloneExportComplete == Spec => []ExportCompleteAlone
<1>1. SoloInv => ExportCompleteAlone
  BY DEF SoloInv, ExportInv, ExportAt, AllDelivered, ExportCompleteAlone,
         ExportComplete, At
<1>2. QED
  BY <1>1, SoloInvariant, PTL

=============================================================================
