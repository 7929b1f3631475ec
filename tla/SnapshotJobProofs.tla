------------------------- MODULE SnapshotJobProofs -------------------------
(***************************************************************************)
(* Proofs about the snapshot job, for any number of instances and chunks,  *)
(* any limits of the retries and any number of commits, crashes and        *)
(* failing statements.                                                     *)
(***************************************************************************)
EXTENDS SnapshotJob, FiniteSetTheorems, TLAPS

(***************************************************************************)
(* Facts about finite sets: the id of a new export exists, and so does the *)
(* first of the rows that can be claimed.                                  *)
(***************************************************************************)
LEMMA ImageFinite ==
  ASSUME NEW S, IsFiniteSet(S), NEW f
  PROVE  IsFiniteSet({f[x] : x \in S})
<1> DEFINE T == {f[x] : x \in S}
           g == [x \in S |-> f[x]]
<1>1. g \in Surjection(S, T)
  BY DEF Surjection
<1>2. QED
  BY <1>1, FS_Surjection

\* Sets of that few elements are finite.
LEMMA FiveFinite ==
  ASSUME NEW a, NEW b, NEW c, NEW d, NEW e
  PROVE  IsFiniteSet({a, b, c, d, e})
<1>1. IsFiniteSet({a})
  BY FS_Singleton
<1>2. IsFiniteSet({a} \cup {b})
  BY <1>1, FS_AddElement
<1>3. IsFiniteSet(({a} \cup {b}) \cup {c})
  BY <1>2, FS_AddElement
<1>4. IsFiniteSet((({a} \cup {b}) \cup {c}) \cup {d})
  BY <1>3, FS_AddElement
<1>5. IsFiniteSet(((({a} \cup {b}) \cup {c}) \cup {d}) \cup {e})
  BY <1>4, FS_AddElement
<1>6. ((({a} \cup {b}) \cup {c}) \cup {d}) \cup {e} = {a, b, c, d, e}
  OBVIOUS
<1>7. QED
  BY <1>5, <1>6

\* The id of a new export is mentioned nowhere.
LEMMA NewIdIsNew ==
  ASSUME IsFiniteSet(exports)
  PROVE  NewId \in Nat \ {0} /\ NewId \notin UsedIds
<1> DEFINE Rows == {chunks[c].gen : c \in Chunks}
           Opened == {e.id : e \in exports}
           Of(i) == {me[i].own, me[i].known, me[i].chunk[2], me[i].chan[2],
                     me[i].active[2]}
           gens == [c \in Chunks |-> chunks[c].gen]
           ids == [e \in exports |-> e.id]
           of == [i \in Instances |-> Of(i)]
<1>1. IsFiniteSet(Rows)
  <2>1. IsFiniteSet({gens[c] : c \in Chunks})
    BY ImageFinite, SnapshotAssumption
  <2>2. {gens[c] : c \in Chunks} = Rows
    OBVIOUS
  <2>3. QED
    BY <2>1, <2>2
<1>2. IsFiniteSet(Opened)
  <2>1. IsFiniteSet({ids[e] : e \in exports})
    BY ImageFinite
  <2>2. {ids[e] : e \in exports} = Opened
    OBVIOUS
  <2>3. QED
    BY <2>1, <2>2
<1>3. IsFiniteSet(UNION {Of(i) : i \in Instances})
  <2>1. IsFiniteSet({of[i] : i \in Instances})
    <3> HIDE DEF of
    <3>1. QED
      BY ImageFinite, SnapshotAssumption
  <2>2. {of[i] : i \in Instances} = {Of(i) : i \in Instances}
    OBVIOUS
  <2>3. \A T \in {Of(i) : i \in Instances} : IsFiniteSet(T)
    <3>1. SUFFICES ASSUME NEW i \in Instances PROVE IsFiniteSet(Of(i))
      OBVIOUS
    <3>2. QED
      BY FiveFinite
  <2>4. QED
    BY <2>1, <2>2, <2>3, FS_UNION
<1>4. IsFiniteSet(UsedIds)
  <2>1. IsFiniteSet({job.export} \cup Rows)
    BY <1>1, FS_Singleton, FS_Union
  <2>2. IsFiniteSet(({job.export} \cup Rows) \cup Opened)
    BY <2>1, <1>2, FS_Union
  <2>3. IsFiniteSet((({job.export} \cup Rows) \cup Opened)
                     \cup UNION {Of(i) : i \in Instances})
    BY <2>2, <1>3, FS_Union
  <2>4. QED
    BY <2>3 DEF UsedIds
<1> DEFINE n == Cardinality(UsedIds)
<1>5. n \in Nat
  BY <1>4, FS_CardinalityType
<1>6. \E k \in 1..(n + 1) : k \notin UsedIds
  <2>1. SUFFICES ASSUME 1..(n + 1) \in SUBSET UsedIds PROVE FALSE
    OBVIOUS
  <2>2. Cardinality(1..(n + 1)) <= n
    BY <2>1, <1>4, FS_Subset
  <2>3. Cardinality(1..(n + 1)) = n + 1
    <3>1. 1 \in Int /\ n + 1 \in Int /\ ~(1 > n + 1)
      BY <1>5
    <3>2. Cardinality(1..(n + 1)) = IF 1 > n + 1 THEN 0 ELSE (n + 1) - 1 + 1
      BY <3>1, FS_Interval
    <3>3. QED
      BY <3>1, <3>2, <1>5
  <2>4. QED
    BY <2>2, <2>3, <1>5
<1>7. NewId \in 1..(n + 1) /\ NewId \notin UsedIds
  BY <1>6 DEF NewId
<1>8. QED
  BY <1>5, <1>7

(***************************************************************************)
(* Types.                                                                  *)
(***************************************************************************)
\* The state of an instance.
Local ==
  [pc : Phases, lsn : 0..setting.writes, own : Nat, saved : {0} \cup Chunks,
   known : Nat, chunk : Ids, chan : Ids, active : Ids, execs : 0..(MaxExecute - 1),
   preps : 0..MaxPrepare, fromSnapshot : BOOLEAN, from : 0..setting.writes]

\* The instances are typed, and one that may fail once more has an attempt
\* left to count.
MeType ==
  /\ me \in [Instances -> Local]
  /\ \A i \in Instances : me[i].pc # "failed" => me[i].preps < MaxPrepare

WalType ==
  /\ setting \in Settings
  /\ written \in 0..setting.writes /\ visible \subseteq 1..written
  /\ crashes \in 0..setting.crashes /\ errors \in 0..setting.errors

\* What a chunk row is.
RowType == [gen : Nat, fresh : BOOLEAN,
            status : {"pending", "in_progress", "completed"}]

DbType ==
  /\ slot \in {NoSlot} \cup 0..setting.writes
  /\ job \in [export : Nat, lsn : 0..setting.writes, done : Nat,
              completed : BOOLEAN]
  /\ chunks \in [Chunks -> RowType]

\* Only finitely many exports are open.
ServerType ==
  /\ lock \in Instances \cup {Nobody}
  /\ exports \subseteq [id : Nat \ {0}, owner : Instances,
                        view : SUBSET (1..setting.writes)]
  /\ IsFiniteSet(exports)
  /\ delivered \in [Chunks -> SUBSET SUBSET (1..setting.writes)]

\* TypeOK with what its induction needs.
TypeInv == MeType /\ WalType /\ DbType /\ ServerType

\* The inductive type invariant implies TypeOK.
LEMMA TypeInvType == TypeInv => TypeOK
BY DEF TypeInv, MeType, WalType, DbType, RowType, ServerType, TypeOK, Local

\* The bounds of a setting are numbers.
LEMMA SettingType ==
  ASSUME WalType
  PROVE  /\ setting.writes \in Nat /\ setting.crashes \in Nat
         /\ setting.errors \in Nat
BY SnapshotAssumption DEF WalType, Setting

\* The initial states are typed.
LEMMA InitType == Init => TypeInv
<1>1. SUFFICES ASSUME Init PROVE TypeInv
  OBVIOUS
<1>2. /\ setting.writes \in Nat /\ setting.crashes \in Nat
      /\ setting.errors \in Nat
  BY <1>1, SnapshotAssumption DEF Init, Setting
<1>3. WalType /\ DbType
  BY <1>1, <1>2 DEF Init, WalType, DbType, RowType, NoSlot, NoJob, NoRow, Row
<1>4. IsFiniteSet(exports)
  BY <1>1, FS_EmptySet DEF Init
<1>5. ServerType
  BY <1>1, <1>4 DEF Init, ServerType
<1>6. MeType
  BY <1>1, <1>2, SnapshotAssumption
  DEF Init, MeType, Local, Process, Phases, Ids, NoChunk
<1>7. QED
  BY <1>3, <1>5, <1>6 DEF TypeInv

\* A step that gives one instance a typed state keeps MeType.
LEMMA LocalStep ==
  ASSUME MeType, NEW i \in Instances, NEW r \in Local,
         r.pc # "failed" => r.preps < MaxPrepare,
         me' = [me EXCEPT ![i] = r], UNCHANGED setting
  PROVE  MeType'
<1>1. Local' = Local
  BY DEF Local
<1>2. QED
  BY <1>1 DEF MeType

\* How a step changes the state of one instance.
LEMMA GotoType ==
  ASSUME MeType, NEW i \in Instances, NEW p \in Phases, Goto(i, p),
         me[i].pc # "failed", UNCHANGED setting
  PROVE  MeType'
BY DEF MeType, Goto, Local

\* A failed attempt to prepare (AttemptFails) keeps the types.
LEMMA FailType ==
  ASSUME MeType, NEW i \in Instances, AttemptFails(i),
         me[i].pc # "failed", UNCHANGED setting
  PROVE  MeType'
<1> DEFINE p == IF ~setting.only /\ me[i].preps + 1 < MaxPrepare
                  THEN "slot" ELSE "failed"
<1>1. me' = [me EXCEPT ![i] = [me[i] EXCEPT !.preps = me[i].preps + 1,
                                            !.execs = 0, !.pc = p]]
  BY DEF AttemptFails
<1>2. p \in Phases /\ (p # "failed" => me[i].preps + 1 < MaxPrepare)
  BY DEF Phases
<1>3. me[i].preps + 1 \in 0..MaxPrepare /\ 0 \in 0..(MaxExecute - 1)
  BY SnapshotAssumption DEF MeType, Local
<1> DEFINE r == [me[i] EXCEPT !.preps = me[i].preps + 1, !.execs = 0, !.pc = p]
<1> HIDE DEF p
<1>4. me' = [me EXCEPT ![i] = r]
  BY <1>1
<1>5. me[i] \in Local
  BY DEF MeType
<1>6. r \in Local /\ r.pc = p /\ r.preps = me[i].preps + 1
  BY <1>2, <1>3, <1>5 DEF Local
<1> HIDE DEF r
<1>7. QED
  BY <1>2, <1>4, <1>6, LocalStep

\* So does an attempt that finds its job gone (Invalidated).
LEMMA AgainType ==
  ASSUME MeType, NEW i \in Instances, Invalidated(i),
         me[i].pc # "failed", UNCHANGED setting
  PROVE  MeType'
<1>1. CASE ~setting.only /\ me[i].execs + 1 < MaxExecute
  <2>1. me[i].execs + 1 \in 0..(MaxExecute - 1)
    BY <1>1, SnapshotAssumption DEF MeType, Local
  <2>2. me' = [me EXCEPT ![i] = [me[i] EXCEPT !.execs = me[i].execs + 1,
                                              !.pc = "execute"]]
    BY <1>1 DEF Invalidated
  <2>3. "execute" \in Phases
    BY DEF Phases
  <2> DEFINE r == [me[i] EXCEPT !.execs = me[i].execs + 1, !.pc = "execute"]
  <2>4. me[i] \in Local /\ me[i].preps < MaxPrepare
    BY DEF MeType
  <2>5. me' = [me EXCEPT ![i] = r]
    BY <2>2
  <2>6. r \in Local /\ r.preps < MaxPrepare
    BY <2>1, <2>3, <2>4 DEF Local
  <2> HIDE DEF r
  <2>7. QED
    BY <2>5, <2>6, LocalStep
<1>2. CASE ~(~setting.only /\ me[i].execs + 1 < MaxExecute)
  BY <1>2, FailType DEF Invalidated
<1>3. QED
  BY <1>1, <1>2

\* So does a process that starts or ends.
LEMMA ProcessType ==
  ASSUME MeType, WalType, NEW i \in Instances, NEW p \in Phases,
         me' = [me EXCEPT ![i] = Process(p)], UNCHANGED setting
  PROVE  MeType'
<1>1. Process(p) \in Local /\ Process(p).preps < MaxPrepare
  BY SettingType, SnapshotAssumption DEF Process, Local, Ids, NoChunk
<1>2. QED
  BY <1>1 DEF MeType, Local

\* So does an instance that notes where its stream begins.
LEMMA OpenType ==
  ASSUME MeType, NEW i \in Instances, NEW p \in Phases, p # "failed",
         me[i].pc # "failed", NEW l \in 0..setting.writes,
         me' = [me EXCEPT ![i].pc = p, ![i].from = l], UNCHANGED setting
  PROVE  MeType'
<1>1. me' = [me EXCEPT ![i] = [me[i] EXCEPT !.pc = p, !.from = l]]
  OBVIOUS
<1>2. QED
  BY <1>1 DEF MeType, Local

\* So does an instance that goes on to read chunks.
LEMMA ExecuteType ==
  ASSUME MeType, NEW i \in Instances, me[i].pc # "failed", NEW b \in BOOLEAN,
         me' = [me EXCEPT ![i].pc = "execute", ![i].fromSnapshot = b],
         UNCHANGED setting
  PROVE  MeType'
<1>1. me' = [me EXCEPT ![i] = [me[i] EXCEPT !.pc = "execute", !.fromSnapshot = b]]
  OBVIOUS
<1>2. "execute" \in Phases
  BY DEF Phases
<1>3. QED
  BY <1>1, <1>2 DEF MeType, Local

\* So does a coordinator that inserts a batch of chunks.
LEMMA InsertType ==
  ASSUME MeType, NEW i \in Instances, me[i].pc # "failed", NEW last \in Chunks,
         NEW p \in Phases,
         me' = [me EXCEPT ![i].saved = last, ![i].pc = p], UNCHANGED setting
  PROVE  MeType'
<1>1. me' = [me EXCEPT ![i] = [me[i] EXCEPT !.saved = last, !.pc = p]]
  OBVIOUS
<1>2. QED
  BY <1>1 DEF MeType, Local

\* So does a coordinator that closes its export.
LEMMA DisownType ==
  ASSUME MeType, NEW i \in Instances, me[i].pc # "failed", NEW p \in Phases,
         me' = [me EXCEPT ![i].own = 0, ![i].pc = p], UNCHANGED setting
  PROVE  MeType'
<1>1. me' = [me EXCEPT ![i] = [me[i] EXCEPT !.own = 0, !.pc = p]]
  OBVIOUS
<1>2. QED
  BY <1>1 DEF MeType, Local

\* So does a worker that leaves the loop over the chunks.
LEMMA LeaveLoopType ==
  ASSUME MeType, NEW i \in Instances, me[i].pc # "failed",
         me' = [me EXCEPT ![i].pc = "finalize", ![i].chunk = NoChunk,
                          ![i].chan = NoChunk, ![i].active = NoChunk],
         UNCHANGED setting
  PROVE  MeType'
<1>1. "finalize" \in Phases /\ NoChunk \in Ids
  BY DEF Phases, Ids
<1>2. me' = [me EXCEPT ![i] = [me[i] EXCEPT !.pc = "finalize", !.chunk = NoChunk,
                                            !.chan = NoChunk, !.active = NoChunk]]
  OBVIOUS
<1>3. QED
  BY <1>1, <1>2 DEF MeType, Local

\* Closing exports leaves finitely many.
LEMMA FewerExports ==
  ASSUME ServerType, NEW S \in SUBSET exports
  PROVE  IsFiniteSet(S)
BY FS_Subset DEF ServerType

\* A chunk row with a new status is a chunk row.
LEMMA RowUpdate ==
  ASSUME NEW r \in RowType, NEW st \in {"pending", "in_progress", "completed"},
         NEW b \in BOOLEAN
  PROVE  [r EXCEPT !.status = st, !.fresh = b] \in RowType
BY DEF RowType

\* A chunk row with a new heartbeat is a chunk row.
LEMMA RowFresh ==
  ASSUME NEW r \in RowType, NEW b \in BOOLEAN
  PROVE  [r EXCEPT !.fresh = b] \in RowType
BY DEF RowType

\* UPDATE of a chunk by its id keeps the rows typed.
LEMMA StatusType ==
  ASSUME DbType, NEW id \in Ids,
         NEW st \in {"pending", "completed"}, SetStatus(id, st)
  PROVE  chunks' \in [Chunks -> RowType]
<1>1. CASE IsRow(id)
  <2>1. id[1] \in Chunks
    BY <1>1 DEF IsRow, Ids
  <2> DEFINE b == chunks[id[1]].fresh /\ st # "pending"
             row == [chunks[id[1]] EXCEPT !.status = st, !.fresh = b]
  <2>2. chunks' = [chunks EXCEPT ![id[1]] = row]
    BY <1>1 DEF SetStatus
  <2>3. row \in RowType
    <3>1. b \in BOOLEAN
      OBVIOUS
    <3>2. chunks[id[1]] \in RowType
      BY <2>1 DEF DbType
    <3> HIDE DEF b
    <3>3. QED
      BY <3>1, <3>2, RowUpdate
  <2> HIDE DEF row
  <2>4. QED
    BY <2>1, <2>2, <2>3 DEF DbType
<1>2. CASE ~IsRow(id)
  BY <1>2 DEF SetStatus, DbType
<1>3. QED
  BY <1>1, <1>2

\* claimNextChunk takes the chunk c.
TakesChunk(i, c) ==
  LET id == <<c, chunks[c].gen>> IN
  /\ chunks' = [chunks EXCEPT ![c].status = "in_progress", ![c].fresh = TRUE]
  /\ me' = [me EXCEPT ![i].chunk = id, ![i].pc = "process",
                      ![i].chan = IF @ = NoChunk THEN id ELSE @]

\* Every step keeps the types.
LEMMA NextType == TypeInv /\ [Next]_vars => TypeInv'
<1>1. SUFFICES ASSUME TypeInv, [Next]_vars PROVE TypeInv'
  OBVIOUS
<1>2. /\ MeType /\ WalType /\ DbType /\ ServerType
      /\ setting.writes \in Nat /\ setting.crashes \in Nat
      /\ setting.errors \in Nat
  BY <1>1, SettingType DEF TypeInv
<1>3. ASSUME NEW i \in Instances, ShouldTakeSnapshot(i) PROVE TypeInv'
  <2>1. UNCHANGED setting /\ WalType' /\ DbType' /\ ServerType'
    BY <1>3, <1>2 DEF ShouldTakeSnapshot, WalType, DbType, ServerType, wal, db, faults
  <2>2. MeType'
    <3>1. me[i].pc # "failed" /\ \E p \in Phases : Goto(i, p)
      BY <1>3 DEF ShouldTakeSnapshot, At, Phases, Taking, Executed
    <3>2. QED
      BY <1>2, <2>1, <3>1, GotoType
  <2>3. QED
    BY <2>1, <2>2 DEF TypeInv
<1>4. ASSUME NEW i \in Instances, SlotInfo(i) PROVE TypeInv'
  <2>1. UNCHANGED setting /\ WalType' /\ DbType' /\ ServerType'
    BY <1>4, <1>2 DEF SlotInfo, WalType, DbType, ServerType, wal, db, faults
  <2>2. MeType'
    <3>1. me[i].pc # "failed" /\ \E p \in Phases : Goto(i, p)
      BY <1>4 DEF SlotInfo, At, Phases
    <3>2. QED
      BY <1>2, <2>1, <3>1, GotoType
  <2>3. QED
    BY <2>1, <2>2 DEF TypeInv
<1>5. ASSUME NEW i \in Instances, SetupJob(i) PROVE TypeInv'
  <2>1. UNCHANGED setting /\ WalType' /\ DbType' /\ ServerType'
    BY <1>5, <1>2 DEF SetupJob, WalType, DbType, ServerType, wal, db, faults
  <2>2. MeType'
    <3>1. me[i].pc # "failed" /\ \E p \in Phases : Goto(i, p)
      BY <1>5 DEF SetupJob, At, Phases
    <3>2. QED
      BY <1>2, <2>1, <3>1, GotoType
  <2>3. QED
    BY <2>1, <2>2 DEF TypeInv
<1>6. ASSUME NEW i \in Instances, InitializeCoordinator(i) PROVE TypeInv'
  <2>1. UNCHANGED setting /\ WalType' /\ DbType' /\ ServerType'
    BY <1>6, <1>2 DEF InitializeCoordinator, WalType, DbType, ServerType, wal, db, faults
  <2>2. MeType'
    <3>1. me[i].pc # "failed" /\ \E p \in Phases : Goto(i, p)
      BY <1>6 DEF InitializeCoordinator, At, Phases
    <3>2. QED
      BY <1>2, <2>1, <3>1, GotoType
  <2>3. QED
    BY <2>1, <2>2 DEF TypeInv
<1>7. ASSUME NEW i \in Instances, CleanupChunks(i) PROVE TypeInv'
  <2>1. UNCHANGED setting /\ WalType' /\ DbType' /\ ServerType'
    BY <1>7, <1>2 DEF CleanupChunks, NoRow, Row, RowType, WalType, DbType, ServerType, wal, db, faults
  <2>2. MeType'
    <3>1. me[i].pc # "failed" /\ \E p \in Phases : Goto(i, p)
      BY <1>7 DEF CleanupChunks, At, Phases
    <3>2. QED
      BY <1>2, <2>1, <3>1, GotoType
  <2>3. QED
    BY <2>1, <2>2 DEF TypeInv
<1>8. ASSUME NEW i \in Instances, CleanupJob(i) PROVE TypeInv'
  <2>1. UNCHANGED setting /\ WalType' /\ DbType' /\ ServerType'
    BY <1>8, <1>2 DEF CleanupJob, NoJob, WalType, DbType, ServerType, wal, db, faults
  <2>2. MeType'
    <3>1. me[i].pc # "failed" /\ \E p \in Phases : Goto(i, p)
      BY <1>8 DEF CleanupJob, At, Phases, Taking
    <3>2. QED
      BY <1>2, <2>1, <3>1, GotoType
  <2>3. QED
    BY <2>1, <2>2 DEF TypeInv
<1>9. ASSUME NEW i \in Instances, ProcessChunk(i) PROVE TypeInv'
  <2>1. UNCHANGED setting /\ WalType' /\ DbType' /\ ServerType'
    BY <1>9, <1>2 DEF ProcessChunk, WalType, DbType, ServerType, wal, db, faults
  <2>2. MeType'
    <3>1. me[i].pc # "failed" /\ \E p \in Phases : Goto(i, p)
      BY <1>9 DEF ProcessChunk, At, Phases
    <3>2. QED
      BY <1>2, <2>1, <3>1, GotoType
  <2>3. QED
    BY <2>1, <2>2 DEF TypeInv
<1>10. ASSUME NEW i \in Instances, CheckJobCompleted(i) PROVE TypeInv'
  <2>1. UNCHANGED setting /\ WalType' /\ DbType' /\ ServerType'
    BY <1>10, <1>2 DEF CheckJobCompleted, WalType, DbType, ServerType, wal, db, faults
  <2>2. MeType'
    <3>1. me[i].pc # "failed" /\ \E p \in Phases : Goto(i, p)
      BY <1>10 DEF CheckJobCompleted, At, Phases, Executed
    <3>2. QED
      BY <1>2, <2>1, <3>1, GotoType
  <2>3. QED
    BY <2>1, <2>2 DEF TypeInv
<1>11. ASSUME NEW i \in Instances, WaitTimeout(i) PROVE TypeInv'
  <2>1. UNCHANGED setting /\ WalType' /\ DbType' /\ ServerType'
    BY <1>11, <1>2 DEF WaitTimeout, WalType, DbType, ServerType, wal, db, faults
  <2>2. MeType'
    <3>1. me[i].pc # "failed" /\ AttemptFails(i)
      BY <1>11 DEF WaitTimeout, At
    <3>2. QED
      BY <1>2, <2>1, <3>1, FailType
  <2>3. QED
    BY <2>1, <2>2 DEF TypeInv
<1>12. ASSUME NEW i \in Instances, CreateSlot(i) PROVE TypeInv'
  <2>1. UNCHANGED setting /\ WalType' /\ DbType' /\ ServerType'
    BY <1>12, <1>2 DEF CreateSlot, NoSlot, WalType, DbType, ServerType, wal, db, faults
  <2>2. MeType'
    <3>1. /\ me[i].pc # "failed"
          /\ AttemptFails(i) \/ \E p \in Phases : Goto(i, p)
      BY <1>12 DEF CreateSlot, At, Phases
    <3>2. QED
      BY <1>2, <2>1, <3>1, GotoType, FailType
  <2>3. QED
    BY <2>1, <2>2 DEF TypeInv
<1>13. ASSUME NEW i \in Instances, SaveChunks(i) PROVE TypeInv'
  <2>1. UNCHANGED setting /\ WalType' /\ DbType' /\ ServerType'
    <3>1. Row(me[i].own) \in RowType
      BY <1>2 DEF Row, RowType, MeType, Local
    <3>2. UNCHANGED setting /\ WalType' /\ ServerType'
      BY <1>13, <1>2 DEF SaveChunks, WalType, ServerType, wal, faults
    <3>3. chunks' \in [Chunks -> RowType]
      BY <1>13, <1>2, <3>1 DEF SaveChunks, DbType
    <3>4. QED
      BY <1>13, <1>2, <3>2, <3>3 DEF SaveChunks, DbType
  <2>2. MeType'
    <3>1. me[i].pc # "failed" /\ "chunks" \in Phases /\ "save" \in Phases
      BY <1>13 DEF SaveChunks, At, Phases
    <3>2. CASE AttemptFails(i)
      BY <1>2, <2>1, <3>1, <3>2, FailType
    <3>3. ASSUME NEW last \in Chunks,
                 me' = [me EXCEPT ![i].saved = last,
                                  ![i].pc = IF \E c \in Chunks : c > last
                                              THEN "chunks" ELSE "save"]
          PROVE  MeType'
      <4> DEFINE p == IF \E c \in Chunks : c > last THEN "chunks" ELSE "save"
      <4>1. p \in Phases /\ me' = [me EXCEPT ![i].saved = last, ![i].pc = p]
        BY <3>1, <3>3
      <4> HIDE DEF p
      <4>2. QED
        BY <1>2, <2>1, <3>1, <4>1, InsertType
    <3>4. QED
      BY <1>13, <3>2, <3>3 DEF SaveChunks
  <2>3. QED
    BY <2>1, <2>2 DEF TypeInv
<1>14. ASSUME NEW i \in Instances, GetCurrentLSN(i) PROVE TypeInv'
  <2>1. UNCHANGED setting /\ WalType' /\ DbType' /\ ServerType'
    BY <1>14, <1>2 DEF GetCurrentLSN, WalType, DbType, ServerType, wal, db, faults
  <2>2. MeType'
    BY <1>14, <1>2 DEF GetCurrentLSN, At, MeType, Local, Phases, faults
  <2>3. QED
    BY <2>1, <2>2 DEF TypeInv
<1>15. ASSUME NEW i \in Instances, WaitForCoordinator(i) PROVE TypeInv'
  <2>1. UNCHANGED setting /\ WalType' /\ DbType' /\ ServerType'
    BY <1>15, <1>2 DEF WaitForCoordinator, WalType, DbType, ServerType, wal, db, faults
  <2>2. MeType'
    <3>1. /\ me[i].pc # "failed"
          /\ me' = [me EXCEPT ![i].pc = "execute", ![i].fromSnapshot = ~setting.only]
      BY <1>15 DEF WaitForCoordinator, At
    <3>2. (~setting.only) \in BOOLEAN
      OBVIOUS
    <3>3. QED
      BY <1>2, <2>1, <3>1, <3>2, ExecuteType
  <2>3. QED
    BY <2>1, <2>2 DEF TypeInv
<1>16. ASSUME NEW i \in Instances, OpenStream(i) PROVE TypeInv'
  <2>1. UNCHANGED setting /\ WalType' /\ DbType' /\ ServerType'
    BY <1>16, <1>2 DEF OpenStream, WalType, DbType, ServerType, wal, db, faults
  <2>2. MeType'
    <3>1. CASE \E p \in {"streaming", "failed"} : Goto(i, p)
      <4>1. me[i].pc # "failed" /\ \A p \in {"streaming", "failed"} : p \in Phases
        BY <1>16 DEF OpenStream, At, Phases
      <4>2. QED
        BY <1>2, <2>1, <3>1, <4>1, GotoType
    <3>2. CASE me' = [me EXCEPT ![i].pc = "streaming", ![i].from = job.lsn]
      <4>1. job.lsn \in 0..setting.writes /\ me[i].pc # "failed"
        BY <1>2, <1>16 DEF DbType, OpenStream, At
      <4>2. "streaming" \in Phases
        BY DEF Phases
      <4>3. QED
        BY <1>2, <2>1, <3>2, <4>1, <4>2, OpenType
    <3>3. QED
      BY <1>16, <3>1, <3>2 DEF OpenStream
  <2>3. QED
    BY <2>1, <2>2 DEF TypeInv
<1>17. ASSUME NEW i \in Instances, SaveJob(i) PROVE TypeInv'
  <2>1. UNCHANGED setting /\ WalType' /\ DbType' /\ ServerType'
    <3>1. UNCHANGED setting /\ WalType' /\ ServerType'
      BY <1>17, <1>2 DEF SaveJob, WalType, ServerType, wal, faults
    <3>2. me[i].own \in Nat /\ me[i].lsn \in 0..setting.writes
      BY <1>2 DEF MeType, Local
    <3>3. job' \in [export : Nat, lsn : 0..setting.writes, done : Nat,
                    completed : BOOLEAN]
      <4>1. CASE HasJob
        BY <1>17, <1>2, <3>1, <4>1 DEF SaveJob, DbType
      <4>2. CASE ~HasJob
        <5>1. job' = [export |-> me[i].own, lsn |-> me[i].lsn, done |-> 0,
                      completed |-> FALSE]
          BY <1>17, <4>2 DEF SaveJob, NoJob
        <5>2. QED
          BY <3>1, <3>2, <5>1
      <4>3. QED
        BY <4>1, <4>2
    <3>4. QED
      BY <1>17, <1>2, <3>1, <3>3 DEF SaveJob, DbType
  <2>2. MeType'
    <3>1. CASE HasJob
      BY <1>17, <1>2, <2>1, <3>1, FailType DEF SaveJob, At
    <3>2. CASE ~HasJob
      <4>1. /\ me[i].pc # "failed"
            /\ me' = [me EXCEPT ![i].pc = "execute", ![i].fromSnapshot = ~setting.only]
        BY <1>17, <3>2 DEF SaveJob, At
      <4>2. (~setting.only) \in BOOLEAN
        OBVIOUS
      <4>3. QED
        BY <1>2, <2>1, <4>1, <4>2, ExecuteType
    <3>3. QED
      BY <3>1, <3>2
  <2>3. QED
    BY <2>1, <2>2 DEF TypeInv
<1>18. ASSUME NEW i \in Instances, LoadJob(i) PROVE TypeInv'
  <2>1. UNCHANGED setting /\ WalType' /\ DbType' /\ ServerType'
    BY <1>18, <1>2 DEF LoadJob, WalType, DbType, ServerType, wal, db, faults
  <2>2. MeType'
    <3>1. CASE HasJob
      BY <1>18, <1>2, <2>1, <3>1 DEF LoadJob, At, MeType, Local, Phases, DbType, Ids, NoChunk
    <3>2. CASE ~HasJob
      BY <1>18, <1>2, <2>1, <3>2, FailType DEF LoadJob, At
    <3>3. QED
      BY <3>1, <3>2
  <2>3. QED
    BY <2>1, <2>2 DEF TypeInv
<1>19. ASSUME NEW i \in Instances, HeartbeatReceive(i) PROVE TypeInv'
  <2>1. UNCHANGED setting /\ WalType' /\ DbType' /\ ServerType'
    BY <1>19, <1>2 DEF HeartbeatReceive, WalType, DbType, ServerType, wal, db, faults
  <2>2. MeType'
    BY <1>19, <1>2 DEF HeartbeatReceive, At, MeType, Local, Phases, faults, InLoop, Ids, NoChunk
  <2>3. QED
    BY <2>1, <2>2 DEF TypeInv
<1>20. ASSUME NEW i \in Instances, Start(i) PROVE TypeInv'
  <2>1. UNCHANGED setting /\ WalType' /\ DbType' /\ ServerType'
    BY <1>20, <1>2 DEF Start, WalType, DbType, ServerType, wal, db, faults
  <2>2. MeType'
    <3>1. me' = [me EXCEPT ![i] = Process("start")] /\ "start" \in Phases
      BY <1>20 DEF Start, Phases
    <3>2. QED
      BY <1>2, <2>1, <3>1, ProcessType
  <2>3. QED
    BY <2>1, <2>2 DEF TypeInv
<1>21. ASSUME NEW i \in Instances, Restart(i) PROVE TypeInv'
  <2>1. UNCHANGED setting /\ WalType' /\ DbType' /\ ServerType'
    <3>1. IsFiniteSet(exports')
      BY <1>21, <1>2, FewerExports DEF Restart
    <3>2. QED
      BY <1>21, <1>2, <3>1 DEF Restart, WalType, DbType, ServerType, wal, db, faults
  <2>2. MeType'
    <3>1. me' = [me EXCEPT ![i] = Process("start")] /\ "start" \in Phases
      BY <1>21 DEF Restart, Phases
    <3>2. QED
      BY <1>2, <2>1, <3>1, ProcessType
  <2>3. QED
    BY <2>1, <2>2 DEF TypeInv
<1>22. ASSUME NEW i \in Instances, Exit(i) PROVE TypeInv'
  <2>1. UNCHANGED setting /\ WalType' /\ DbType' /\ ServerType'
    <3>1. IsFiniteSet(exports')
      BY <1>22, <1>2, FewerExports DEF Exit
    <3>2. QED
      BY <1>22, <1>2, <3>1 DEF Exit, WalType, DbType, ServerType, wal, db, faults
  <2>2. MeType'
    <3>1. me' = [me EXCEPT ![i] = Process("exited")] /\ "exited" \in Phases
      BY <1>22 DEF Exit, Phases
    <3>2. QED
      BY <1>2, <2>1, <3>1, ProcessType
  <2>3. QED
    BY <2>1, <2>2 DEF TypeInv
<1>23. ASSUME NEW i \in Instances, Crash(i) PROVE TypeInv'
  <2>1. UNCHANGED setting /\ WalType' /\ DbType' /\ ServerType'
    <3>1. IsFiniteSet(exports')
      BY <1>23, <1>2, FewerExports DEF Crash
    <3>2. QED
      BY <1>23, <1>2, <3>1 DEF Crash, WalType, DbType, ServerType, wal, db, faults
  <2>2. MeType'
    <3>1. me' = [me EXCEPT ![i] = Process("down")] /\ "down" \in Phases
      BY <1>23 DEF Crash, Phases
    <3>2. QED
      BY <1>2, <2>1, <3>1, ProcessType
  <2>3. QED
    BY <2>1, <2>2 DEF TypeInv
<1>24. ASSUME NEW i \in Instances, MarkJobAsCompleted(i) PROVE TypeInv'
  <2>1. UNCHANGED setting /\ WalType' /\ DbType' /\ ServerType'
    <3>1. IsFiniteSet(exports')
      BY <1>24, <1>2, FewerExports DEF MarkJobAsCompleted
    <3>2. QED
      BY <1>24, <1>2, <3>1 DEF MarkJobAsCompleted, WalType, DbType, ServerType, wal, db, faults
  <2>2. MeType'
    <3>1. /\ me[i].pc # "failed" /\ Executed \in Phases
          /\ me' = [me EXCEPT ![i].own = 0, ![i].pc = Executed]
      BY <1>24 DEF MarkJobAsCompleted, At, Executed, Phases
    <3>2. QED
      BY <1>2, <2>1, <3>1, DisownType
  <2>3. QED
    BY <2>1, <2>2 DEF TypeInv
<1>25. ASSUME NEW i \in Instances, ExportSnapshotTransaction(i) PROVE TypeInv'
  <2>1. UNCHANGED setting /\ NewId \in Nat \ {0}
    BY <1>25, <1>2, NewIdIsNew DEF ExportSnapshotTransaction, ServerType, faults
  <2>2. WalType' /\ DbType' /\ ServerType'
    <3>1. IsFiniteSet(exports')
      BY <1>25, <1>2, FS_AddElement DEF ExportSnapshotTransaction, ServerType
    <3>2. visible \in SUBSET (1..setting.writes)
      BY <1>2 DEF WalType
    <3>3. QED
      BY <1>25, <1>2, <2>1, <3>1, <3>2 DEF ExportSnapshotTransaction, WalType, DbType, ServerType, wal, db, faults
  <2>3. MeType'
    BY <1>25, <1>2, <2>1 DEF ExportSnapshotTransaction, At, MeType, Local, Phases
  <2>4. QED
    BY <2>2, <2>3 DEF TypeInv
<1>26. ASSUME NEW i \in Instances, ClaimNextChunk(i) PROVE TypeInv'
  <2> DEFINE free == {c \in Chunks : Claimable(c)}
  <2>1. UNCHANGED setting /\ WalType' /\ ServerType' /\ me[i].pc # "failed"
    BY <1>26, <1>2 DEF ClaimNextChunk, At, WalType, ServerType, wal, faults
  <2>2. CASE /\ me' = [me EXCEPT ![i].pc = "finalize", ![i].chunk = NoChunk,
                                 ![i].chan = NoChunk, ![i].active = NoChunk]
             /\ UNCHANGED chunks
    <3>1. DbType'
      BY <1>26, <1>2, <2>2 DEF ClaimNextChunk, DbType, faults
    <3>2. MeType'
      BY <1>2, <2>1, <2>2, LeaveLoopType
    <3>3. QED
      BY <2>1, <3>1, <3>2 DEF TypeInv
  <2>3. ASSUME NEW c \in free, TakesChunk(i, c) PROVE TypeInv'
    <3> DEFINE id == <<c, chunks[c].gen>>
               notice == IF me[i].chan = NoChunk THEN id ELSE me[i].chan
    <3>1. c \in Chunks /\ id \in Ids
      BY <1>2 DEF Claimable, DbType, RowType, Ids
    <3>2. /\ chunks' = [chunks EXCEPT ![c] =
                          [chunks[c] EXCEPT !.status = "in_progress", !.fresh = TRUE]]
          /\ me' = [me EXCEPT ![i] = [me[i] EXCEPT !.chunk = id, !.pc = "process",
                                                   !.chan = notice]]
      BY <2>3 DEF TakesChunk
    <3>3. chunks[c] \in RowType
      BY <1>2, <3>1 DEF DbType
    <3>4. notice \in Ids /\ "process" \in Phases
      BY <1>2, <3>1 DEF MeType, Local, Phases
    <3> HIDE DEF id, notice
    <3>5. [chunks[c] EXCEPT !.status = "in_progress", !.fresh = TRUE] \in RowType
      BY <3>3, RowUpdate
    <3>6. DbType'
      BY <1>26, <1>2, <3>1, <3>2, <3>5 DEF ClaimNextChunk, DbType, faults
    <3>7. MeType'
      <4> DEFINE r == [me[i] EXCEPT !.chunk = id, !.pc = "process", !.chan = notice]
      <4>1. me[i] \in Local /\ me[i].preps < MaxPrepare
        BY <1>2, <2>1 DEF MeType
      <4>2. me' = [me EXCEPT ![i] = r]
        BY <3>2
      <4>3. r \in Local /\ r.preps < MaxPrepare
        BY <3>1, <3>4, <4>1 DEF Local
      <4> HIDE DEF r
      <4>4. QED
        BY <1>2, <2>1, <4>2, <4>3, LocalStep
    <3>8. QED
      BY <2>1, <3>6, <3>7 DEF TypeInv
  <2>4. QED
    BY <1>26, <2>2, <2>3 DEF ClaimNextChunk, TakesChunk
<1>27. ASSUME NEW i \in Instances, MarkChunkCompleted(i) PROVE TypeInv'
  <2>1. UNCHANGED setting /\ WalType' /\ ServerType'
    BY <1>27, <1>2 DEF MarkChunkCompleted, WalType, ServerType, wal, faults
  <2>2. DbType'
    <3>1. me[i].chunk \in Ids
      BY <1>2 DEF MeType, Local
    <3>2. chunks' \in [Chunks -> RowType]
      BY <1>27, <1>2, <3>1, StatusType DEF MarkChunkCompleted
    <3>3. QED
      BY <1>27, <1>2, <3>2 DEF MarkChunkCompleted, DbType, faults
  <2>3. MeType'
    <3>1. me[i].pc # "failed" /\ "claim" \in Phases /\ Goto(i, "claim")
      BY <1>27 DEF MarkChunkCompleted, At, Phases
    <3>2. QED
      BY <1>2, <2>1, <3>1, GotoType
  <2>4. QED
    BY <2>1, <2>2, <2>3 DEF TypeInv
<1>28. ASSUME NEW i \in Instances, ReleaseChunk(i) PROVE TypeInv'
  <2>1. UNCHANGED setting /\ WalType' /\ ServerType'
    BY <1>28, <1>2 DEF ReleaseChunk, WalType, ServerType, wal, faults
  <2>2. DbType'
    <3>1. me[i].chunk \in Ids
      BY <1>2 DEF MeType, Local
    <3>2. chunks' \in [Chunks -> RowType]
      BY <1>28, <1>2, <3>1, StatusType DEF ReleaseChunk
    <3>3. QED
      BY <1>28, <1>2, <3>2 DEF ReleaseChunk, DbType, faults
  <2>3. MeType'
    BY <1>28, <1>2, <2>1, AgainType DEF ReleaseChunk, At
  <2>4. QED
    BY <2>1, <2>2, <2>3 DEF TypeInv
<1>29. ASSUME NEW i \in Instances, HeartbeatTick(i) PROVE TypeInv'
  <2>1. WalType' /\ ServerType' /\ MeType'
    BY <1>29, <1>2 DEF HeartbeatTick, WalType, ServerType, MeType, Local, wal, faults
  <2>2. me[i].active[1] \in Chunks
    <3>1. me[i].active \in Ids /\ me[i].active # NoChunk
      BY <1>29, <1>2 DEF HeartbeatTick, IsRow, MeType, Local
    <3>2. QED
      BY <3>1 DEF Ids
  <2>3. [chunks[me[i].active[1]] EXCEPT !.fresh = TRUE] \in RowType
    BY <1>2, <2>2, RowFresh DEF DbType
  <2>4. DbType'
    BY <1>29, <1>2, <2>2, <2>3 DEF HeartbeatTick, DbType, faults
  <2>5. QED
    BY <2>1, <2>4 DEF TypeInv
<1>30. ASSUME NEW c \in Chunks, Expire(c) PROVE TypeInv'
  <2>1. WalType' /\ ServerType' /\ MeType'
    BY <1>30, <1>2 DEF Expire, WalType, ServerType, MeType, Local, wal, faults
  <2>2. c \in Chunks
    BY <1>30, <1>2 DEF Expire, IsRow, MeType, Local, Ids
  <2>3. [chunks[c] EXCEPT !.fresh = FALSE] \in RowType
    BY <1>2, <2>2, RowFresh DEF DbType
  <2>4. DbType'
    BY <1>30, <1>2, <2>2, <2>3 DEF Expire, DbType, faults
  <2>5. QED
    BY <2>1, <2>4 DEF TypeInv
<1>31. ASSUME NEW i \in Instances, StatementFails(i) PROVE TypeInv'
  <2>1. UNCHANGED setting /\ WalType' /\ DbType' /\ ServerType'
    BY <1>31, <1>2 DEF StatementFails, WalType, DbType, ServerType, wal, db, faults
  <2>2. MeType'
    <3>1. /\ me[i].pc # "failed"
          /\ AttemptFails(i) \/ Invalidated(i) \/ \E p \in Phases : Goto(i, p)
      BY <1>31 DEF StatementFails, At, Phases, Taking
    <3>2. QED
      BY <1>2, <2>1, <3>1, GotoType, FailType, AgainType
  <2>3. QED
    BY <2>1, <2>2 DEF TypeInv
<1>32. CASE Write
  <2>1. WalType'
    <3>1. written' \in 0..setting.writes /\ written' = written + 1
      BY <1>32, <1>2 DEF Write, WalType
    <3>2. 1..written \subseteq 1..written' /\ written' \in 1..written'
      BY <1>2, <3>1 DEF WalType
    <3>3. visible' \subseteq 1..written'
      BY <1>32, <1>2, <3>2 DEF Write, WalType
    <3>4. QED
      BY <1>32, <1>2, <3>1, <3>3 DEF Write, WalType, faults
  <2>2. QED
    BY <1>32, <1>2, <2>1 DEF Write, TypeInv, MeType, Local, DbType, ServerType, db, faults
<1>33. CASE BecomeVisible
  BY <1>33, <1>2
  DEF BecomeVisible, TypeInv, MeType, Local, WalType, DbType, ServerType, db, faults
<1>34. CASE CollectLeaked
  <2>1. IsFiniteSet(exports')
    BY <1>34, <1>2, FewerExports DEF CollectLeaked
  <2>2. QED
    BY <1>34, <1>2, <2>1
    DEF CollectLeaked, TypeInv, MeType, Local, WalType, DbType, ServerType, wal, db, faults
<1>35. CASE UNCHANGED vars
  BY <1>35, <1>2 DEF vars, TypeInv, MeType, Local, WalType, DbType, ServerType
<1>36. QED
  BY <1>1, <1>3, <1>4, <1>5, <1>6, <1>7, <1>8, <1>9, <1>10, <1>11, <1>12,
     <1>13, <1>14, <1>15, <1>16, <1>17, <1>18, <1>19, <1>20, <1>21, <1>22,
     <1>23, <1>24, <1>25, <1>26, <1>27, <1>28, <1>29, <1>30, <1>31, <1>32,
     <1>33, <1>34, <1>35
  DEF Next, Step

\* Type correctness (TypeOK), for any number of instances and faults: retries
\* stay within their limits, and whatever instance, row or export names an id
\* names one that createMetadata or the exporter made.
THEOREM TypeCorrect == Spec => []TypeOK
<1>1. Spec => []TypeInv
  BY InitType, NextType, PTL DEF Spec
<1>2. QED
  BY <1>1, TypeInvType, PTL

(***************************************************************************)
(* Steps of one instance: which phase it goes to, and what it keeps.       *)
(***************************************************************************)
OthersKept(i) == \A k \in Instances : k # i => me'[k] = me[k]

\* Instance i goes to phase p with what it knows about the job and its chunk.
Moves(i, p) ==
  /\ OthersKept(i)
  /\ me'[i].pc = p
  /\ me'[i].own = me[i].own /\ me'[i].known = me[i].known
  /\ me'[i].chunk = me[i].chunk

\* How far a coordinator has come is a number.
LEMMA SavedType ==
  ASSUME me \in [Instances -> Local], NEW i \in Instances
  PROVE  me[i].saved \in Nat
<1>1. me[i] \in Local
  OBVIOUS
<1>2. me[i].saved \in {0} \cup Chunks
  BY <1>1 DEF Local
<1>3. Chunks \subseteq Nat
  BY SnapshotAssumption
<1>4. CASE me[i].saved = 0
  BY <1>4
<1>5. CASE me[i].saved \in Chunks
  BY <1>3, <1>5
<1>6. QED
  BY <1>2, <1>4, <1>5

\* Goto changes the phase of one instance.
LEMMA GotoMoves ==
  ASSUME me \in [Instances -> Local], NEW i \in Instances, NEW p, Goto(i, p)
  PROVE  /\ Moves(i, p)
         /\ me'[i].lsn = me[i].lsn /\ me'[i].from = me[i].from
         /\ me'[i].fromSnapshot = me[i].fromSnapshot
BY DEF Goto, Moves, OthersKept, Local

\* A failed attempt tries again from the slot, or gives up.
LEMMA FailMoves ==
  ASSUME me \in [Instances -> Local], NEW i \in Instances, AttemptFails(i)
  PROVE  /\ \E p \in {"slot", "failed"} : Moves(i, p)
         /\ me'[i].lsn = me[i].lsn
         /\ me'[i].from = me[i].from /\ me'[i].fromSnapshot = me[i].fromSnapshot
<1> DEFINE p == IF ~setting.only /\ me[i].preps + 1 < MaxPrepare
                  THEN "slot" ELSE "failed"
<1>1. me' = [me EXCEPT ![i] = [me[i] EXCEPT !.preps = me[i].preps + 1,
                                            !.execs = 0, !.pc = p]]
  BY DEF AttemptFails
<1>2. p \in {"slot", "failed"}
  OBVIOUS
<1> HIDE DEF p
<1>3. /\ Moves(i, p) /\ me'[i].lsn = me[i].lsn /\ me'[i].from = me[i].from
      /\ me'[i].fromSnapshot = me[i].fromSnapshot
  BY <1>1 DEF Moves, OthersKept, Local
<1>4. QED
  BY <1>2, <1>3

\* An attempt that finds its job gone loads it again, or is a failed attempt.
LEMMA AgainMoves ==
  ASSUME me \in [Instances -> Local], NEW i \in Instances, Invalidated(i)
  PROVE  /\ \E p \in {"execute", "slot", "failed"} : Moves(i, p)
         /\ me'[i].lsn = me[i].lsn
         /\ me'[i].from = me[i].from /\ me'[i].fromSnapshot = me[i].fromSnapshot
<1>1. CASE ~setting.only /\ me[i].execs + 1 < MaxExecute
  <2>1. me' = [me EXCEPT ![i] = [me[i] EXCEPT !.execs = me[i].execs + 1,
                                              !.pc = "execute"]]
    BY <1>1 DEF Invalidated
  <2>2. /\ Moves(i, "execute") /\ me'[i].lsn = me[i].lsn /\ me'[i].from = me[i].from
        /\ me'[i].fromSnapshot = me[i].fromSnapshot
    BY <2>1 DEF Moves, OthersKept, Local
  <2>3. QED
    BY <2>2
<1>2. CASE ~(~setting.only /\ me[i].execs + 1 < MaxExecute)
  BY <1>2, FailMoves DEF Invalidated
<1>3. QED
  BY <1>1, <1>2

\* Going on to the chunks changes the phase and where the stream will begin.
LEMMA ExecuteMoves ==
  ASSUME me \in [Instances -> Local], NEW i \in Instances, NEW b,
         me' = [me EXCEPT ![i].pc = "execute", ![i].fromSnapshot = b]
  PROVE  /\ Moves(i, "execute") /\ me'[i].lsn = me[i].lsn /\ me'[i].from = me[i].from
         /\ me'[i].fromSnapshot = b
<1>1. me' = [me EXCEPT ![i] = [me[i] EXCEPT !.pc = "execute", !.fromSnapshot = b]]
  OBVIOUS
<1>2. QED
  BY <1>1 DEF Moves, OthersKept, Local

\* Opening the stream succeeds, or finds no job.
LEMMA OpenMoves ==
  ASSUME me \in [Instances -> Local], NEW i \in Instances, OpenStream(i)
  PROVE  /\ Moves(i, "streaming") \/ (Moves(i, "failed") /\ ~HasJob)
         /\ me'[i].lsn = me[i].lsn
<1>1. CASE Goto(i, "streaming") \/ (Goto(i, "failed") /\ ~HasJob)
  BY <1>1, GotoMoves
<1>2. CASE me' = [me EXCEPT ![i].pc = "streaming", ![i].from = job.lsn]
  <2>1. me' = [me EXCEPT ![i] = [me[i] EXCEPT !.pc = "streaming", !.from = job.lsn]]
    BY <1>2
  <2>2. Moves(i, "streaming") /\ me'[i].lsn = me[i].lsn
    BY <2>1 DEF Moves, OthersKept, Local
  <2>3. QED
    BY <2>2
<1>3. QED
  BY <1>1, <1>2 DEF OpenStream

\* A statement that fails takes its instance to another step, or to another
\* attempt, and nothing else changes.
LEMMA StatementMoves ==
  ASSUME me \in [Instances -> Local], NEW i \in Instances, StatementFails(i)
  PROVE  /\ \E p \in {"reset", "prepare", "slot", "export", "claim", "execute",
                      "failed"} : Moves(i, p)
         /\ UNCHANGED <<written, visible, slot, job, chunks, lock, exports,
                        delivered, setting, crashes>>
         /\ me[i].pc = "init" \/ ~Moves(i, "export")
         /\ setting.only \/ ~Moves(i, "prepare")
         /\ me'[i].lsn = me[i].lsn
<1>1. CASE \/ \E p \in {"reset", "slot"} : Goto(i, p)
           \/ setting.only /\ Goto(i, "prepare")
  BY <1>1, GotoMoves DEF StatementFails, wal, db, Moves
<1>2. CASE At(i, "init") /\ Goto(i, "export")
  BY <1>2, GotoMoves DEF StatementFails, wal, db, At, Moves
<1>3. CASE Goto(i, "claim")
  BY <1>3, GotoMoves DEF StatementFails, wal, db, Moves
<1>4. CASE Invalidated(i) \/ AttemptFails(i)
  BY <1>4, AgainMoves, FailMoves DEF StatementFails, wal, db, Moves
<1>5. QED
  BY <1>1, <1>2, <1>3, <1>4 DEF StatementFails, Taking

\* claimNextChunk takes a row that can be claimed, or there is none.
Claims(i, c) ==
  /\ Claimable(c)
  /\ me'[i].pc = "process" /\ me'[i].chunk = <<c, chunks[c].gen>>
  /\ chunks' = [chunks EXCEPT ![c].status = "in_progress", ![c].fresh = TRUE]

ClaimsNothing(i) ==
  /\ \A c \in Chunks : ~Claimable(c)
  /\ me'[i].pc = "finalize" /\ me'[i].chunk = NoChunk
  /\ UNCHANGED chunks

\* claimNextChunk takes one row, or finds none, and changes nothing else.
LEMMA ClaimMoves ==
  ASSUME me \in [Instances -> Local], NEW i \in Instances, ClaimNextChunk(i)
  PROVE  /\ ClaimsNothing(i) \/ \E c \in Chunks : Claims(i, c)
         /\ OthersKept(i)
         /\ me'[i].own = me[i].own /\ me'[i].known = me[i].known
         /\ me'[i].lsn = me[i].lsn
         /\ me'[i].from = me[i].from /\ me'[i].fromSnapshot = me[i].fromSnapshot
<1> DEFINE free == {c \in Chunks : Claimable(c)}
<1>1. CASE /\ free = {}
           /\ me' = [me EXCEPT ![i].pc = "finalize", ![i].chunk = NoChunk,
                               ![i].chan = NoChunk, ![i].active = NoChunk]
           /\ UNCHANGED chunks
  <2>1. me' = [me EXCEPT ![i] = [me[i] EXCEPT !.pc = "finalize", !.chunk = NoChunk,
                                              !.chan = NoChunk, !.active = NoChunk]]
    BY <1>1
  <2>2. QED
    BY <1>1, <2>1 DEF ClaimsNothing, OthersKept, Local
<1>2. ASSUME NEW c \in free, TakesChunk(i, c)
      PROVE  /\ Claims(i, c) /\ OthersKept(i)
             /\ me'[i].own = me[i].own /\ me'[i].known = me[i].known
             /\ me'[i].lsn = me[i].lsn
             /\ me'[i].from = me[i].from /\ me'[i].fromSnapshot = me[i].fromSnapshot
  <2> DEFINE id == <<c, chunks[c].gen>>
             notice == IF me[i].chan = NoChunk THEN id ELSE me[i].chan
  <2>1. me' = [me EXCEPT ![i] = [me[i] EXCEPT !.chunk = id, !.pc = "process",
                                              !.chan = notice]]
    BY <1>2 DEF TakesChunk
  <2> HIDE DEF notice
  <2>2. Claims(i, c)
    BY <1>2, <2>1 DEF TakesChunk, Claims, Local
  <2>3. QED
    BY <2>1, <2>2 DEF OthersKept, Local
<1>3. QED
  BY <1>1, <1>2 DEF ClaimNextChunk, TakesChunk

\* A batch of chunk rows is inserted, behind the ones before it.
Inserts(i, p) ==
  /\ Moves(i, p) /\ p \in {"chunks", "save"}
  /\ me'[i].saved \in Chunks
  /\ p = "save" => \A c \in Chunks : c <= me'[i].saved
  /\ \A c \in Chunks :
       IF c > me[i].saved /\ c <= me'[i].saved
         THEN chunks[c].gen = 0 /\ chunks'[c] = Row(me[i].own)
         ELSE chunks'[c] = chunks[c]

\* createMetadata inserts a batch, or finds one of its rows there.
LEMMA SaveMoves ==
  ASSUME me \in [Instances -> Local], NEW i \in Instances, SaveChunks(i)
  PROVE  /\ \/ UNCHANGED chunks /\ \E p \in {"slot", "failed"} : Moves(i, p)
            \/ \E p \in {"chunks", "save"} : Inserts(i, p)
         /\ me'[i].lsn = me[i].lsn
         /\ me'[i].from = me[i].from /\ me'[i].fromSnapshot = me[i].fromSnapshot
<1>1. CASE AttemptFails(i) /\ UNCHANGED chunks
  BY <1>1, FailMoves
<1>2. ASSUME NEW last \in Chunks,
             \A c \in Batch(i, last) : chunks[c].gen = 0,
             chunks' = [c \in Chunks |-> IF c \in Batch(i, last)
                                           THEN Row(me[i].own) ELSE chunks[c]],
             me' = [me EXCEPT ![i].saved = last,
                              ![i].pc = IF \E c \in Chunks : c > last THEN "chunks"
                                        ELSE "save"]
      PROVE  /\ \E p \in {"chunks", "save"} : Inserts(i, p)
             /\ me'[i].lsn = me[i].lsn
             /\ me'[i].from = me[i].from /\ me'[i].fromSnapshot = me[i].fromSnapshot
  <2> DEFINE p == IF \E c \in Chunks : c > last THEN "chunks" ELSE "save"
  <2>1. me' = [me EXCEPT ![i] = [me[i] EXCEPT !.saved = last, !.pc = p]]
    BY <1>2
  <2>2. p = "save" => \A c \in Chunks : c <= last
    BY SnapshotAssumption
  <2>3. p \in {"chunks", "save"}
    OBVIOUS
  <2> HIDE DEF p
  <2>4. /\ Moves(i, p) /\ me'[i].saved = last /\ me'[i].lsn = me[i].lsn
        /\ me'[i].from = me[i].from /\ me'[i].fromSnapshot = me[i].fromSnapshot
    BY <2>1 DEF Moves, OthersKept, Local
  <2>5. Inserts(i, p)
    BY <1>2, <2>2, <2>3, <2>4 DEF Inserts, Batch
  <2>6. QED
    BY <2>3, <2>4, <2>5
<1>3. QED
  BY <1>1, <1>2 DEF SaveChunks

\* A chunk is read under the export e that the instance knows, and handed to
\* the listener, or that export is gone.
Reads(i, e) ==
  /\ e.id = me[i].known
  /\ e.view \in delivered'[me[i].chunk[1]]
  /\ \A c \in Chunks : /\ delivered[c] \subseteq delivered'[c]
                       /\ \A v \in delivered'[c] : v \in delivered[c] \/ v = e.view

\* processChunk reads under the export that the instance knows, or gives the
\* chunk back.
LEMMA ProcessMoves ==
  ASSUME me \in [Instances -> Local], NEW i \in Instances, ProcessChunk(i),
         delivered \in [Chunks -> SUBSET SUBSET (1..setting.writes)],
         me[i].chunk[1] \in Chunks
  PROVE  \/ /\ \A e \in exports : e.id # me[i].known
            /\ Moves(i, "release") /\ UNCHANGED delivered
         \/ Moves(i, "mark") /\ \E e \in exports : Reads(i, e)
<1>1. CASE /\ \A e \in exports : e.id # me[i].known
           /\ Goto(i, "release") /\ UNCHANGED delivered
  BY <1>1, GotoMoves
<1>2. ASSUME NEW e \in exports, e.id = me[i].known, Goto(i, "mark"),
             delivered' = [delivered EXCEPT ![me[i].chunk[1]]
                                              = delivered[me[i].chunk[1]] \cup {e.view}]
      PROVE  Moves(i, "mark") /\ Reads(i, e)
  <2>1. Moves(i, "mark")
    BY <1>2, GotoMoves
  <2>2. QED
    BY <1>2, <2>1 DEF Reads
<1>3. \/ /\ \A e \in exports : e.id # me[i].known
         /\ Goto(i, "release") /\ UNCHANGED delivered
      \/ \E e \in exports :
           /\ e.id = me[i].known /\ Goto(i, "mark")
           /\ delivered' = [delivered EXCEPT ![me[i].chunk[1]]
                                              = delivered[me[i].chunk[1]] \cup {e.view}]
  <2> HIDE DEF Goto
  <2>1. QED
    BY DEF ProcessChunk
<1>4. QED
  BY <1>1, <1>2, <1>3

\* A heartbeat leaves its instance where it is.
LEMMA HeartbeatMoves ==
  ASSUME me \in [Instances -> Local], NEW i \in Instances, HeartbeatReceive(i)
  PROVE  /\ \E p \in {"claim", "process", "mark", "release"} :
              p = me[i].pc /\ Moves(i, p)
         /\ me'[i].lsn = me[i].lsn
         /\ me'[i].from = me[i].from /\ me'[i].fromSnapshot = me[i].fromSnapshot
<1>1. me' = [me EXCEPT ![i] = [me[i] EXCEPT !.active = me[i].chan, !.chan = NoChunk]]
  BY DEF HeartbeatReceive
<1>2. /\ Moves(i, me[i].pc) /\ me'[i].lsn = me[i].lsn /\ me'[i].from = me[i].from
      /\ me'[i].fromSnapshot = me[i].fromSnapshot
  BY <1>1 DEF Moves, OthersKept, Local
<1>3. QED
  BY <1>2 DEF HeartbeatReceive, InLoop

(***************************************************************************)
(* What is completed was read, whatever fails: a row is marked completed   *)
(* only after its chunk went to the listener.                              *)
(***************************************************************************)
RowRead(c) ==
  (chunks[c].gen # 0 /\ chunks[c].status = "completed") => delivered[c] # {}

WorkerRead(i) ==
  /\ me[i].pc \in {"process", "mark", "release"} => me[i].chunk # NoChunk
  /\ me[i].pc = "mark" => delivered[me[i].chunk[1]] # {}

ReadInv ==
  /\ \A c \in Chunks : RowRead(c)
  /\ \A i \in Instances : WorkerRead(i)

\* Initially no row is completed.
LEMMA InitRead == Init => ReadInv
BY SnapshotAssumption
DEF Init, ReadInv, RowRead, WorkerRead, Process,
    NoRow, Row, NoJob

\* Workers that are not reading promise nothing.
LEMMA IdleRead ==
  ASSUME ReadInv, NEW i \in Instances, NEW p, Moves(i, p),
         p \notin {"process", "mark", "release"}, UNCHANGED <<chunks, delivered>>
  PROVE  ReadInv'
BY DEF ReadInv, RowRead, WorkerRead, Moves, OthersKept

\* No step completes a row whose chunk was not delivered.
LEMMA NextRead == TypeInv /\ ReadInv /\ [Next]_vars => ReadInv'
<1>1. SUFFICES ASSUME TypeInv, ReadInv, [Next]_vars PROVE ReadInv'
  OBVIOUS
<1>2. /\ me \in [Instances -> Local] /\ chunks \in [Chunks -> RowType]
      /\ delivered \in [Chunks -> SUBSET SUBSET (1..setting.writes)]
      /\ \A i \in Instances : me[i].chunk \in Ids
  BY <1>1 DEF TypeInv, MeType, DbType, ServerType, Local
<1>3. ASSUME NEW i \in Instances, ShouldTakeSnapshot(i) PROVE ReadInv'
  BY <1>3, <1>1, <1>2
  DEF ShouldTakeSnapshot, At, Goto, Taking, Executed, wal, db, faults,
      ReadInv, RowRead, WorkerRead, Local
<1>4. ASSUME NEW i \in Instances, SlotInfo(i) PROVE ReadInv'
  BY <1>4, <1>1, <1>2
  DEF SlotInfo, At, Goto, wal, db, faults, ReadInv, RowRead,
      WorkerRead, Local
<1>5. ASSUME NEW i \in Instances, CreateSlot(i) PROVE ReadInv'
  <2>1. \E p \in {"prepare", "slot", "failed"} : Moves(i, p)
    BY <1>5, <1>2, GotoMoves, FailMoves DEF CreateSlot
  <2>2. QED
    BY <1>5, <1>1, <2>1, IdleRead DEF CreateSlot
<1>6. ASSUME NEW i \in Instances, SetupJob(i) PROVE ReadInv'
  BY <1>6, <1>1, <1>2
  DEF SetupJob, At, Goto, wal, db, faults, ReadInv, RowRead,
      WorkerRead, Local
<1>7. ASSUME NEW i \in Instances, GetCurrentLSN(i) PROVE ReadInv'
  BY <1>7, <1>1, <1>2
  DEF GetCurrentLSN, At, Goto, wal, db, faults, ReadInv,
      RowRead, WorkerRead, Local
<1>8. ASSUME NEW i \in Instances, InitializeCoordinator(i) PROVE ReadInv'
  BY <1>8, <1>1, <1>2
  DEF InitializeCoordinator, At, Goto, wal, db, faults, ReadInv, RowRead, WorkerRead, Local
<1>9. ASSUME NEW i \in Instances, CleanupChunks(i) PROVE ReadInv'
  BY <1>9, <1>1, <1>2
  DEF CleanupChunks, At, Goto, NoRow, Row, wal, db, faults, ReadInv, RowRead, WorkerRead, Local
<1>10. ASSUME NEW i \in Instances, CleanupJob(i) PROVE ReadInv'
  <2>1. \E p \in {"export", "slot", "prepare"} : Moves(i, p)
    BY <1>10, <1>2, GotoMoves DEF CleanupJob, Taking
  <2>2. QED
    BY <1>10, <1>1, <2>1, IdleRead DEF CleanupJob, NoJob
<1>11. ASSUME NEW i \in Instances, ExportSnapshotTransaction(i) PROVE ReadInv'
  BY <1>11, <1>1, <1>2
  DEF ExportSnapshotTransaction, At, Goto, wal, db, faults, ReadInv, RowRead, WorkerRead, Local
<1>12. ASSUME NEW i \in Instances, SaveChunks(i) PROVE ReadInv'
  <2>1. UNCHANGED delivered
    BY <1>12 DEF SaveChunks
  <2>2. CASE UNCHANGED chunks /\ \E p \in {"slot", "failed"} : Moves(i, p)
    BY <1>1, <2>1, <2>2, IdleRead
  <2>3. ASSUME NEW p \in {"chunks", "save"}, Inserts(i, p) PROVE ReadInv'
    <3>1. \A c \in Chunks : chunks'[c] = chunks[c] \/ chunks'[c].status = "pending"
      BY <2>3 DEF Inserts, Row
    <3>2. QED
      BY <1>1, <2>1, <2>3, <3>1
      DEF Inserts, ReadInv, RowRead, WorkerRead, Moves, OthersKept
  <2>4. QED
    BY <1>12, <1>2, <2>2, <2>3, SaveMoves
<1>13. ASSUME NEW i \in Instances, SaveJob(i) PROVE ReadInv'
  <2>1. \E p \in {"execute", "slot", "failed"} : Moves(i, p)
    BY <1>13, <1>2, ExecuteMoves, FailMoves DEF SaveJob
  <2>2. UNCHANGED <<chunks, delivered>>
    BY <1>13 DEF SaveJob
  <2>3. QED
    BY <1>1, <2>1, <2>2, IdleRead
<1>14. ASSUME NEW i \in Instances, WaitForCoordinator(i) PROVE ReadInv'
  <2>1. Moves(i, "execute")
    BY <1>14, <1>2, ExecuteMoves DEF WaitForCoordinator
  <2>2. UNCHANGED <<chunks, delivered>>
    BY <1>14 DEF WaitForCoordinator, db
  <2>3. QED
    BY <1>1, <2>1, <2>2, IdleRead
<1>15. ASSUME NEW i \in Instances, LoadJob(i) PROVE ReadInv'
  BY <1>15, <1>1, <1>2
  DEF LoadJob, At, Goto, AttemptFails, wal, db, faults, ReadInv, RowRead, WorkerRead, Local
<1>16. ASSUME NEW i \in Instances, ClaimNextChunk(i) PROVE ReadInv'
  <2>1. OthersKept(i) /\ UNCHANGED <<delivered, job>>
    BY <1>16, <1>2, ClaimMoves DEF ClaimNextChunk
  <2>2. CASE ClaimsNothing(i)
    BY <1>1, <2>1, <2>2
    DEF ClaimsNothing, ReadInv, RowRead, WorkerRead,
        OthersKept
  <2>3. ASSUME NEW c \in Chunks, Claims(i, c) PROVE ReadInv'
    <3>1. \A d \in Chunks : /\ chunks'[d].gen = chunks[d].gen
                            /\ chunks'[d].status = "completed" =>
                                 chunks[d].status = "completed"
      BY <1>2, <2>3 DEF Claims, RowType
    <3>2. me'[i].pc = "process" /\ me'[i].chunk # NoChunk
      BY <2>3, SnapshotAssumption DEF Claims, NoChunk
    <3>3. QED
      BY <1>1, <2>1, <3>1, <3>2
      DEF ReadInv, RowRead, WorkerRead, OthersKept
  <2>4. QED
    BY <1>16, <1>2, <2>2, <2>3, ClaimMoves
<1>17. ASSUME NEW i \in Instances, ProcessChunk(i) PROVE ReadInv'
  <2>1. me[i].chunk[1] \in Chunks /\ me[i].chunk # NoChunk
    BY <1>17, <1>1, <1>2 DEF ProcessChunk, At, ReadInv, WorkerRead, Ids
  <2>2. UNCHANGED <<chunks, job>>
    BY <1>17 DEF ProcessChunk, db
  <2>3. CASE Moves(i, "release") /\ UNCHANGED delivered
    BY <1>1, <2>1, <2>2, <2>3
    DEF ReadInv, RowRead, WorkerRead, Moves, OthersKept
  <2>4. ASSUME NEW e \in exports, Moves(i, "mark"), Reads(i, e) PROVE ReadInv'
    <3>1. /\ \A c \in Chunks : delivered[c] # {} => delivered'[c] # {}
          /\ delivered'[me[i].chunk[1]] # {}
      BY <2>4 DEF Reads
    <3>2. \A k \in Instances : me[k].pc = "mark" => me[k].chunk[1] \in Chunks
      BY <1>1, <1>2 DEF ReadInv, WorkerRead, Ids
    <3>3. QED
      BY <1>1, <2>1, <2>2, <2>4, <3>1, <3>2
      DEF ReadInv, RowRead, WorkerRead, Moves,
          OthersKept
  <2>5. QED
    BY <1>17, <1>2, <2>1, <2>3, <2>4, ProcessMoves
<1>18. ASSUME NEW i \in Instances, MarkChunkCompleted(i) PROVE ReadInv'
  BY <1>18, <1>1, <1>2
  DEF MarkChunkCompleted, At, Goto, SetStatus, IsRow, wal, db, faults,
      ReadInv, RowRead, WorkerRead, Local
<1>19. ASSUME NEW i \in Instances, ReleaseChunk(i) PROVE ReadInv'
  BY <1>19, <1>1, <1>2
  DEF ReleaseChunk, At, Goto, SetStatus, Invalidated, AttemptFails, IsRow,
      wal, db, faults, ReadInv, RowRead, WorkerRead, Local
<1>20. ASSUME NEW i \in Instances, CheckJobCompleted(i) PROVE ReadInv'
  BY <1>20, <1>1, <1>2
  DEF CheckJobCompleted, At, Goto, Executed, wal, db, faults, ReadInv, RowRead, WorkerRead, Local
<1>21. ASSUME NEW i \in Instances, MarkJobAsCompleted(i) PROVE ReadInv'
  BY <1>21, <1>1, <1>2
  DEF MarkJobAsCompleted, At, Goto, Executed, wal, db, faults, ReadInv, RowRead, WorkerRead, Local
<1>22. ASSUME NEW i \in Instances, OpenStream(i) PROVE ReadInv'
  BY <1>22, <1>1, <1>2, OpenMoves, IdleRead DEF OpenStream, db
<1>23. ASSUME NEW i \in Instances, Restart(i) PROVE ReadInv'
  BY <1>23, <1>1, <1>2
  DEF Restart, At, Goto, Process, wal, db, faults, ReadInv,
      RowRead, WorkerRead, Local
<1>24. ASSUME NEW i \in Instances, Exit(i) PROVE ReadInv'
  BY <1>24, <1>1, <1>2
  DEF Exit, At, Goto, Process, wal, db, faults, ReadInv,
      RowRead, WorkerRead, Local
<1>25. ASSUME NEW i \in Instances, WaitTimeout(i) PROVE ReadInv'
  BY <1>25, <1>1, <1>2
  DEF WaitTimeout, At, Goto, AttemptFails, wal, db, faults, ReadInv, RowRead, WorkerRead, Local
<1>26. ASSUME NEW i \in Instances, HeartbeatReceive(i) PROVE ReadInv'
  BY <1>26, <1>1, <1>2
  DEF HeartbeatReceive, At, Goto, wal, db, faults, ReadInv,
      RowRead, WorkerRead, Local
<1>27. ASSUME NEW i \in Instances, HeartbeatTick(i) PROVE ReadInv'
  BY <1>27, <1>1, <1>2
  DEF HeartbeatTick, At, Goto, IsRow, wal, db, faults, ReadInv, RowRead, WorkerRead, Local
<1>28. ASSUME NEW i \in Instances, StatementFails(i) PROVE ReadInv'
  BY <1>28, <1>1, <1>2, StatementMoves, IdleRead
<1>29. ASSUME NEW i \in Instances, Crash(i) PROVE ReadInv'
  BY <1>29, <1>1, <1>2
  DEF Crash, At, Goto, Process, wal, db, faults, ReadInv,
      RowRead, WorkerRead, Local
<1>30. ASSUME NEW i \in Instances, Start(i) PROVE ReadInv'
  BY <1>30, <1>1, <1>2
  DEF Start, At, Goto, Process, wal, db, faults, ReadInv,
      RowRead, WorkerRead, Local
<1>31. ASSUME NEW c \in Chunks, Expire(c) PROVE ReadInv'
  BY <1>31, <1>1, <1>2
  DEF Expire, wal, db, faults, ReadInv, RowRead, WorkerRead, Local
<1>32. CASE Write
  BY <1>32, <1>1, <1>2
  DEF Write, wal, db, faults, ReadInv, RowRead, WorkerRead, Local
<1>33. CASE BecomeVisible
  BY <1>33, <1>1, <1>2
  DEF BecomeVisible, wal, db, faults, ReadInv, RowRead,
      WorkerRead, Local
<1>34. CASE CollectLeaked
  BY <1>34, <1>1, <1>2
  DEF CollectLeaked, wal, db, faults, ReadInv, RowRead,
      WorkerRead, Local
<1>35. CASE UNCHANGED vars
  BY <1>35, <1>1, <1>2
  DEF vars, wal, db, faults, ReadInv, RowRead, WorkerRead, Local
<1>36. QED
  BY <1>1, <1>3, <1>4, <1>5, <1>6, <1>7, <1>8, <1>9, <1>10, <1>11, <1>12,
     <1>13, <1>14, <1>15, <1>16, <1>17, <1>18, <1>19, <1>20, <1>21, <1>22,
     <1>23, <1>24, <1>25, <1>26, <1>27, <1>28, <1>29, <1>30, <1>31, <1>32,
     <1>33, <1>34, <1>35
  DEF Next, Step

(***************************************************************************)
(* Who owns what: an export belongs to the instance that names it as its   *)
(* own, one instance at a time initialises the job, and the id it brings   *)
(* is known to nobody else until it has saved it.                          *)
(***************************************************************************)
LockPhases == {"lsn", "init", "cleanup", "delete", "export", "chunks", "save"}

\* The id of an export that is not in the job yet.
Unsaved(i) ==
  /\ me[i].own # 0 /\ job.export # me[i].own
  /\ \E e \in exports : e.id = me[i].own
  /\ \A k \in Instances : me[k].known # me[i].own

ExportsOwned ==
  /\ \A e, f \in exports : e.id = f.id => e = f
  /\ \A e \in exports, i \in Instances : me[i].own = e.id => e.owner = i

OwnerInv ==
  /\ ExportsOwned
  /\ \A i \in Instances :
       /\ me[i].pc \in LockPhases => lock = i
       /\ me[i].pc \in {"chunks", "save"} => Unsaved(i)

\* Initially there is no export.
LEMMA InitOwner == Init => OwnerInv
BY DEF Init, OwnerInv, ExportsOwned, LockPhases, Process

\* An instance goes on, within the lock or without it; the job stays, or is
\* deleted.
LEMMA MoveOwner ==
  ASSUME OwnerInv, NEW i \in Instances, NEW p, Moves(i, p),
         p \notin {"chunks", "save"}, p \in LockPhases => lock' = i,
         \A k \in Instances : (k # i /\ lock = k) => lock' = k,
         UNCHANGED exports, job'.export \in {job.export, 0}
  PROVE  OwnerInv'
<1>1. ExportsOwned'
  BY DEF OwnerInv, ExportsOwned, Moves, OthersKept
<1>2. ASSUME NEW k \in Instances
      PROVE  /\ me'[k].pc \in LockPhases => lock' = k
             /\ me'[k].pc \in {"chunks", "save"} => Unsaved(k)'
  <2>1. CASE k = i
    BY <2>1 DEF Moves
  <2>2. CASE k # i
    <3>1. me'[k] = me[k]
      BY <2>2 DEF Moves, OthersKept
    <3>2. \A h \in Instances : me'[h].known = me[h].known
      BY DEF Moves, OthersKept
    <3>3. me'[k].pc \in LockPhases => lock' = k
      BY <2>2, <3>1 DEF OwnerInv
    <3>4. me'[k].pc \in {"chunks", "save"} => Unsaved(k)'
      BY <3>1, <3>2 DEF OwnerInv, Unsaved
    <3>5. QED
      BY <3>3, <3>4
  <2>3. QED
    BY <2>1, <2>2
<1>3. QED
  BY <1>1, <1>2 DEF OwnerInv

\* An instance gives up what it owns: its exports are closed, those of others
\* stay open.
LEMMA DisownOwner ==
  ASSUME OwnerInv, TypeInv, NEW i \in Instances, OthersKept(i),
         me'[i].pc \notin LockPhases,
         me'[i].own = 0, me'[i].known \in {me[i].known, 0},
         \A k \in Instances : (k # i /\ lock = k) => lock' = k,
         exports' \in SUBSET exports,
         \A e \in exports : e \in exports' \/ e.owner = i,
         job'.export = job.export
  PROVE  OwnerInv'
<1>1. \A e \in exports : e.id # 0
  BY DEF TypeInv, ServerType
<1>2. ExportsOwned'
  BY <1>1 DEF OwnerInv, ExportsOwned, OthersKept
<1>3. ASSUME NEW k \in Instances
      PROVE  /\ me'[k].pc \in LockPhases => lock' = k
             /\ me'[k].pc \in {"chunks", "save"} => Unsaved(k)'
  <2>1. CASE k = i
    BY <2>1 DEF LockPhases
  <2>2. CASE k # i
    <3>1. me'[k] = me[k]
      BY <2>2 DEF OthersKept
    <3>2. \A h \in Instances : me'[h].known \in {me[h].known, 0}
      BY DEF OthersKept
    <3>3. me'[k].pc \in LockPhases => lock' = k
      BY <2>2, <3>1 DEF OwnerInv
    <3>4. me'[k].pc \in {"chunks", "save"} => Unsaved(k)'
      BY <2>2, <3>1, <3>2 DEF OwnerInv, Unsaved, ExportsOwned
    <3>5. QED
      BY <3>3, <3>4
  <2>3. QED
    BY <2>1, <2>2
<1>4. QED
  BY <1>2, <1>3 DEF OwnerInv

\* A process that starts or ends knows nothing.
LEMMA ProcessMovesOn ==
  ASSUME me \in [Instances -> Local], NEW i \in Instances, NEW p,
         me' = [me EXCEPT ![i] = Process(p)]
  PROVE  /\ OthersKept(i) /\ me'[i].pc = p /\ me'[i].own = 0 /\ me'[i].known = 0
         /\ me'[i].chunk = NoChunk /\ me'[i].lsn = 0 /\ me'[i].from = 0
         /\ ~me'[i].fromSnapshot
BY DEF Process, OthersKept, Local

\* UPDATE of a chunk by its id reaches that row of that generation only.
LEMMA SetStatusKeeps ==
  ASSUME chunks \in [Chunks -> RowType], NEW id \in Ids, NEW st, SetStatus(id, st)
  PROVE  \A c \in Chunks :
           /\ chunks'[c].gen = chunks[c].gen
           /\ chunks'[c].status = chunks[c].status \/
                (c = id[1] /\ chunks[c].gen = id[2] /\ chunks'[c].status = st)
<1>1. CASE IsRow(id)
  <2>1. id[1] \in Chunks
    BY <1>1 DEF IsRow, Ids
  <2>2. chunks' = [chunks EXCEPT ![id[1]] =
                     [chunks[id[1]] EXCEPT !.status = st,
                        !.fresh = chunks[id[1]].fresh /\ st # "pending"]]
    BY <1>1 DEF SetStatus
  <2>3. QED
    BY <1>1, <2>1, <2>2 DEF RowType, IsRow
<1>2. CASE ~IsRow(id)
  BY <1>2 DEF SetStatus
<1>3. QED
  BY <1>1, <1>2

\* Every step keeps the ownership of exports and of the lock.
LEMMA NextOwner == TypeInv /\ OwnerInv /\ [Next]_vars => OwnerInv'
<1>1. SUFFICES ASSUME TypeInv, OwnerInv, [Next]_vars PROVE OwnerInv'
  OBVIOUS
<1>2. /\ me \in [Instances -> Local] /\ chunks \in [Chunks -> RowType]
      /\ delivered \in [Chunks -> SUBSET SUBSET (1..setting.writes)]
      /\ \A i \in Instances : me[i].chunk \in Ids
  BY <1>1 DEF TypeInv, MeType, DbType, ServerType, Local
<1>3. ASSUME NEW i \in Instances, ShouldTakeSnapshot(i) PROVE OwnerInv'
  <2>1. \E p \in {"reset", "opening", "done", "slot", "prepare"} : Moves(i, p)
    BY <1>3, <1>2, GotoMoves DEF ShouldTakeSnapshot, Executed, Taking
  <2>2. QED
    BY <1>3, <1>1, <2>1, MoveOwner DEF ShouldTakeSnapshot, db, LockPhases
<1>4. ASSUME NEW i \in Instances, SlotInfo(i) PROVE OwnerInv'
  <2>1. \E p \in {"create", "prepare"} : Moves(i, p)
    BY <1>4, <1>2, GotoMoves DEF SlotInfo
  <2>2. QED
    BY <1>4, <1>1, <2>1, MoveOwner DEF SlotInfo, db, LockPhases
<1>5. ASSUME NEW i \in Instances, CreateSlot(i) PROVE OwnerInv'
  <2>1. \E p \in {"prepare", "slot", "failed"} : Moves(i, p)
    BY <1>5, <1>2, GotoMoves, FailMoves DEF CreateSlot
  <2>2. QED
    BY <1>5, <1>1, <2>1, MoveOwner DEF CreateSlot, db, LockPhases
<1>6. ASSUME NEW i \in Instances, SetupJob(i) PROVE OwnerInv'
  <2>1. CASE lock \in {Nobody, i}
    <3>1. Moves(i, "lsn") /\ lock' = i /\ UNCHANGED <<exports, job, chunks>>
      BY <1>6, <1>2, <2>1, GotoMoves DEF SetupJob, db
    <3>2. QED
      BY <1>1, <2>1, <3>1, MoveOwner, SnapshotAssumption
  <2>2. CASE lock \notin {Nobody, i}
    <3>1. Moves(i, "wait") /\ UNCHANGED <<lock, exports, job, chunks>>
      BY <1>6, <1>2, <2>2, GotoMoves DEF SetupJob, db
    <3>2. QED
      BY <1>1, <3>1, MoveOwner DEF LockPhases
  <2>3. QED
    BY <2>1, <2>2
<1>7. ASSUME NEW i \in Instances, GetCurrentLSN(i) PROVE OwnerInv'
  <2>1. Moves(i, "init") /\ lock' = i
    <3>1. me' = [me EXCEPT ![i] = [me[i] EXCEPT !.lsn = written, !.pc = "init"]]
      BY <1>7 DEF GetCurrentLSN
    <3>2. Moves(i, "init")
      BY <1>2, <3>1 DEF Moves, OthersKept, Local
    <3>3. QED
      BY <1>7, <1>1, <3>2 DEF GetCurrentLSN, At, OwnerInv, LockPhases
  <2>2. QED
    BY <1>7, <1>1, <2>1, MoveOwner DEF GetCurrentLSN, db
<1>8. ASSUME NEW i \in Instances, InitializeCoordinator(i) PROVE OwnerInv'
  <2>1. lock' = i /\ UNCHANGED <<lock, exports, job, chunks>>
    BY <1>8, <1>1 DEF InitializeCoordinator, At, OwnerInv, LockPhases, db
  <2>2. \E p \in {"cleanup", "export"} : Moves(i, p)
    BY <1>8, <1>2, GotoMoves DEF InitializeCoordinator
  <2>3. QED
    BY <1>1, <2>1, <2>2, MoveOwner
<1>9. ASSUME NEW i \in Instances, CleanupChunks(i) PROVE OwnerInv'
  <2>1. /\ UNCHANGED <<lock, exports, job>>
        /\ \A c \in Chunks : chunks'[c].gen = 0
    BY <1>9 DEF CleanupChunks, NoRow, Row
  <2>2. CASE At(i, "cleanup") /\ Goto(i, "delete")
    <3>1. lock' = i /\ Moves(i, "delete")
      BY <1>1, <1>2, <2>1, <2>2, GotoMoves DEF At, OwnerInv, LockPhases
    <3>2. QED
      BY <1>1, <2>1, <3>1, MoveOwner
  <2>3. CASE Goto(i, "resetJob")
    <3>1. Moves(i, "resetJob")
      BY <1>2, <2>3, GotoMoves
    <3>2. QED
      BY <1>1, <2>1, <3>1, MoveOwner DEF LockPhases
  <2>4. QED
    BY <1>9, <2>2, <2>3 DEF CleanupChunks
<1>10. ASSUME NEW i \in Instances, CleanupJob(i) PROVE OwnerInv'
  <2>1. UNCHANGED <<lock, exports, chunks>> /\ job'.export = 0
    BY <1>10 DEF CleanupJob, NoJob
  <2>2. CASE At(i, "delete") /\ Goto(i, "export")
    <3>1. lock' = i /\ Moves(i, "export")
      BY <1>1, <1>2, <2>1, <2>2, GotoMoves DEF At, OwnerInv, LockPhases
    <3>2. QED
      BY <1>1, <2>1, <3>1, MoveOwner
  <2>3. CASE Goto(i, Taking)
    <3>1. \E p \in {"prepare", "slot"} : Moves(i, p)
      BY <1>2, <2>3, GotoMoves DEF Taking
    <3>2. QED
      BY <1>1, <2>1, <3>1, MoveOwner DEF LockPhases
  <2>4. QED
    BY <1>10, <2>2, <2>3 DEF CleanupJob
<1>11. ASSUME NEW i \in Instances, ExportSnapshotTransaction(i) PROVE OwnerInv'
  <2> DEFINE n == NewId
             x == [id |-> n, owner |-> i, view |-> visible]
  <2>1. /\ exports' = exports \cup {x} /\ UNCHANGED <<lock, job>>
        /\ me' = [me EXCEPT ![i] = [me[i] EXCEPT !.own = n, !.saved = 0,
                                                 !.pc = "chunks"]]
    BY <1>11 DEF ExportSnapshotTransaction, db
  <2>2. n # 0 /\ n \notin UsedIds
    BY <1>1, NewIdIsNew DEF TypeInv, ServerType
  <2> HIDE DEF n
  <2>3. /\ n # job.export
        /\ \A e \in exports : e.id # n
        /\ \A k \in Instances : me[k].own # n /\ me[k].known # n
    BY <2>2 DEF UsedIds
  <2>4. /\ OthersKept(i) /\ me'[i].pc = "chunks" /\ me'[i].own = n
        /\ me'[i].known = me[i].known
    BY <1>2, <2>1 DEF OthersKept, Local
  <2>5. x \in exports' /\ x.id = n /\ x.owner = i
    BY <2>1
  <2>6. lock = i /\ \A k \in Instances : k # i => me[k].pc \notin LockPhases
    BY <1>11, <1>1 DEF ExportSnapshotTransaction, At, OwnerInv, LockPhases
  <2> HIDE DEF x
  <2>7. ExportsOwned'
    BY <1>1, <2>1, <2>3, <2>4, <2>5 DEF OwnerInv, ExportsOwned, OthersKept
  <2>8. Unsaved(i)'
    <3>1. \A k \in Instances : me'[k].known # n
      BY <2>3, <2>4 DEF OthersKept
    <3>2. QED
      BY <2>1, <2>2, <2>3, <2>4, <2>5, <3>1 DEF Unsaved
  <2>9. QED
    BY <2>1, <2>4, <2>6, <2>7, <2>8 DEF OwnerInv, OthersKept, LockPhases
<1>12. ASSUME NEW i \in Instances, SaveChunks(i) PROVE OwnerInv'
  <2>1. /\ lock = i /\ \A k \in Instances : k # i => me[k].pc \notin LockPhases
        /\ Unsaved(i) /\ UNCHANGED <<lock, exports, job>>
    BY <1>12, <1>1 DEF SaveChunks, At, OwnerInv, LockPhases
  <2>2. CASE \E p \in {"slot", "failed"} : Moves(i, p)
    BY <1>1, <2>1, <2>2, MoveOwner DEF LockPhases
  <2>3. CASE \E p \in {"chunks", "save"} : Moves(i, p)
    <3>1. Unsaved(i)'
      BY <2>1, <2>3 DEF Unsaved, Moves, OthersKept
    <3>2. ExportsOwned'
      BY <1>1, <2>1, <2>3 DEF OwnerInv, ExportsOwned, Moves, OthersKept
    <3>3. QED
      BY <2>1, <2>3, <3>1, <3>2 DEF OwnerInv, Moves, OthersKept, LockPhases
  <2>4. QED
    BY <1>12, <1>2, <2>2, <2>3, SaveMoves DEF Inserts
<1>13. ASSUME NEW i \in Instances, SaveJob(i) PROVE OwnerInv'
  <2>1. lock = i /\ \A k \in Instances : k # i => me[k].pc \notin LockPhases
    BY <1>13, <1>1 DEF SaveJob, At, OwnerInv, LockPhases
  <2>2. \E p \in {"execute", "slot", "failed"} : Moves(i, p)
    BY <1>13, <1>2, ExecuteMoves, FailMoves DEF SaveJob
  <2>3. ExportsOwned'
    BY <1>13, <1>1, <2>2 DEF SaveJob, OwnerInv, ExportsOwned, Moves, OthersKept
  <2>4. QED
    BY <2>1, <2>2, <2>3 DEF OwnerInv, Moves, OthersKept, LockPhases
<1>14. ASSUME NEW i \in Instances, WaitForCoordinator(i) PROVE OwnerInv'
  <2>1. Moves(i, "execute")
    BY <1>14, <1>2, ExecuteMoves DEF WaitForCoordinator
  <2>2. QED
    BY <1>14, <1>1, <2>1, MoveOwner DEF WaitForCoordinator, db, LockPhases
<1>15. ASSUME NEW i \in Instances, LoadJob(i) PROVE OwnerInv'
  <2>1. CASE ~HasJob
    <3>1. \E p \in {"slot", "failed"} : Moves(i, p)
      BY <1>15, <1>2, <2>1, FailMoves DEF LoadJob
    <3>2. QED
      BY <1>15, <1>1, <3>1, MoveOwner DEF LoadJob, db, LockPhases
  <2>2. CASE HasJob
    <3>1. /\ OthersKept(i) /\ me'[i].pc = "claim" /\ me'[i].own = me[i].own
          /\ me'[i].known = job.export /\ me'[i].chunk = me[i].chunk
          /\ UNCHANGED <<lock, exports, job, chunks>>
      BY <1>15, <1>2, <2>2 DEF LoadJob, OthersKept, Local, db
    <3>2. QED
      BY <1>1, <3>1
      DEF OwnerInv, ExportsOwned, Unsaved, OthersKept, LockPhases
  <2>3. QED
    BY <2>1, <2>2
<1>16. ASSUME NEW i \in Instances, ClaimNextChunk(i) PROVE OwnerInv'
  <2>1. /\ OthersKept(i) /\ me'[i].own = me[i].own /\ me'[i].known = me[i].known
        /\ UNCHANGED <<lock, exports, job>>
    BY <1>16, <1>2, ClaimMoves DEF ClaimNextChunk
  <2>2. ExportsOwned'
    BY <1>1, <2>1 DEF OwnerInv, ExportsOwned, OthersKept
  <2>3. CASE ClaimsNothing(i)
    <3>1. me'[i].pc = "finalize" /\ me'[i].chunk[2] = 0 /\ UNCHANGED chunks
      BY <2>3 DEF ClaimsNothing, NoChunk
    <3>2. QED
      BY <1>1, <2>1, <2>2, <3>1 DEF OwnerInv, Unsaved, OthersKept, LockPhases
  <2>4. ASSUME NEW c \in Chunks, Claims(i, c) PROVE OwnerInv'
    <3>1. me'[i].pc = "process" /\ me'[i].chunk[2] = chunks[c].gen
      BY <2>4 DEF Claims
    <3>2. \A d \in Chunks : chunks'[d].gen = chunks[d].gen
      BY <1>2, <2>4 DEF Claims, RowType
    <3>3. QED
      BY <1>1, <2>1, <2>2, <3>1, <3>2
      DEF OwnerInv, Unsaved, OthersKept, LockPhases
  <2>5. QED
    BY <1>16, <1>2, <2>3, <2>4, ClaimMoves
<1>17. ASSUME NEW i \in Instances, ProcessChunk(i) PROVE OwnerInv'
  <2>1. \E p \in {"release", "mark"} : Moves(i, p)
    BY <1>17, <1>2, GotoMoves DEF ProcessChunk
  <2>2. QED
    BY <1>17, <1>1, <2>1, MoveOwner DEF ProcessChunk, db, LockPhases
<1>18. ASSUME NEW i \in Instances, MarkChunkCompleted(i) PROVE OwnerInv'
  <2>1. Moves(i, "claim")
    BY <1>18, <1>2, GotoMoves DEF MarkChunkCompleted
  <2>2. \A c \in Chunks : chunks'[c].gen = chunks[c].gen
    BY <1>18, <1>2, SetStatusKeeps DEF MarkChunkCompleted
  <2>3. job'.export = job.export
    BY <1>18, <1>1 DEF MarkChunkCompleted, TypeInv, DbType
  <2>4. QED
    BY <1>18, <1>1, <2>1, <2>2, <2>3, MoveOwner DEF MarkChunkCompleted, LockPhases
<1>19. ASSUME NEW i \in Instances, ReleaseChunk(i) PROVE OwnerInv'
  <2>1. \E p \in {"execute", "slot", "failed"} : Moves(i, p)
    BY <1>19, <1>2, AgainMoves DEF ReleaseChunk
  <2>2. \A c \in Chunks : chunks'[c].gen = chunks[c].gen
    BY <1>19, <1>2, SetStatusKeeps DEF ReleaseChunk
  <2>3. QED
    BY <1>19, <1>1, <2>1, <2>2, MoveOwner DEF ReleaseChunk, LockPhases
<1>20. ASSUME NEW i \in Instances, CheckJobCompleted(i) PROVE OwnerInv'
  <2>1. \E p \in {"complete", "opening", "done"} : Moves(i, p)
    BY <1>20, <1>2, GotoMoves DEF CheckJobCompleted, Executed
  <2>2. QED
    BY <1>20, <1>1, <2>1, MoveOwner DEF CheckJobCompleted, db, LockPhases
<1>21. ASSUME NEW i \in Instances, MarkJobAsCompleted(i) PROVE OwnerInv'
  <2>1. me' = [me EXCEPT ![i] = [me[i] EXCEPT !.own = 0, !.pc = Executed]]
    BY <1>21 DEF MarkJobAsCompleted
  <2>2. /\ OthersKept(i) /\ me'[i].pc \notin LockPhases /\ me'[i].own = 0
        /\ me'[i].known = me[i].known /\ me'[i].chunk = me[i].chunk
    BY <1>2, <2>1 DEF OthersKept, Local, Executed, LockPhases
  <2>3. /\ exports' \in SUBSET exports /\ UNCHANGED chunks
        /\ job'.export = job.export
        /\ \A k \in Instances : (k # i /\ lock = k) => lock' = k
    BY <1>21, <1>1 DEF MarkJobAsCompleted, TypeInv, DbType
  <2>4. \A e \in exports : e \in exports' \/ e.owner = i
    BY <1>21, <1>1 DEF MarkJobAsCompleted, OwnerInv, ExportsOwned
  <2>5. QED
    BY <1>1, <2>2, <2>3, <2>4, DisownOwner
<1>22. ASSUME NEW i \in Instances, OpenStream(i) PROVE OwnerInv'
  <2>1. \E p \in {"streaming", "failed"} : Moves(i, p)
    BY <1>22, <1>2, OpenMoves DEF OpenStream
  <2>2. QED
    BY <1>22, <1>1, <2>1, MoveOwner DEF OpenStream, db, LockPhases
<1>23. ASSUME NEW i \in Instances, Restart(i) PROVE OwnerInv'
  <2>1. /\ OthersKept(i) /\ me'[i].pc = "start" /\ me'[i].own = 0 /\ me'[i].known = 0
        /\ me'[i].chunk = NoChunk
    BY <1>23, <1>2, ProcessMovesOn DEF Restart
  <2>2. /\ exports' \in SUBSET exports /\ UNCHANGED <<chunks, job>>
        /\ \A k \in Instances : (k # i /\ lock = k) => lock' = k
        /\ \A e \in exports : e \in exports' \/ e.owner = i
    BY <1>23, <1>1 DEF Restart, db, OwnerInv, ExportsOwned
  <2>3. me'[i].chunk[2] = 0
    BY <2>1 DEF NoChunk
  <2>4. QED
    BY <1>1, <2>1, <2>2, <2>3, DisownOwner DEF LockPhases
<1>24. ASSUME NEW i \in Instances, Exit(i) PROVE OwnerInv'
  <2>1. /\ OthersKept(i) /\ me'[i].pc = "exited" /\ me'[i].own = 0 /\ me'[i].known = 0
        /\ me'[i].chunk = NoChunk
    BY <1>24, <1>2, ProcessMovesOn DEF Exit
  <2>2. /\ exports' \in SUBSET exports /\ UNCHANGED <<chunks, job>>
        /\ \A k \in Instances : (k # i /\ lock = k) => lock' = k
        /\ \A e \in exports : e \in exports' \/ e.owner = i
    BY <1>24, <1>1 DEF Exit, db, OwnerInv, ExportsOwned
  <2>3. me'[i].chunk[2] = 0
    BY <2>1 DEF NoChunk
  <2>4. QED
    BY <1>1, <2>1, <2>2, <2>3, DisownOwner DEF LockPhases
<1>25. ASSUME NEW i \in Instances, WaitTimeout(i) PROVE OwnerInv'
  <2>1. \E p \in {"slot", "failed"} : Moves(i, p)
    BY <1>25, <1>2, FailMoves DEF WaitTimeout
  <2>2. QED
    BY <1>25, <1>1, <2>1, MoveOwner DEF WaitTimeout, db, LockPhases
<1>26. ASSUME NEW i \in Instances, HeartbeatReceive(i) PROVE OwnerInv'
  <2>1. \E p \in {"claim", "process", "mark", "release"} : Moves(i, p)
    BY <1>26, <1>2, HeartbeatMoves
  <2>2. QED
    BY <1>26, <1>1, <2>1, MoveOwner DEF HeartbeatReceive, db, LockPhases
<1>27. ASSUME NEW i \in Instances, HeartbeatTick(i) PROVE OwnerInv'
  BY <1>27, <1>1, <1>2
  DEF HeartbeatTick, At, Goto, IsRow, wal, db, faults, OwnerInv,
      ExportsOwned, Unsaved, RowType
<1>28. ASSUME NEW i \in Instances, StatementFails(i) PROVE OwnerInv'
  <2>1. /\ UNCHANGED <<lock, exports, chunks, job>>
        /\ \E p \in {"reset", "prepare", "slot", "export", "claim", "execute",
                      "failed"} : Moves(i, p)
        /\ me[i].pc = "init" \/ ~Moves(i, "export")
    BY <1>28, <1>2, StatementMoves
  <2>2. CASE Moves(i, "export")
    BY <1>1, <2>1, <2>2, MoveOwner DEF OwnerInv, LockPhases
  <2>3. CASE ~Moves(i, "export")
    <3>1. \E p \in {"reset", "prepare", "slot", "claim", "execute", "failed"} :
            Moves(i, p)
      BY <2>1, <2>3
    <3>2. QED
      BY <1>1, <2>1, <3>1, MoveOwner DEF LockPhases
  <2>4. QED
    BY <2>2, <2>3
<1>29. ASSUME NEW i \in Instances, Crash(i) PROVE OwnerInv'
  <2>1. /\ OthersKept(i) /\ me'[i].pc = "down" /\ me'[i].own = 0 /\ me'[i].known = 0
        /\ me'[i].chunk = NoChunk
    BY <1>29, <1>2, ProcessMovesOn DEF Crash
  <2>2. /\ exports' \in SUBSET exports /\ UNCHANGED <<chunks, job>>
        /\ \A k \in Instances : (k # i /\ lock = k) => lock' = k
        /\ \A e \in exports : e \in exports' \/ e.owner = i
    BY <1>29, <1>1 DEF Crash, db, OwnerInv, ExportsOwned
  <2>3. me'[i].chunk[2] = 0
    BY <2>1 DEF NoChunk
  <2>4. QED
    BY <1>1, <2>1, <2>2, <2>3, DisownOwner DEF LockPhases
<1>30. ASSUME NEW i \in Instances, Start(i) PROVE OwnerInv'
  <2>1. /\ OthersKept(i) /\ me'[i].pc = "start" /\ me'[i].own = 0 /\ me'[i].known = 0
        /\ me'[i].chunk = NoChunk
    BY <1>30, <1>2, ProcessMovesOn DEF Start
  <2>2. /\ exports' \in SUBSET exports /\ UNCHANGED <<chunks, job>>
        /\ \A k \in Instances : (k # i /\ lock = k) => lock' = k
        /\ \A e \in exports : e \in exports' \/ e.owner = i
    BY <1>30, <1>1 DEF Start, db, OwnerInv, ExportsOwned
  <2>3. me'[i].chunk[2] = 0
    BY <2>1 DEF NoChunk
  <2>4. QED
    BY <1>1, <2>1, <2>2, <2>3, DisownOwner DEF LockPhases
<1>31. ASSUME NEW c \in Chunks, Expire(c) PROVE OwnerInv'
  BY <1>31, <1>1, <1>2
  DEF Expire, wal, db, faults, OwnerInv, ExportsOwned, Unsaved,
      RowType
<1>32. CASE Write
  BY <1>32, <1>1, <1>2
  DEF Write, wal, db, faults, OwnerInv, ExportsOwned, Unsaved,
      RowType
<1>33. CASE BecomeVisible
  BY <1>33, <1>1, <1>2
  DEF BecomeVisible, wal, db, faults, OwnerInv, ExportsOwned, Unsaved,
      RowType
<1>34. CASE CollectLeaked
  BY <1>34, <1>1, <1>2
  DEF CollectLeaked, wal, db, faults, OwnerInv, ExportsOwned, Unsaved,
      RowType
<1>35. CASE UNCHANGED vars
  BY <1>35, <1>1, <1>2
  DEF vars, wal, db, faults, OwnerInv, ExportsOwned, Unsaved,
      RowType
<1>36. QED
  BY <1>1, <1>3, <1>4, <1>5, <1>6, <1>7, <1>8, <1>9, <1>10, <1>11, <1>12,
     <1>13, <1>14, <1>15, <1>16, <1>17, <1>18, <1>19, <1>20, <1>21, <1>22,
     <1>23, <1>24, <1>25, <1>26, <1>27, <1>28, <1>29, <1>30, <1>31, <1>32,
     <1>33, <1>34, <1>35
  DEF Next, Step

(***************************************************************************)
(* One coordinator per job.  No statement fails and nobody asks for        *)
(* resnapshot; instances may crash, time out and lose exports.             *)
(***************************************************************************)
Gentle == setting.errors = 0 /\ ~setting.resnapshot

\* Where the coordinator is while its export is the job's.
AfterSave == {"execute", "claim", "process", "mark", "finalize", "complete",
              "opening", "streaming", "done"}
\* Where an instance reads under the export it loaded from the job.
KnowsJob == {"claim", "process", "mark", "finalize", "complete"}

Coordinates(e) ==
  /\ lock = e.owner /\ me[e.owner].own = e.id
  /\ me[e.owner].pc \in AfterSave
  /\ me[e.owner].pc \in KnowsJob => me[e.owner].known = e.id
  /\ \A c \in Chunks : chunks[c].gen = e.id

\* The batches that a coordinator has inserted so far.
Inserted(i) == \A c \in Chunks : c <= me[i].saved => chunks[c].gen = me[i].own

\* As long as the job's export is open its owner holds the lock, goes on with
\* the snapshot, and all rows are its rows; an export that somebody still
\* reads under is the job's; and nobody removes the rows between two batches.
CoordInv ==
  /\ \A e \in exports : e.id = job.export => Coordinates(e)
  /\ \A e \in exports, i \in Instances : me[i].known = e.id => job.export = e.id
  /\ \A i \in Instances :
       /\ me[i].pc \notin {"reset", "resetJob"}
       /\ me[i].pc = "chunks" => Inserted(i)
       /\ me[i].pc = "save" => \A c \in Chunks : chunks[c].gen = me[i].own

\* Initially no export is the job's.
LEMMA InitCoord == Init => CoordInv
BY DEF Init, CoordInv, Process

\* An instance that initialises the job finds no export of it open, so nobody
\* can read a chunk.
LEMMA LockedOut ==
  ASSUME CoordInv, NEW i \in Instances, lock = i, me[i].pc \notin AfterSave
  PROVE  /\ \A e \in exports : e.id # job.export
         /\ \A e \in exports, k \in Instances : me[k].known # e.id
BY DEF CoordInv, Coordinates

\* A step that leaves the job's export alone, or closes others, keeps CoordInv.
LEMMA MoveCoord ==
  ASSUME CoordInv, NEW i \in Instances, NEW p, OthersKept(i),
         me'[i].pc = p, me'[i].own = me[i].own, me'[i].known = me[i].known,
         p \notin {"chunks", "save", "reset", "resetJob"},
         \A e \in exports : (e.id = job.export /\ e.owner = i) =>
            p \in AfterSave /\ (p \in KnowsJob => me[i].pc \in KnowsJob),
         exports' \in SUBSET exports, UNCHANGED lock, job'.export = job.export,
         \A c \in Chunks : chunks'[c].gen = chunks[c].gen,
         \A e \in exports : e.owner \in Instances
  PROVE  CoordInv'
<1>1. ASSUME NEW e \in exports', e.id = job'.export PROVE Coordinates(e)'
  <2>1. Coordinates(e) /\ e.owner \in Instances /\ e.id = job.export
    BY <1>1 DEF CoordInv
  <2>2. CASE e.owner = i
    BY <1>1, <2>1, <2>2 DEF Coordinates
  <2>3. CASE e.owner # i
    BY <1>1, <2>1, <2>3 DEF Coordinates, OthersKept
  <2>4. QED
    BY <2>2, <2>3
<1>2. QED
  BY <1>1 DEF CoordInv, Inserted, OthersKept

\* So does the end of the export's owner, when the export ends with it.
LEMMA DisownCoord ==
  ASSUME CoordInv, NEW i \in Instances, OthersKept(i),
         me'[i].pc \notin {"chunks", "save", "reset", "resetJob"},
         me'[i].known \in {me[i].known, 0},
         \A e \in exports : e.id # 0 /\ e.owner \in Instances,
         exports' \in SUBSET exports,
         \A e \in exports' : e.id = job.export => e.owner # i,
         \A k \in Instances : (k # i /\ lock = k) => lock' = k,
         job'.export = job.export, UNCHANGED chunks
  PROVE  CoordInv'
<1>1. ASSUME NEW e \in exports', e.id = job'.export PROVE Coordinates(e)'
  <2>1. Coordinates(e) /\ e.owner \in Instances /\ e.owner # i
    BY <1>1 DEF CoordInv
  <2>2. QED
    BY <1>1, <2>1 DEF Coordinates, OthersKept
<1>2. QED
  BY <1>1 DEF CoordInv, Inserted, OthersKept

\* Every step keeps CoordInv, unless statements fail.
LEMMA NextCoord ==
  ASSUME TypeInv, OwnerInv, Gentle, CoordInv, [Next]_vars
  PROVE  CoordInv'
<1>1. /\ TypeInv /\ OwnerInv /\ CoordInv /\ [Next]_vars
      /\ setting.errors = 0 /\ ~setting.resnapshot /\ errors \in 0..setting.errors
  BY DEF Gentle, TypeInv, WalType
<1>2. /\ me \in [Instances -> Local] /\ chunks \in [Chunks -> RowType]
      /\ delivered \in [Chunks -> SUBSET SUBSET (1..setting.writes)]
      /\ \A i \in Instances : me[i].chunk \in Ids
      /\ \A e \in exports : e.id # 0 /\ e.owner \in Instances
      /\ lock \in Instances \cup {Nobody}
  BY <1>1 DEF TypeInv, MeType, DbType, ServerType, Local
<1>3. \A i \in Instances, e \in exports :
        (e.id = job.export /\ e.owner = i) =>
          /\ me[i].pc \in AfterSave /\ me[i].own = e.id /\ lock = i
          /\ me[i].pc \in KnowsJob => me[i].known = e.id
  BY <1>1 DEF CoordInv, Coordinates
<1>4. ASSUME NEW i \in Instances, ShouldTakeSnapshot(i) PROVE CoordInv'
  <2>1. \E p \in {"opening", "done", "slot", "prepare"} : Moves(i, p)
    BY <1>4, <1>1, <1>2, GotoMoves DEF ShouldTakeSnapshot, Executed, Taking
  <2>2. QED
    BY <1>4, <1>1, <1>2, <1>3, <2>1, MoveCoord
    DEF ShouldTakeSnapshot, At, db, AfterSave, KnowsJob, Moves
<1>5. ASSUME NEW i \in Instances, SlotInfo(i) PROVE CoordInv'
  <2>1. \E p \in {"create", "prepare"} : Moves(i, p)
    BY <1>5, <1>1, <1>2, GotoMoves DEF SlotInfo
  <2>2. QED
    BY <1>5, <1>1, <1>2, <1>3, <2>1, MoveCoord
    DEF SlotInfo, At, db, AfterSave, KnowsJob, Moves
<1>6. ASSUME NEW i \in Instances, CreateSlot(i) PROVE CoordInv'
  <2>1. \E p \in {"prepare", "slot", "failed"} : Moves(i, p)
    BY <1>6, <1>1, <1>2, GotoMoves, FailMoves DEF CreateSlot
  <2>2. QED
    BY <1>6, <1>1, <1>2, <1>3, <2>1, MoveCoord
    DEF CreateSlot, At, db, AfterSave, KnowsJob, Moves
<1>7. ASSUME NEW i \in Instances, SetupJob(i) PROVE CoordInv'
  <2>1. CASE lock \in {Nobody, i}
    <3>1. Moves(i, "lsn") /\ lock' = i /\ UNCHANGED <<exports, job, chunks>>
      BY <1>7, <1>2, <2>1, GotoMoves DEF SetupJob, db
    <3>2. \A e \in exports : e.id # job.export
      BY <1>7, <1>1, <1>2, <1>3, <2>1, SnapshotAssumption
      DEF SetupJob, At, AfterSave, CoordInv, Coordinates
    <3>3. QED
      BY <1>1, <3>1, <3>2 DEF CoordInv, Inserted, Moves, OthersKept
  <2>2. CASE lock \notin {Nobody, i}
    <3>1. Moves(i, "wait") /\ UNCHANGED <<lock, exports, job, chunks>>
      BY <1>7, <1>2, <2>2, GotoMoves DEF SetupJob, db
    <3>2. QED
      BY <1>7, <1>1, <1>2, <1>3, <3>1, MoveCoord DEF SetupJob, At, AfterSave, Moves
  <2>3. QED
    BY <2>1, <2>2
<1>8. ASSUME NEW i \in Instances, GetCurrentLSN(i) PROVE CoordInv'
  <2>1. Moves(i, "init")
    <3>1. me' = [me EXCEPT ![i] = [me[i] EXCEPT !.lsn = written, !.pc = "init"]]
      BY <1>8 DEF GetCurrentLSN
    <3>2. QED
      BY <1>2, <3>1 DEF Moves, OthersKept, Local
  <2>2. QED
    BY <1>8, <1>1, <1>2, <1>3, <2>1, MoveCoord DEF GetCurrentLSN, At, db, AfterSave, Moves
<1>9. ASSUME NEW i \in Instances, InitializeCoordinator(i) PROVE CoordInv'
  <2>1. \E p \in {"cleanup", "export"} : Moves(i, p)
    BY <1>9, <1>1, <1>2, GotoMoves DEF InitializeCoordinator
  <2>2. QED
    BY <1>9, <1>1, <1>2, <1>3, <2>1, MoveCoord
    DEF InitializeCoordinator, At, db, AfterSave, KnowsJob, Moves
<1>10. ASSUME NEW i \in Instances, CleanupChunks(i) PROVE CoordInv'
  <2>1. lock = i /\ me[i].pc = "cleanup" /\ Goto(i, "delete")
    BY <1>10, <1>1 DEF CleanupChunks, At, OwnerInv, LockPhases, CoordInv
  <2>2. Moves(i, "delete") /\ UNCHANGED <<exports, job>>
    BY <1>10, <1>2, <2>1, GotoMoves DEF CleanupChunks
  <2>3. \A e \in exports : e.id # job.export
    BY <1>1, <2>1, LockedOut DEF AfterSave
  <2>4. \A k \in Instances : k # i => me[k].pc \notin {"chunks", "save"}
    BY <1>1, <2>1 DEF OwnerInv, LockPhases
  <2>5. QED
    BY <1>1, <2>2, <2>3, <2>4 DEF CoordInv, Moves, OthersKept
<1>11. ASSUME NEW i \in Instances, CleanupJob(i) PROVE CoordInv'
  <2>1. lock = i /\ me[i].pc = "delete" /\ Goto(i, "export")
    BY <1>11, <1>1 DEF CleanupJob, At, OwnerInv, LockPhases, CoordInv
  <2>2. Moves(i, "export") /\ UNCHANGED <<exports, chunks>> /\ job'.export = 0
    BY <1>11, <1>2, <2>1, GotoMoves DEF CleanupJob, NoJob
  <2>3. \A e \in exports, k \in Instances : me[k].known # e.id
    BY <1>1, <2>1, LockedOut DEF AfterSave
  <2>4. QED
    BY <1>1, <1>2, <2>2, <2>3 DEF CoordInv, Inserted, Moves, OthersKept
<1>12. ASSUME NEW i \in Instances, ExportSnapshotTransaction(i) PROVE CoordInv'
  <2> DEFINE n == NewId
             x == [id |-> n, owner |-> i, view |-> visible]
  <2>1. /\ exports' = exports \cup {x} /\ UNCHANGED <<lock, job, chunks>>
        /\ me' = [me EXCEPT ![i] = [me[i] EXCEPT !.own = n, !.saved = 0,
                                                 !.pc = "chunks"]]
    BY <1>12 DEF ExportSnapshotTransaction, db
  <2>2. n \notin UsedIds
    BY <1>1, NewIdIsNew DEF TypeInv, ServerType
  <2> HIDE DEF n
  <2>3. n # job.export /\ \A k \in Instances : me[k].known # n
    BY <2>2 DEF UsedIds
  <2>4. /\ OthersKept(i) /\ me'[i].pc = "chunks" /\ me'[i].known = me[i].known
        /\ me'[i].saved = 0
    BY <1>2, <2>1 DEF OthersKept, Local
  <2>5. \A e \in exports : e.id # job.export
    BY <1>12, <1>1, LockedOut
    DEF ExportSnapshotTransaction, At, OwnerInv, LockPhases, AfterSave
  <2>6. x.id = n
    OBVIOUS
  <2> HIDE DEF x
  <2>7. Inserted(i)'
    BY <2>4, SnapshotAssumption DEF Inserted
  <2>8. QED
    BY <1>1, <2>1, <2>3, <2>4, <2>5, <2>6, <2>7 DEF CoordInv, Inserted, OthersKept
<1>13. ASSUME NEW i \in Instances, SaveChunks(i) PROVE CoordInv'
  <2>1. /\ lock = i /\ me[i].pc = "chunks" /\ UNCHANGED <<lock, exports, job>>
        /\ Inserted(i)
    BY <1>13, <1>1 DEF SaveChunks, At, OwnerInv, LockPhases, CoordInv
  <2>2. CASE UNCHANGED chunks /\ \E p \in {"slot", "failed"} : Moves(i, p)
    BY <1>1, <1>2, <1>3, <2>1, <2>2, MoveCoord DEF AfterSave, Moves
  <2>3. ASSUME NEW p \in {"chunks", "save"}, Inserts(i, p) PROVE CoordInv'
    <3>1. Moves(i, p) /\ me'[i].own = me[i].own
      BY <2>3 DEF Inserts, Moves
    <3>2. /\ \A c \in Chunks : c <= me'[i].saved => chunks'[c].gen = me[i].own
          /\ p = "save" => \A c \in Chunks : c <= me'[i].saved
      <4>1. me[i].saved \in Nat /\ Chunks \subseteq Nat
        BY <1>2, SavedType, SnapshotAssumption
      <4>2. me'[i].saved \in Nat /\ (p = "save" => \A c \in Chunks : c <= me'[i].saved)
        BY <2>3, <4>1 DEF Inserts
      <4>3. ASSUME NEW c \in Chunks, c <= me'[i].saved PROVE chunks'[c].gen = me[i].own
        <5>1. CASE c <= me[i].saved
          <6>1. chunks[c].gen = me[i].own /\ ~(c > me[i].saved)
            BY <2>1, <4>1, <5>1 DEF Inserted
          <6>2. chunks'[c] = chunks[c]
            BY <2>3, <6>1 DEF Inserts
          <6>3. QED
            BY <6>1, <6>2
        <5>2. CASE c > me[i].saved
          BY <2>3, <4>3, <5>2 DEF Inserts, Row
        <5>3. QED
          BY <4>1, <5>1, <5>2
      <4>4. QED
        BY <4>2, <4>3
    <3>3. \A e \in exports : e.id # job.export
      BY <1>1, <2>1, LockedOut DEF AfterSave
    <3>4. \A k \in Instances : k # i => me[k].pc \notin {"chunks", "save"}
      BY <1>1, <2>1 DEF OwnerInv, LockPhases
    <3>5. QED
      BY <1>1, <2>1, <3>1, <3>2, <3>3, <3>4 DEF CoordInv, Inserted, Moves, OthersKept
  <2>4. QED
    BY <1>13, <1>2, <2>2, <2>3, SaveMoves
<1>14. ASSUME NEW i \in Instances, SaveJob(i) PROVE CoordInv'
  <2>1. lock = i /\ me[i].pc = "save"
    BY <1>14, <1>1 DEF SaveJob, At, OwnerInv, LockPhases
  <2>2. CASE HasJob
    <3>1. \E p \in {"slot", "failed"} : Moves(i, p)
      BY <1>14, <1>2, <2>2, FailMoves DEF SaveJob
    <3>2. QED
      BY <1>14, <1>1, <1>2, <1>3, <2>1, <2>2, <3>1, MoveCoord
      DEF SaveJob, AfterSave, Moves
  <2>3. CASE ~HasJob
    <3>1. /\ Moves(i, "execute") /\ UNCHANGED <<lock, chunks, exports>>
          /\ job'.export = me[i].own
      BY <1>14, <1>2, <2>3, ExecuteMoves DEF SaveJob, NoJob
    <3>2. \A e \in exports, k \in Instances : me[k].known # e.id
      BY <1>1, <2>1, LockedOut DEF AfterSave
    <3>3. ASSUME NEW e \in exports', e.id = job'.export PROVE Coordinates(e)'
      <4>1. e.owner = i /\ \A c \in Chunks : chunks[c].gen = e.id
        BY <1>1, <2>1, <3>1, <3>3 DEF OwnerInv, ExportsOwned, CoordInv
      <4>2. QED
        BY <2>1, <3>1, <3>3, <4>1 DEF Coordinates, Moves, AfterSave, KnowsJob
    <3>4. QED
      BY <1>1, <3>1, <3>2, <3>3 DEF CoordInv, Inserted, Moves, OthersKept
  <2>4. QED
    BY <2>2, <2>3
<1>15. ASSUME NEW i \in Instances, WaitForCoordinator(i) PROVE CoordInv'
  <2>1. \E p \in {"execute"} : Moves(i, p)
    BY <1>15, <1>1, <1>2, ExecuteMoves DEF WaitForCoordinator
  <2>2. QED
    BY <1>15, <1>1, <1>2, <1>3, <2>1, MoveCoord
    DEF WaitForCoordinator, At, db, AfterSave, KnowsJob, Moves
<1>16. ASSUME NEW i \in Instances, LoadJob(i) PROVE CoordInv'
  <2>1. CASE ~HasJob
    <3>1. \E p \in {"slot", "failed"} : Moves(i, p)
      BY <1>16, <1>2, <2>1, FailMoves DEF LoadJob
    <3>2. \A e \in exports : e.id # job.export
      BY <1>2, <2>1 DEF HasJob
    <3>3. QED
      BY <1>16, <1>1, <1>2, <3>1, <3>2, MoveCoord DEF LoadJob, db, Moves
  <2>2. CASE HasJob
    <3>1. /\ OthersKept(i) /\ me'[i].pc = "claim" /\ me'[i].own = me[i].own
          /\ me'[i].known = job.export
          /\ UNCHANGED <<lock, exports, job, chunks>>
      BY <1>16, <1>2, <2>2 DEF LoadJob, OthersKept, Local, db
    <3>2. ASSUME NEW e \in exports', e.id = job'.export PROVE Coordinates(e)'
      <4>1. Coordinates(e) /\ e.owner \in Instances /\ e.id = job.export
        BY <1>1, <1>2, <3>1, <3>2 DEF CoordInv
      <4>2. CASE e.owner = i
        BY <3>1, <4>1, <4>2 DEF Coordinates, AfterSave
      <4>3. CASE e.owner # i
        BY <3>1, <4>1, <4>3 DEF Coordinates, OthersKept
      <4>4. QED
        BY <4>2, <4>3
    <3>3. QED
      BY <1>1, <3>1, <3>2 DEF CoordInv, Inserted, OthersKept
  <2>3. QED
    BY <2>1, <2>2
<1>17. ASSUME NEW i \in Instances, ClaimNextChunk(i) PROVE CoordInv'
  <2>1. /\ OthersKept(i) /\ me'[i].own = me[i].own /\ me'[i].known = me[i].known
        /\ UNCHANGED <<lock, exports, job>> /\ me[i].pc = "claim"
    BY <1>17, <1>2, ClaimMoves DEF ClaimNextChunk, At
  <2>2. CASE ClaimsNothing(i)
    <3>1. me'[i].pc = "finalize" /\ UNCHANGED chunks
      BY <2>2 DEF ClaimsNothing
    <3>2. QED
      BY <1>1, <1>2, <2>1, <3>1, MoveCoord DEF AfterSave, KnowsJob
  <2>3. ASSUME NEW c \in Chunks, Claims(i, c) PROVE CoordInv'
    <3>1. me'[i].pc = "process" /\ \A d \in Chunks : chunks'[d].gen = chunks[d].gen
      BY <1>2, <2>3 DEF Claims, RowType
    <3>2. QED
      BY <1>1, <1>2, <2>1, <3>1, MoveCoord DEF AfterSave, KnowsJob
  <2>4. QED
    BY <1>17, <1>2, <2>2, <2>3, ClaimMoves
<1>18. ASSUME NEW i \in Instances, ProcessChunk(i) PROVE CoordInv'
  <2>1. UNCHANGED <<lock, exports, job, chunks>> /\ me[i].pc = "process"
    BY <1>18 DEF ProcessChunk, At, db
  <2>2. CASE (\A e \in exports : e.id # me[i].known) /\ Goto(i, "release")
    <3>1. Moves(i, "release")
      BY <1>2, <2>2, GotoMoves
    <3>2. \A e \in exports : ~(e.id = job.export /\ e.owner = i)
      BY <1>3, <2>1, <2>2 DEF KnowsJob
    <3>3. QED
      BY <1>1, <1>2, <2>1, <3>1, <3>2, MoveCoord DEF Moves
  <2>3. CASE Goto(i, "mark")
    <3>1. Moves(i, "mark")
      BY <1>2, <2>3, GotoMoves
    <3>2. QED
      BY <1>1, <1>2, <2>1, <3>1, MoveCoord DEF Moves, AfterSave, KnowsJob
  <2>4. QED
    BY <1>18, <2>2, <2>3 DEF ProcessChunk
<1>19. ASSUME NEW i \in Instances, MarkChunkCompleted(i) PROVE CoordInv'
  <2>1. Moves(i, "claim") /\ me[i].pc = "mark" /\ UNCHANGED <<lock, exports>>
    BY <1>19, <1>2, GotoMoves DEF MarkChunkCompleted, At
  <2>2. \A c \in Chunks : chunks'[c].gen = chunks[c].gen
    BY <1>19, <1>2, SetStatusKeeps DEF MarkChunkCompleted
  <2>3. job'.export = job.export
    BY <1>19, <1>1 DEF MarkChunkCompleted, TypeInv, DbType
  <2>4. QED
    BY <1>1, <1>2, <2>1, <2>2, <2>3, MoveCoord DEF AfterSave, KnowsJob, Moves
<1>20. ASSUME NEW i \in Instances, ReleaseChunk(i) PROVE CoordInv'
  <2>1. \E p \in {"execute", "slot", "failed"} : Moves(i, p)
    BY <1>20, <1>2, AgainMoves DEF ReleaseChunk
  <2>2. \A c \in Chunks : chunks'[c].gen = chunks[c].gen
    BY <1>20, <1>2, SetStatusKeeps DEF ReleaseChunk
  <2>3. \A e \in exports : ~(e.id = job.export /\ e.owner = i)
    BY <1>20, <1>3 DEF ReleaseChunk, At, AfterSave
  <2>4. QED
    BY <1>20, <1>1, <1>2, <2>1, <2>2, <2>3, MoveCoord DEF ReleaseChunk, Moves
<1>21. ASSUME NEW i \in Instances, CheckJobCompleted(i) PROVE CoordInv'
  <2>1. \E p \in {"complete", "opening", "done"} : Moves(i, p)
    BY <1>21, <1>1, <1>2, GotoMoves DEF CheckJobCompleted, Executed
  <2>2. QED
    BY <1>21, <1>1, <1>2, <1>3, <2>1, MoveCoord
    DEF CheckJobCompleted, At, db, AfterSave, KnowsJob, Moves
<1>22. ASSUME NEW i \in Instances, MarkJobAsCompleted(i) PROVE CoordInv'
  <2>1. me' = [me EXCEPT ![i] = [me[i] EXCEPT !.own = 0, !.pc = Executed]]
    BY <1>22 DEF MarkJobAsCompleted
  <2>2. /\ OthersKept(i) /\ me'[i].pc \notin {"chunks", "save", "reset", "resetJob"}
        /\ me'[i].known = me[i].known
    BY <1>2, <2>1 DEF OthersKept, Local, Executed
  <2>3. /\ exports' \in SUBSET exports /\ UNCHANGED chunks
        /\ job'.export = job.export
        /\ \A k \in Instances : (k # i /\ lock = k) => lock' = k
    BY <1>22, <1>1 DEF MarkJobAsCompleted, TypeInv, DbType
  <2>4. \A e \in exports' : e.id = job.export => e.owner # i
    BY <1>22, <1>3, <2>3 DEF MarkJobAsCompleted
  <2>5. QED
    BY <1>1, <1>2, <2>2, <2>3, <2>4, DisownCoord
<1>23. ASSUME NEW i \in Instances, OpenStream(i) PROVE CoordInv'
  <2>1. UNCHANGED <<lock, exports, job, chunks>> /\ me[i].pc = "opening"
    BY <1>23 DEF OpenStream, At, db
  <2>2. CASE Moves(i, "streaming")
    BY <1>1, <1>2, <2>1, <2>2, MoveCoord DEF Moves, AfterSave, KnowsJob
  <2>3. CASE ~Moves(i, "streaming")
    <3>1. Moves(i, "failed") /\ ~HasJob
      BY <1>23, <1>2, <2>3, OpenMoves
    <3>2. \A e \in exports : e.id # job.export
      BY <1>2, <3>1 DEF HasJob
    <3>3. QED
      BY <1>1, <1>2, <2>1, <3>1, <3>2, MoveCoord DEF Moves
  <2>4. QED
    BY <2>2, <2>3
<1>24. ASSUME NEW i \in Instances, Restart(i) PROVE CoordInv'
  <2>1. OthersKept(i) /\ me'[i].pc = "start" /\ me'[i].known = 0
    BY <1>24, <1>2, ProcessMovesOn DEF Restart
  <2>2. /\ exports' \in SUBSET exports /\ UNCHANGED <<chunks, job>>
        /\ \A k \in Instances : (k # i /\ lock = k) => lock' = k
    BY <1>24 DEF Restart, db
  <2>3. \A e \in exports' : e.id = job.export => e.owner # i
    BY <1>24, <1>3, <2>2 DEF Restart, At, AfterSave
  <2>4. QED
    BY <1>1, <1>2, <2>1, <2>2, <2>3, DisownCoord
<1>25. ASSUME NEW i \in Instances, Exit(i) PROVE CoordInv'
  <2>1. OthersKept(i) /\ me'[i].pc = "exited" /\ me'[i].known = 0
    BY <1>25, <1>2, ProcessMovesOn DEF Exit
  <2>2. /\ exports' \in SUBSET exports /\ UNCHANGED <<chunks, job>>
        /\ \A k \in Instances : (k # i /\ lock = k) => lock' = k
    BY <1>25 DEF Exit, db
  <2>3. \A e \in exports' : e.id = job.export => e.owner # i
    BY <1>25, <1>3, <2>2 DEF Exit, At, AfterSave
  <2>4. QED
    BY <1>1, <1>2, <2>1, <2>2, <2>3, DisownCoord
<1>26. ASSUME NEW i \in Instances, WaitTimeout(i) PROVE CoordInv'
  <2>1. \E p \in {"slot", "failed"} : Moves(i, p)
    BY <1>26, <1>1, <1>2, FailMoves DEF WaitTimeout
  <2>2. QED
    BY <1>26, <1>1, <1>2, <1>3, <2>1, MoveCoord
    DEF WaitTimeout, At, db, AfterSave, KnowsJob, Moves
<1>27. ASSUME NEW i \in Instances, HeartbeatReceive(i) PROVE CoordInv'
  <2>1. \E p \in {"claim", "process", "mark", "release"} : p = me[i].pc /\ Moves(i, p)
    BY <1>27, <1>2, HeartbeatMoves
  <2>2. QED
    BY <1>27, <1>1, <1>2, <1>3, <2>1, MoveCoord DEF HeartbeatReceive, db, Moves
<1>28. ASSUME NEW i \in Instances, HeartbeatTick(i) PROVE CoordInv'
  BY <1>28, <1>1, <1>2
  DEF HeartbeatTick, At, Goto, IsRow, wal, db, faults, CoordInv,
      Inserted, Coordinates, RowType
<1>29. ASSUME NEW i \in Instances, StatementFails(i) PROVE CoordInv'
  BY <1>29, <1>1 DEF StatementFails
<1>30. ASSUME NEW i \in Instances, Crash(i) PROVE CoordInv'
  <2>1. OthersKept(i) /\ me'[i].pc = "down" /\ me'[i].known = 0
    BY <1>30, <1>2, ProcessMovesOn DEF Crash
  <2>2. /\ exports' \in SUBSET exports /\ UNCHANGED <<chunks, job>>
        /\ \A k \in Instances : (k # i /\ lock = k) => lock' = k
    BY <1>30 DEF Crash, db
  <2>3. \A e \in exports' : e.id = job.export => e.owner # i
    BY <1>30, <1>3, <2>2 DEF Crash, At, AfterSave
  <2>4. QED
    BY <1>1, <1>2, <2>1, <2>2, <2>3, DisownCoord
<1>31. ASSUME NEW i \in Instances, Start(i) PROVE CoordInv'
  <2>1. OthersKept(i) /\ me'[i].pc = "start" /\ me'[i].known = 0
    BY <1>31, <1>2, ProcessMovesOn DEF Start
  <2>2. /\ exports' \in SUBSET exports /\ UNCHANGED <<chunks, job>>
        /\ \A k \in Instances : (k # i /\ lock = k) => lock' = k
    BY <1>31 DEF Start, db
  <2>3. \A e \in exports' : e.id = job.export => e.owner # i
    BY <1>31, <1>3, <2>2 DEF Start, At, AfterSave
  <2>4. QED
    BY <1>1, <1>2, <2>1, <2>2, <2>3, DisownCoord
<1>32. ASSUME NEW c \in Chunks, Expire(c) PROVE CoordInv'
  BY <1>32, <1>1, <1>2
  DEF Expire, wal, db, faults, CoordInv, Inserted, Coordinates, RowType
<1>33. CASE Write
  BY <1>33, <1>1, <1>2
  DEF Write, wal, db, faults, CoordInv, Inserted, Coordinates, RowType
<1>34. CASE BecomeVisible
  BY <1>34, <1>1, <1>2
  DEF BecomeVisible, wal, db, faults, CoordInv, Inserted, Coordinates, RowType
<1>35. CASE CollectLeaked
  BY <1>35, <1>1, <1>2
  DEF CollectLeaked, wal, db, faults, CoordInv, Inserted, Coordinates, RowType
<1>36. CASE UNCHANGED vars
  BY <1>36, <1>1, <1>2
  DEF vars, wal, db, faults, CoordInv, Inserted, Coordinates, RowType
<1>37. QED
  BY <1>1, <1>4, <1>5, <1>6, <1>7, <1>8, <1>9, <1>10, <1>11, <1>12, <1>13,
     <1>14, <1>15, <1>16, <1>17, <1>18, <1>19, <1>20, <1>21, <1>22, <1>23,
     <1>24, <1>25, <1>26, <1>27, <1>28, <1>29, <1>30, <1>31, <1>32, <1>33,
     <1>34, <1>35, <1>36
  DEF Next, Step

(***************************************************************************)
(* Positions.  In a database where a transaction is visible as soon as its *)
(* commit is in the WAL, an export sees whatever was committed before it   *)
(* was made: before the LSN of its job and before the slot.                *)
(***************************************************************************)
Plain == ~setting.hidden

LsnInv ==
  /\ visible = 1..written /\ slot <= written
  /\ \A i \in Instances : me[i].lsn <= written
  /\ \A e \in exports, i \in Instances :
       (me[i].own = e.id /\ me[i].pc \in {"chunks", "save"}) =>
         1..me[i].lsn \subseteq e.view

\* Initially there is no position to compare.
LEMMA InitLsn == Init => LsnInv
BY SnapshotAssumption DEF Init, LsnInv, Process, NoSlot

\* A step that takes no new position and opens no export keeps LsnInv.
LEMMA MoveLsn ==
  ASSUME LsnInv, NEW i \in Instances, OthersKept(i),
         me'[i].lsn = me[i].lsn \/ me'[i].lsn = 0,
         me'[i].pc \in {"chunks", "save"} =>
           /\ me[i].pc \in {"chunks", "save"}
           /\ me'[i].own = me[i].own /\ me'[i].lsn = me[i].lsn,
         exports' \in SUBSET exports, UNCHANGED <<written, visible, slot>>,
         written \in Nat
  PROVE  LsnInv'
<1>1. \A k \in Instances : me'[k].lsn <= written'
  BY DEF LsnInv, OthersKept
<1>2. ASSUME NEW e \in exports', NEW k \in Instances,
             me'[k].own = e.id, me'[k].pc \in {"chunks", "save"}
      PROVE  1..me'[k].lsn \subseteq e.view
  BY <1>2 DEF LsnInv, OthersKept
<1>3. QED
  BY <1>1, <1>2 DEF LsnInv

\* Every step keeps LsnInv.
LEMMA NextLsn ==
  ASSUME TypeInv, OwnerInv, Plain, LsnInv, [Next]_vars
  PROVE  LsnInv'
<1>1. /\ TypeInv /\ OwnerInv /\ LsnInv /\ [Next]_vars /\ ~setting.hidden
  BY DEF Plain
<1>2. /\ me \in [Instances -> Local] /\ written \in Nat
      /\ slot \in {-1} \cup Nat
      /\ \A i \in Instances : me[i].lsn \in Nat
  BY <1>1, SettingType DEF TypeInv, MeType, DbType, WalType, Local, NoSlot
<1>3. ASSUME NEW i \in Instances, ShouldTakeSnapshot(i) PROVE LsnInv'
  <2>1. /\ \E p \in {"reset", "opening", "done", "slot", "prepare"} : Moves(i, p)
        /\ me'[i].lsn = me[i].lsn
    BY <1>3, <1>2, GotoMoves DEF ShouldTakeSnapshot, Executed, Taking
  <2>2. QED
    BY <1>3, <1>1, <1>2, <2>1, MoveLsn DEF ShouldTakeSnapshot, db, wal, Moves
<1>4. ASSUME NEW i \in Instances, SlotInfo(i) PROVE LsnInv'
  <2>1. /\ \E p \in {"create", "prepare"} : Moves(i, p)
        /\ me'[i].lsn = me[i].lsn
    BY <1>4, <1>2, GotoMoves DEF SlotInfo
  <2>2. QED
    BY <1>4, <1>1, <1>2, <2>1, MoveLsn DEF SlotInfo, db, wal, Moves
<1>5. ASSUME NEW i \in Instances, CreateSlot(i) PROVE LsnInv'
  <2>1. /\ \E p \in {"prepare", "slot", "failed"} : Moves(i, p)
        /\ me'[i].lsn = me[i].lsn
    BY <1>5, <1>2, GotoMoves, FailMoves DEF CreateSlot
  <2>2. UNCHANGED <<written, visible, exports>> /\ slot' \in {slot, written}
    BY <1>5 DEF CreateSlot, wal
  <2>3. QED
    BY <1>1, <1>2, <2>1, <2>2 DEF LsnInv, Moves, OthersKept
<1>6. ASSUME NEW i \in Instances, SetupJob(i) PROVE LsnInv'
  <2>1. /\ \E p \in {"lsn", "wait"} : Moves(i, p)
        /\ me'[i].lsn = me[i].lsn
    BY <1>6, <1>2, GotoMoves DEF SetupJob
  <2>2. QED
    BY <1>6, <1>1, <1>2, <2>1, MoveLsn DEF SetupJob, db, wal, Moves
<1>7. ASSUME NEW i \in Instances, GetCurrentLSN(i) PROVE LsnInv'
  <2>1. OthersKept(i) /\ me'[i].pc = "init" /\ me'[i].lsn = written
    <3>1. me' = [me EXCEPT ![i] = [me[i] EXCEPT !.lsn = written, !.pc = "init"]]
      BY <1>7 DEF GetCurrentLSN
    <3>2. QED
      BY <1>2, <3>1 DEF OthersKept, Local
  <2>2. QED
    BY <1>7, <1>1, <1>2, <2>1 DEF GetCurrentLSN, LsnInv, OthersKept, wal, db
<1>8. ASSUME NEW i \in Instances, InitializeCoordinator(i) PROVE LsnInv'
  <2>1. /\ \E p \in {"cleanup", "export"} : Moves(i, p)
        /\ me'[i].lsn = me[i].lsn
    BY <1>8, <1>2, GotoMoves DEF InitializeCoordinator
  <2>2. QED
    BY <1>8, <1>1, <1>2, <2>1, MoveLsn DEF InitializeCoordinator, db, wal, Moves
<1>9. ASSUME NEW i \in Instances, CleanupChunks(i) PROVE LsnInv'
  <2>1. /\ \E p \in {"delete", "resetJob"} : Moves(i, p)
        /\ me'[i].lsn = me[i].lsn
    BY <1>9, <1>2, GotoMoves DEF CleanupChunks
  <2>2. QED
    BY <1>9, <1>1, <1>2, <2>1, MoveLsn DEF CleanupChunks, wal, Moves
<1>10. ASSUME NEW i \in Instances, CleanupJob(i) PROVE LsnInv'
  <2>1. /\ \E p \in {"export", "slot", "prepare"} : Moves(i, p)
        /\ me'[i].lsn = me[i].lsn
    BY <1>10, <1>2, GotoMoves DEF CleanupJob, Taking
  <2>2. QED
    BY <1>10, <1>1, <1>2, <2>1, MoveLsn DEF CleanupJob, wal, Moves
<1>11. ASSUME NEW i \in Instances, ExportSnapshotTransaction(i) PROVE LsnInv'
  <2> DEFINE n == NewId
             x == [id |-> n, owner |-> i, view |-> visible]
  <2>1. /\ exports' = exports \cup {x} /\ UNCHANGED <<written, visible, slot>>
        /\ me' = [me EXCEPT ![i] = [me[i] EXCEPT !.own = n, !.saved = 0,
                                                 !.pc = "chunks"]]
    BY <1>11 DEF ExportSnapshotTransaction, db, wal
  <2>2. n \notin UsedIds
    BY <1>1, NewIdIsNew DEF TypeInv, ServerType
  <2> HIDE DEF n
  <2>3. \A k \in Instances : me[k].own # n
    BY <2>2 DEF UsedIds
  <2>4. /\ OthersKept(i) /\ me'[i].own = n /\ me'[i].lsn = me[i].lsn
        /\ x.id = n /\ x.view = visible /\ \A e \in exports : e.id # n
    BY <1>2, <2>1, <2>2 DEF OthersKept, Local, UsedIds
  <2> HIDE DEF x
  <2>5. ASSUME NEW e \in exports', NEW k \in Instances,
               me'[k].own = e.id, me'[k].pc \in {"chunks", "save"}
        PROVE  1..me'[k].lsn \subseteq e.view
    <3>1. CASE k = i
      <4>1. e = x
        BY <2>1, <2>4, <2>5, <3>1
      <4>2. me'[k].lsn \in Nat /\ me'[k].lsn <= written
        BY <1>1, <1>2, <2>4, <3>1 DEF LsnInv
      <4>3. 1..me'[k].lsn \subseteq 1..written
        BY <1>2, <4>2
      <4>4. QED
        BY <1>1, <2>4, <4>1, <4>3 DEF LsnInv
    <3>2. CASE k # i
      <4>1. me'[k] = me[k] /\ e \in exports
        BY <2>1, <2>3, <2>4, <2>5, <3>2 DEF OthersKept
      <4>2. QED
        BY <1>1, <2>5, <4>1 DEF LsnInv
    <3>3. QED
      BY <3>1, <3>2
  <2>6. QED
    BY <1>1, <2>1, <2>4, <2>5 DEF LsnInv, OthersKept
<1>12. ASSUME NEW i \in Instances, SaveChunks(i) PROVE LsnInv'
  <2>1. /\ \E p \in {"chunks", "save", "slot", "failed"} : Moves(i, p)
        /\ me'[i].lsn = me[i].lsn
    BY <1>12, <1>2, SaveMoves DEF Inserts
  <2>2. me[i].pc = "chunks" /\ UNCHANGED <<written, visible, slot, exports>>
    BY <1>12 DEF SaveChunks, At, wal
  <2>3. QED
    BY <1>1, <1>2, <2>1, <2>2, MoveLsn DEF Moves
<1>13. ASSUME NEW i \in Instances, SaveJob(i) PROVE LsnInv'
  <2>1. /\ \E p \in {"execute", "slot", "failed"} : Moves(i, p)
        /\ me'[i].lsn = me[i].lsn
    BY <1>13, <1>2, ExecuteMoves, FailMoves DEF SaveJob
  <2>2. QED
    BY <1>13, <1>1, <1>2, <2>1, MoveLsn DEF SaveJob, wal, Moves
<1>14. ASSUME NEW i \in Instances, WaitForCoordinator(i) PROVE LsnInv'
  <2>1. /\ \E p \in {"execute"} : Moves(i, p)
        /\ me'[i].lsn = me[i].lsn
    BY <1>14, <1>2, ExecuteMoves DEF WaitForCoordinator
  <2>2. QED
    BY <1>14, <1>1, <1>2, <2>1, MoveLsn DEF WaitForCoordinator, db, wal, Moves
<1>15. ASSUME NEW i \in Instances, LoadJob(i) PROVE LsnInv'
  <2>1. /\ OthersKept(i) /\ me'[i].lsn = me[i].lsn
        /\ me'[i].pc \in {"claim", "slot", "failed"}
    <3>1. CASE HasJob
      BY <1>15, <1>2, <3>1 DEF LoadJob, OthersKept, Local
    <3>2. CASE ~HasJob
      BY <1>15, <1>2, <3>2, FailMoves DEF LoadJob, Moves
    <3>3. QED
      BY <3>1, <3>2
  <2>2. QED
    BY <1>15, <1>1, <1>2, <2>1, MoveLsn DEF LoadJob, wal, db
<1>16. ASSUME NEW i \in Instances, ClaimNextChunk(i) PROVE LsnInv'
  <2>1. /\ OthersKept(i) /\ me'[i].lsn = me[i].lsn
        /\ me'[i].pc \in {"process", "finalize"}
    BY <1>16, <1>2, ClaimMoves DEF Claims, ClaimsNothing
  <2>2. QED
    BY <1>16, <1>1, <1>2, <2>1, MoveLsn DEF ClaimNextChunk, wal
<1>17. ASSUME NEW i \in Instances, ProcessChunk(i) PROVE LsnInv'
  <2>1. /\ \E p \in {"release", "mark"} : Moves(i, p)
        /\ me'[i].lsn = me[i].lsn
    BY <1>17, <1>2, GotoMoves DEF ProcessChunk
  <2>2. QED
    BY <1>17, <1>1, <1>2, <2>1, MoveLsn DEF ProcessChunk, db, wal, Moves
<1>18. ASSUME NEW i \in Instances, MarkChunkCompleted(i) PROVE LsnInv'
  <2>1. /\ \E p \in {"claim"} : Moves(i, p)
        /\ me'[i].lsn = me[i].lsn
    BY <1>18, <1>2, GotoMoves DEF MarkChunkCompleted
  <2>2. QED
    BY <1>18, <1>1, <1>2, <2>1, MoveLsn DEF MarkChunkCompleted, wal, Moves
<1>19. ASSUME NEW i \in Instances, ReleaseChunk(i) PROVE LsnInv'
  <2>1. /\ \E p \in {"execute", "slot", "failed"} : Moves(i, p)
        /\ me'[i].lsn = me[i].lsn
    BY <1>19, <1>2, AgainMoves DEF ReleaseChunk
  <2>2. QED
    BY <1>19, <1>1, <1>2, <2>1, MoveLsn DEF ReleaseChunk, wal, Moves
<1>20. ASSUME NEW i \in Instances, CheckJobCompleted(i) PROVE LsnInv'
  <2>1. /\ \E p \in {"complete", "opening", "done"} : Moves(i, p)
        /\ me'[i].lsn = me[i].lsn
    BY <1>20, <1>2, GotoMoves DEF CheckJobCompleted, Executed
  <2>2. QED
    BY <1>20, <1>1, <1>2, <2>1, MoveLsn DEF CheckJobCompleted, db, wal, Moves
<1>21. ASSUME NEW i \in Instances, MarkJobAsCompleted(i) PROVE LsnInv'
  <2>1. me' = [me EXCEPT ![i] = [me[i] EXCEPT !.own = 0, !.pc = Executed]]
    BY <1>21 DEF MarkJobAsCompleted
  <2>2. /\ OthersKept(i) /\ me'[i].lsn = me[i].lsn
        /\ me'[i].pc \in {"opening", "done"}
    BY <1>2, <2>1 DEF OthersKept, Local, Executed
  <2>3. QED
    BY <1>21, <1>1, <1>2, <2>2, MoveLsn DEF MarkJobAsCompleted, wal
<1>22. ASSUME NEW i \in Instances, OpenStream(i) PROVE LsnInv'
  <2>1. /\ \E p \in {"streaming", "failed"} : Moves(i, p)
        /\ me'[i].lsn = me[i].lsn
    BY <1>22, <1>2, OpenMoves DEF OpenStream
  <2>2. QED
    BY <1>22, <1>1, <1>2, <2>1, MoveLsn DEF OpenStream, db, wal, Moves
<1>23. ASSUME NEW i \in Instances, Restart(i) PROVE LsnInv'
  <2>1. OthersKept(i) /\ me'[i].pc = "start" /\ me'[i].lsn = 0
    BY <1>23, <1>2, ProcessMovesOn DEF Restart
  <2>2. QED
    BY <1>23, <1>1, <1>2, <2>1, MoveLsn DEF Restart, wal, db
<1>24. ASSUME NEW i \in Instances, Exit(i) PROVE LsnInv'
  <2>1. OthersKept(i) /\ me'[i].pc = "exited" /\ me'[i].lsn = 0
    BY <1>24, <1>2, ProcessMovesOn DEF Exit
  <2>2. QED
    BY <1>24, <1>1, <1>2, <2>1, MoveLsn DEF Exit, wal, db
<1>25. ASSUME NEW i \in Instances, WaitTimeout(i) PROVE LsnInv'
  <2>1. /\ \E p \in {"slot", "failed"} : Moves(i, p)
        /\ me'[i].lsn = me[i].lsn
    BY <1>25, <1>2, FailMoves DEF WaitTimeout
  <2>2. QED
    BY <1>25, <1>1, <1>2, <2>1, MoveLsn DEF WaitTimeout, db, wal, Moves
<1>26. ASSUME NEW i \in Instances, HeartbeatReceive(i) PROVE LsnInv'
  <2>1. /\ \E p \in {"claim", "process", "mark", "release"} : Moves(i, p)
        /\ me'[i].lsn = me[i].lsn
    BY <1>26, <1>2, HeartbeatMoves DEF HeartbeatReceive
  <2>2. QED
    BY <1>26, <1>1, <1>2, <2>1, MoveLsn DEF HeartbeatReceive, db, wal, Moves
<1>27. ASSUME NEW i \in Instances, HeartbeatTick(i) PROVE LsnInv'
  BY <1>27, <1>1, <1>2
  DEF HeartbeatTick, At, Goto, IsRow, wal, db, faults, LsnInv
<1>28. ASSUME NEW i \in Instances, StatementFails(i) PROVE LsnInv'
  <2>1. /\ \E p \in {"reset", "prepare", "slot", "export", "claim", "execute",
                      "failed"} : Moves(i, p)
        /\ me'[i].lsn = me[i].lsn /\ UNCHANGED <<written, visible, slot, exports>>
    BY <1>28, <1>2, StatementMoves
  <2>2. QED
    BY <1>1, <1>2, <2>1, MoveLsn DEF Moves
<1>29. ASSUME NEW i \in Instances, Crash(i) PROVE LsnInv'
  <2>1. OthersKept(i) /\ me'[i].pc = "down" /\ me'[i].lsn = 0
    BY <1>29, <1>2, ProcessMovesOn DEF Crash
  <2>2. QED
    BY <1>29, <1>1, <1>2, <2>1, MoveLsn DEF Crash, wal, db
<1>30. ASSUME NEW i \in Instances, Start(i) PROVE LsnInv'
  <2>1. OthersKept(i) /\ me'[i].pc = "start" /\ me'[i].lsn = 0
    BY <1>30, <1>2, ProcessMovesOn DEF Start
  <2>2. QED
    BY <1>30, <1>1, <1>2, <2>1, MoveLsn DEF Start, wal, db
<1>31. ASSUME NEW c \in Chunks, Expire(c) PROVE LsnInv'
  BY <1>31, <1>1, <1>2
  DEF Expire, wal, db, faults, LsnInv
<1>32. CASE Write
  <2>1. /\ written' = written + 1 /\ visible' = visible \cup {written'}
        /\ UNCHANGED <<slot, me, exports>>
    BY <1>32, <1>1 DEF Write, db
  <2>2. visible' = 1..written'
    <3>1. visible = 1..written /\ 1..written' = (1..written) \cup {written'}
      BY <1>1, <1>2, <2>1 DEF LsnInv
    <3>2. QED
      BY <2>1, <3>1
  <2>3. QED
    BY <1>1, <1>2, <2>1, <2>2 DEF LsnInv
<1>33. CASE BecomeVisible
  BY <1>33, <1>1 DEF BecomeVisible, LsnInv
<1>34. CASE CollectLeaked
  BY <1>34, <1>1, <1>2
  DEF CollectLeaked, wal, db, faults, LsnInv
<1>35. CASE UNCHANGED vars
  BY <1>35, <1>1, <1>2
  DEF vars, wal, db, faults, LsnInv
<1>36. QED
  BY <1>1, <1>3, <1>4, <1>5, <1>6, <1>7, <1>8, <1>9, <1>10, <1>11, <1>12,
     <1>13, <1>14, <1>15, <1>16, <1>17, <1>18, <1>19, <1>20, <1>21, <1>22,
     <1>23, <1>24, <1>25, <1>26, <1>27, <1>28, <1>29, <1>30, <1>31, <1>32,
     <1>33, <1>34, <1>35
  DEF Next, Step

\* The slot is older than any export (mode initial).
SlotPhases == {"prepare"} \cup LockPhases

SlotInv ==
  /\ \A i \in Instances : me[i].pc \in SlotPhases => slot # NoSlot
  /\ exports # {} => slot # NoSlot
  /\ \A c \in Chunks : delivered[c] # {} => slot # NoSlot
  /\ \A e \in exports : 1..slot \subseteq e.view
  /\ \A c \in Chunks : \A v \in delivered[c] : 1..slot \subseteq v

\* Initially there is no slot.
LEMMA InitSlot == Init => SlotInv
BY DEF Init, SlotInv, SlotPhases, LockPhases, Process

\* A step that opens no export and leaves the slot alone keeps SlotInv.
LEMMA MoveSlot ==
  ASSUME SlotInv, NEW i \in Instances, OthersKept(i),
         me'[i].pc \in SlotPhases => slot # NoSlot,
         exports' \in SUBSET exports, UNCHANGED <<slot, delivered>>
  PROVE  SlotInv'
BY DEF SlotInv, OthersKept

\* Every step keeps SlotInv in mode initial.
LEMMA NextSlot ==
  ASSUME TypeInv, ReadInv, Plain, LsnInv, ~setting.only, SlotInv, [Next]_vars
  PROVE  SlotInv'
<1>1. TypeInv /\ ReadInv /\ LsnInv /\ SlotInv /\ ~setting.only /\ [Next]_vars
  OBVIOUS
<1>2. /\ me \in [Instances -> Local] /\ written \in Nat
      /\ delivered \in [Chunks -> SUBSET SUBSET (1..setting.writes)]
      /\ slot \in {-1} \cup Nat /\ \A i \in Instances : me[i].chunk \in Ids
  BY <1>1, SettingType DEF TypeInv, MeType, DbType, ServerType, WalType, Local, NoSlot
<1>3. ASSUME NEW i \in Instances, ShouldTakeSnapshot(i) PROVE SlotInv'
  <2>1. \E p \in {"reset", "opening", "done", "slot"} : Moves(i, p)
    BY <1>3, <1>1, <1>2, GotoMoves DEF ShouldTakeSnapshot, Executed, Taking
  <2>2. QED
    BY <1>3, <1>1, <1>2, <2>1, MoveSlot
    DEF ShouldTakeSnapshot, db, Moves, SlotPhases, LockPhases
<1>4. ASSUME NEW i \in Instances, SlotInfo(i) PROVE SlotInv'
  <2>1. \/ Moves(i, "create")
        \/ Moves(i, "prepare") /\ slot # NoSlot
    BY <1>4, <1>2, GotoMoves DEF SlotInfo
  <2>2. QED
    BY <1>4, <1>1, <2>1, MoveSlot DEF SlotInfo, db, Moves, SlotPhases, LockPhases
<1>5. ASSUME NEW i \in Instances, CreateSlot(i) PROVE SlotInv'
  <2>1. CASE slot = NoSlot
    <3>1. exports = {} /\ \A c \in Chunks : delivered[c] = {}
      BY <1>1, <2>1 DEF SlotInv
    <3>2. slot' = written /\ UNCHANGED <<exports, delivered>>
      BY <1>5, <2>1 DEF CreateSlot
    <3>3. slot' # NoSlot
      BY <1>2, <3>2 DEF NoSlot
    <3>4. QED
      BY <3>1, <3>2, <3>3 DEF SlotInv
  <2>2. CASE slot # NoSlot
    <3>1. \E q \in {"slot", "failed"} : Moves(i, q)
      BY <1>5, <1>2, <2>2, FailMoves DEF CreateSlot
    <3>2. QED
      BY <1>5, <1>1, <2>2, <3>1, MoveSlot DEF CreateSlot, Moves
  <2>3. QED
    BY <2>1, <2>2
<1>6. ASSUME NEW i \in Instances, SetupJob(i) PROVE SlotInv'
  <2>1. slot # NoSlot
    BY <1>6, <1>1 DEF SetupJob, At, SlotInv, SlotPhases, LockPhases
  <2>2. \E p \in {"lsn", "wait"} : Moves(i, p)
    BY <1>6, <1>1, <1>2, GotoMoves DEF SetupJob
  <2>3. QED
    BY <1>6, <1>1, <2>1, <2>2, MoveSlot DEF SetupJob, db, Moves
<1>7. ASSUME NEW i \in Instances, GetCurrentLSN(i) PROVE SlotInv'
  <2>1. OthersKept(i) /\ slot # NoSlot
    BY <1>7, <1>1, <1>2
    DEF GetCurrentLSN, At, OthersKept, Local, SlotInv, SlotPhases, LockPhases
  <2>2. QED
    BY <1>7, <1>1, <2>1, MoveSlot DEF GetCurrentLSN, db
<1>8. ASSUME NEW i \in Instances, InitializeCoordinator(i) PROVE SlotInv'
  <2>1. slot # NoSlot
    BY <1>8, <1>1 DEF InitializeCoordinator, At, SlotInv, SlotPhases, LockPhases
  <2>2. \E p \in {"cleanup", "export"} : Moves(i, p)
    BY <1>8, <1>1, <1>2, GotoMoves DEF InitializeCoordinator
  <2>3. QED
    BY <1>8, <1>1, <2>1, <2>2, MoveSlot DEF InitializeCoordinator, db, Moves
<1>9. ASSUME NEW i \in Instances, CleanupChunks(i) PROVE SlotInv'
  <2>1. \/ Moves(i, "delete") /\ slot # NoSlot
        \/ Moves(i, "resetJob")
    BY <1>9, <1>1, <1>2, GotoMoves
    DEF CleanupChunks, At, SlotInv, SlotPhases, LockPhases
  <2>2. QED
    BY <1>9, <1>1, <2>1, MoveSlot DEF CleanupChunks, Moves, SlotPhases, LockPhases
<1>10. ASSUME NEW i \in Instances, CleanupJob(i) PROVE SlotInv'
  <2>1. \/ Moves(i, "export") /\ slot # NoSlot
        \/ Moves(i, "slot")
    BY <1>10, <1>1, <1>2, GotoMoves
    DEF CleanupJob, At, SlotInv, SlotPhases, LockPhases, Taking
  <2>2. QED
    BY <1>10, <1>1, <2>1, MoveSlot DEF CleanupJob, Moves, SlotPhases, LockPhases
<1>11. ASSUME NEW i \in Instances, ExportSnapshotTransaction(i) PROVE SlotInv'
  <2>1. slot # NoSlot
    BY <1>11, <1>1 DEF ExportSnapshotTransaction, At, SlotInv, SlotPhases, LockPhases
  <2>2. 1..slot \subseteq visible
    <3>1. slot \in Nat /\ slot <= written /\ visible = 1..written
      BY <1>1, <1>2, <2>1 DEF LsnInv, NoSlot
    <3>2. QED
      BY <1>2, <3>1
  <2>3. QED
    BY <1>11, <1>1, <2>1, <2>2 DEF ExportSnapshotTransaction, SlotInv, db
<1>12. ASSUME NEW i \in Instances, SaveChunks(i) PROVE SlotInv'
  <2>1. slot # NoSlot
    BY <1>12, <1>1 DEF SaveChunks, At, SlotInv, SlotPhases, LockPhases
  <2>2. \E p \in {"chunks", "save", "slot", "failed"} : Moves(i, p)
    BY <1>12, <1>2, SaveMoves DEF Inserts
  <2>3. UNCHANGED <<slot, exports, delivered>>
    BY <1>12 DEF SaveChunks
  <2>4. QED
    BY <1>1, <2>1, <2>2, <2>3, MoveSlot DEF Moves
<1>13. ASSUME NEW i \in Instances, SaveJob(i) PROVE SlotInv'
  <2>1. \E p \in {"execute", "slot", "failed"} : Moves(i, p)
    BY <1>13, <1>1, <1>2, ExecuteMoves, FailMoves DEF SaveJob
  <2>2. QED
    BY <1>13, <1>1, <1>2, <2>1, MoveSlot
    DEF SaveJob, Moves, SlotPhases, LockPhases
<1>14. ASSUME NEW i \in Instances, WaitForCoordinator(i) PROVE SlotInv'
  <2>1. \E p \in {"execute"} : Moves(i, p)
    BY <1>14, <1>1, <1>2, ExecuteMoves DEF WaitForCoordinator
  <2>2. QED
    BY <1>14, <1>1, <1>2, <2>1, MoveSlot
    DEF WaitForCoordinator, db, Moves, SlotPhases, LockPhases
<1>15. ASSUME NEW i \in Instances, LoadJob(i) PROVE SlotInv'
  <2>1. OthersKept(i) /\ me'[i].pc \in {"claim", "slot", "failed"}
    <3>1. CASE HasJob
      BY <1>15, <1>2, <3>1 DEF LoadJob, OthersKept, Local
    <3>2. CASE ~HasJob
      BY <1>15, <1>2, <3>2, FailMoves DEF LoadJob, Moves
    <3>3. QED
      BY <3>1, <3>2
  <2>2. QED
    BY <1>15, <1>1, <2>1, MoveSlot DEF LoadJob, db, SlotPhases, LockPhases
<1>16. ASSUME NEW i \in Instances, ClaimNextChunk(i) PROVE SlotInv'
  <2>1. OthersKept(i) /\ me'[i].pc \in {"process", "finalize"}
    BY <1>16, <1>2, ClaimMoves DEF Claims, ClaimsNothing
  <2>2. QED
    BY <1>16, <1>1, <2>1, MoveSlot DEF ClaimNextChunk, SlotPhases, LockPhases
<1>17. ASSUME NEW i \in Instances, ProcessChunk(i) PROVE SlotInv'
  <2>1. UNCHANGED <<slot, exports>> /\ me[i].chunk[1] \in Chunks
    BY <1>17, <1>1, <1>2 DEF ProcessChunk, db, At, ReadInv, WorkerRead, Ids
  <2>2. CASE Moves(i, "release") /\ UNCHANGED delivered
    BY <1>1, <2>1, <2>2, MoveSlot DEF Moves, SlotPhases, LockPhases
  <2>3. ASSUME NEW e \in exports, Moves(i, "mark"), Reads(i, e) PROVE SlotInv'
    <3>1. slot # NoSlot /\ 1..slot \subseteq e.view
      BY <1>1 DEF SlotInv
    <3>2. \A c \in Chunks : \A v \in delivered'[c] : v \in delivered[c] \/ v = e.view
      BY <2>3 DEF Reads
    <3>3. QED
      BY <1>1, <2>1, <3>1, <3>2 DEF SlotInv
  <2>4. QED
    BY <1>17, <1>2, <2>1, <2>2, <2>3, ProcessMoves
<1>18. ASSUME NEW i \in Instances, MarkChunkCompleted(i) PROVE SlotInv'
  <2>1. \E p \in {"claim"} : Moves(i, p)
    BY <1>18, <1>1, <1>2, GotoMoves DEF MarkChunkCompleted
  <2>2. QED
    BY <1>18, <1>1, <1>2, <2>1, MoveSlot
    DEF MarkChunkCompleted, Moves, SlotPhases, LockPhases
<1>19. ASSUME NEW i \in Instances, ReleaseChunk(i) PROVE SlotInv'
  <2>1. \E p \in {"execute", "slot", "failed"} : Moves(i, p)
    BY <1>19, <1>1, <1>2, AgainMoves DEF ReleaseChunk
  <2>2. QED
    BY <1>19, <1>1, <1>2, <2>1, MoveSlot
    DEF ReleaseChunk, Moves, SlotPhases, LockPhases
<1>20. ASSUME NEW i \in Instances, CheckJobCompleted(i) PROVE SlotInv'
  <2>1. \E p \in {"complete", "opening", "done"} : Moves(i, p)
    BY <1>20, <1>1, <1>2, GotoMoves DEF CheckJobCompleted, Executed
  <2>2. QED
    BY <1>20, <1>1, <1>2, <2>1, MoveSlot
    DEF CheckJobCompleted, db, Moves, SlotPhases, LockPhases
<1>21. ASSUME NEW i \in Instances, MarkJobAsCompleted(i) PROVE SlotInv'
  <2>1. me' = [me EXCEPT ![i] = [me[i] EXCEPT !.own = 0, !.pc = Executed]]
    BY <1>21 DEF MarkJobAsCompleted
  <2>2. OthersKept(i) /\ me'[i].pc \in {"opening", "done"}
    BY <1>2, <2>1 DEF OthersKept, Local, Executed
  <2>3. QED
    BY <1>21, <1>1, <2>2, MoveSlot DEF MarkJobAsCompleted, SlotPhases, LockPhases
<1>22. ASSUME NEW i \in Instances, OpenStream(i) PROVE SlotInv'
  <2>1. \E p \in {"streaming", "failed"} : Moves(i, p)
    BY <1>22, <1>1, <1>2, OpenMoves DEF OpenStream
  <2>2. QED
    BY <1>22, <1>1, <1>2, <2>1, MoveSlot
    DEF OpenStream, db, Moves, SlotPhases, LockPhases
<1>23. ASSUME NEW i \in Instances, Restart(i) PROVE SlotInv'
  <2>1. OthersKept(i) /\ me'[i].pc = "start"
    BY <1>23, <1>2, ProcessMovesOn DEF Restart
  <2>2. QED
    BY <1>23, <1>1, <2>1, MoveSlot DEF Restart, db, SlotPhases, LockPhases
<1>24. ASSUME NEW i \in Instances, Exit(i) PROVE SlotInv'
  <2>1. OthersKept(i) /\ me'[i].pc = "exited"
    BY <1>24, <1>2, ProcessMovesOn DEF Exit
  <2>2. QED
    BY <1>24, <1>1, <2>1, MoveSlot DEF Exit, db, SlotPhases, LockPhases
<1>25. ASSUME NEW i \in Instances, WaitTimeout(i) PROVE SlotInv'
  <2>1. \E p \in {"slot", "failed"} : Moves(i, p)
    BY <1>25, <1>1, <1>2, FailMoves DEF WaitTimeout
  <2>2. QED
    BY <1>25, <1>1, <1>2, <2>1, MoveSlot
    DEF WaitTimeout, db, Moves, SlotPhases, LockPhases
<1>26. ASSUME NEW i \in Instances, HeartbeatReceive(i) PROVE SlotInv'
  <2>1. \E p \in {"claim", "process", "mark", "release"} : Moves(i, p)
    BY <1>26, <1>1, <1>2, HeartbeatMoves DEF HeartbeatReceive
  <2>2. QED
    BY <1>26, <1>1, <1>2, <2>1, MoveSlot
    DEF HeartbeatReceive, db, Moves, SlotPhases, LockPhases
<1>27. ASSUME NEW i \in Instances, HeartbeatTick(i) PROVE SlotInv'
  BY <1>27, <1>1, <1>2
  DEF HeartbeatTick, At, Goto, IsRow, wal, db, faults, SlotInv
<1>28. ASSUME NEW i \in Instances, StatementFails(i) PROVE SlotInv'
  <2>1. /\ \E q \in {"reset", "prepare", "slot", "export", "claim", "execute",
                      "failed"} : Moves(i, q)
        /\ UNCHANGED <<slot, exports, delivered>>
        /\ me[i].pc = "init" \/ ~Moves(i, "export")
        /\ setting.only \/ ~Moves(i, "prepare")
    BY <1>28, <1>2, StatementMoves
  <2>2. me[i].pc = "init" => slot # NoSlot
    BY <1>1 DEF SlotInv, SlotPhases, LockPhases
  <2>3. QED
    BY <1>1, <2>1, <2>2, MoveSlot DEF Moves, SlotPhases, LockPhases
<1>29. ASSUME NEW i \in Instances, Crash(i) PROVE SlotInv'
  <2>1. OthersKept(i) /\ me'[i].pc = "down"
    BY <1>29, <1>2, ProcessMovesOn DEF Crash
  <2>2. QED
    BY <1>29, <1>1, <2>1, MoveSlot DEF Crash, db, SlotPhases, LockPhases
<1>30. ASSUME NEW i \in Instances, Start(i) PROVE SlotInv'
  <2>1. OthersKept(i) /\ me'[i].pc = "start"
    BY <1>30, <1>2, ProcessMovesOn DEF Start
  <2>2. QED
    BY <1>30, <1>1, <2>1, MoveSlot DEF Start, db, SlotPhases, LockPhases
<1>31. ASSUME NEW c \in Chunks, Expire(c) PROVE SlotInv'
  BY <1>31, <1>1, <1>2
  DEF Expire, wal, db, faults, SlotInv
<1>32. CASE Write
  BY <1>32, <1>1, <1>2
  DEF Write, wal, db, faults, SlotInv
<1>33. CASE BecomeVisible
  BY <1>33, <1>1, <1>2
  DEF BecomeVisible, wal, db, faults, SlotInv
<1>34. CASE CollectLeaked
  BY <1>34, <1>1, <1>2
  DEF CollectLeaked, wal, db, faults, SlotInv
<1>35. CASE UNCHANGED vars
  BY <1>35, <1>1, <1>2
  DEF vars, wal, db, faults, SlotInv
<1>36. QED
  BY <1>1, <1>3, <1>4, <1>5, <1>6, <1>7, <1>8, <1>9, <1>10, <1>11, <1>12,
     <1>13, <1>14, <1>15, <1>16, <1>17, <1>18, <1>19, <1>20, <1>21, <1>22,
     <1>23, <1>24, <1>25, <1>26, <1>27, <1>28, <1>29, <1>30, <1>31, <1>32,
     <1>33, <1>34, <1>35
  DEF Next, Step

(***************************************************************************)
(* One view per job.  A coordinator saves its job before any of its rows   *)
(* is read, and everything that counts for the job is then read under its  *)
(* export; once that export is gone nobody reads until a new job is saved. *)
(***************************************************************************)
\* Nothing that was read counts for the rows that i inserts.
Unread(i) ==
  /\ \A c \in Chunks :
       chunks[c].gen = me[i].own => chunks[c].status # "completed"
  /\ \A k \in Instances : me[k].pc = "mark" => me[k].chunk[2] # me[i].own

\* No row is missing.
Whole == \A c \in Chunks : chunks[c].gen # 0

\* Every row that is completed, or is about to be, was read from the view v,
\* which is the one of the job's export and holds all before the job's LSN, and
\* all batches had been inserted when it was.
Common(v) ==
  /\ \A c \in Chunks :
       (chunks[c].gen # 0 /\ chunks[c].status = "completed")
         => Whole /\ v \in delivered[c]
  /\ \A i \in Instances :
       (me[i].pc = "mark" /\ IsRow(me[i].chunk))
         => Whole /\ v \in delivered[me[i].chunk[1]]
  /\ \A e \in exports : e.id = job.export => e.view = v
  /\ (HasJob /\ Plain) => 1..job.lsn \subseteq v

Views == SUBSET (1..setting.writes)
AllFrom(v) == \A c \in Chunks : v \in delivered[c]
OnePoint == \E v \in Views : AllFrom(v)

ViewInv ==
  /\ \E v \in Views : Common(v)
  /\ job.completed => OnePoint
  /\ \A i \in Instances :
       /\ me[i].pc \in {"chunks", "save"} => Unread(i)
       /\ me[i].pc = "complete" => OnePoint

\* Initially nothing was read.
LEMMA InitView == Init => ViewInv
<1>1. SUFFICES ASSUME Init PROVE ViewInv
  OBVIOUS
<1>2. {} \in Views /\ Common({})
  BY <1>1 DEF Init, Views, Common, Process, NoRow, Row, NoJob, HasJob
<1>3. QED
  BY <1>1, <1>2 DEF Init, ViewInv, Process, NoJob

\* An instance goes on without reading or completing anything; rows and job
\* stay, or are deleted, and exports may close.
LEMMA KeepView ==
  ASSUME ViewInv, NEW i \in Instances, OthersKept(i),
         me'[i].pc \notin {"chunks", "save", "complete"},
         me'[i].pc = "mark" => me[i].pc = "mark" /\ me'[i].chunk = me[i].chunk,
         exports' \in SUBSET exports, UNCHANGED <<delivered, setting>>,
         \/ \A c \in Chunks :
              /\ chunks'[c].gen = chunks[c].gen
              /\ chunks'[c].status = "completed" => chunks[c].status = "completed"
         \/ \A c \in Chunks : chunks'[c].gen = 0 /\ chunks'[c].status = "pending",
         \A e \in exports : e.id # 0,
         \A k \in Instances : me[k].chunk \in Ids,
         \/ job'.export = 0
         \/ job'.export = job.export /\ job'.lsn = job.lsn,
         job'.completed => job.completed
  PROVE  ViewInv'
<1>1. PICK v \in Views : Common(v)
  BY DEF ViewInv
<1>2. \A k \in Instances : me'[k].pc = "mark" => me[k].pc = "mark" /\ me'[k].chunk = me[k].chunk
  BY DEF OthersKept
<1>3. ASSUME NEW k \in Instances, me'[k].pc = "mark", IsRow(me[k].chunk)'
      PROVE  Whole' /\ v \in delivered'[me'[k].chunk[1]]
  <2>1. me[k].pc = "mark" /\ me'[k].chunk = me[k].chunk
    BY <1>2, <1>3
  <2>2. me[k].chunk # NoChunk /\ chunks'[me[k].chunk[1]].gen = me[k].chunk[2]
    BY <1>3, <2>1 DEF IsRow
  <2>3. me[k].chunk[1] \in Chunks /\ me[k].chunk[2] # 0
    BY <2>2 DEF Ids
  <2>4. IsRow(me[k].chunk)
    BY <2>2, <2>3 DEF IsRow
  <2>5. QED
    BY <1>1, <2>1, <2>2, <2>3, <2>4 DEF Common, Whole
<1>4. Common(v)'
  <2>1. \A c \in Chunks : (chunks'[c].gen # 0 /\ chunks'[c].status = "completed")
                             => Whole' /\ v \in delivered'[c]
    BY <1>1 DEF Common, Whole
  <2>2. \A e \in exports' : e.id = job'.export => e.view = v
    BY <1>1 DEF Common
  <2>3. (HasJob' /\ Plain') => 1..job'.lsn \subseteq v
    BY <1>1 DEF Common, HasJob, Plain
  <2>4. QED
    BY <1>3, <2>1, <2>2, <2>3 DEF Common
<1>5. OnePoint => OnePoint'
  BY DEF OnePoint, AllFrom, Views
<1>6. ASSUME NEW k \in Instances, me'[k].pc \in {"chunks", "save"} PROVE Unread(k)'
  <2>1. k # i /\ me'[k] = me[k] /\ Unread(k)
    BY <1>6 DEF ViewInv, OthersKept
  <2>2. QED
    BY <1>2, <2>1 DEF Unread
<1>7. v \in Views'
  BY <1>1 DEF Views
<1>8. \A k \in Instances : me'[k].pc = "complete" => me[k].pc = "complete"
  BY DEF OthersKept
<1>9. QED
  BY <1>4, <1>5, <1>6, <1>7, <1>8 DEF ViewInv

\* Every step keeps ViewInv, unless statements fail.
LEMMA NextView ==
  ASSUME TypeInv, ReadInv, OwnerInv, Gentle, CoordInv, Plain => LsnInv, ViewInv,
         [Next]_vars
  PROVE  ViewInv'
<1>1. /\ TypeInv /\ ReadInv /\ OwnerInv /\ CoordInv /\ (Plain => LsnInv) /\ ViewInv
      /\ [Next]_vars
      /\ setting.errors = 0 /\ ~setting.resnapshot /\ errors \in 0..setting.errors
  BY DEF Gentle, TypeInv, WalType
<1>2. /\ me \in [Instances -> Local] /\ chunks \in [Chunks -> RowType]
      /\ delivered \in [Chunks -> SUBSET SUBSET (1..setting.writes)]
      /\ \A i \in Instances : me[i].chunk \in Ids
      /\ \A e \in exports : e.id # 0 /\ e.view \in SUBSET (1..setting.writes)
      /\ job \in [export : Nat, lsn : 0..setting.writes, done : Nat,
                  completed : BOOLEAN]
  BY <1>1 DEF TypeInv, MeType, DbType, ServerType, Local
<1>3. ASSUME NEW i \in Instances, ShouldTakeSnapshot(i) PROVE ViewInv'
  <2>1. \E p \in {"opening", "done", "slot", "prepare"} : Moves(i, p)
    BY <1>3, <1>1, <1>2, GotoMoves DEF ShouldTakeSnapshot, Executed, Taking
  <2>2. UNCHANGED <<job, chunks, exports, delivered, setting>>
    BY <1>3 DEF ShouldTakeSnapshot, db, faults
  <2>3. QED
    BY <1>1, <1>2, <2>1, <2>2, KeepView DEF Moves
<1>4. ASSUME NEW i \in Instances, SlotInfo(i) PROVE ViewInv'
  <2>1. \E p \in {"create", "prepare"} : Moves(i, p)
    BY <1>4, <1>1, <1>2, GotoMoves DEF SlotInfo
  <2>2. UNCHANGED <<job, chunks, exports, delivered, setting>>
    BY <1>4 DEF SlotInfo, db, faults
  <2>3. QED
    BY <1>1, <1>2, <2>1, <2>2, KeepView DEF Moves
<1>5. ASSUME NEW i \in Instances, CreateSlot(i) PROVE ViewInv'
  <2>1. \E p \in {"prepare", "slot", "failed"} : Moves(i, p)
    BY <1>5, <1>1, <1>2, GotoMoves, FailMoves DEF CreateSlot
  <2>2. UNCHANGED <<job, chunks, exports, delivered, setting>>
    BY <1>5 DEF CreateSlot, db, faults
  <2>3. QED
    BY <1>1, <1>2, <2>1, <2>2, KeepView DEF Moves
<1>6. ASSUME NEW i \in Instances, SetupJob(i) PROVE ViewInv'
  <2>1. \E p \in {"lsn", "wait"} : Moves(i, p)
    BY <1>6, <1>1, <1>2, GotoMoves DEF SetupJob
  <2>2. UNCHANGED <<job, chunks, exports, delivered, setting>>
    BY <1>6 DEF SetupJob, db, faults
  <2>3. QED
    BY <1>1, <1>2, <2>1, <2>2, KeepView DEF Moves
<1>7. ASSUME NEW i \in Instances, GetCurrentLSN(i) PROVE ViewInv'
  <2>1. OthersKept(i) /\ me'[i].pc = "init"
    <3>1. me' = [me EXCEPT ![i] = [me[i] EXCEPT !.lsn = written, !.pc = "init"]]
      BY <1>7 DEF GetCurrentLSN
    <3>2. QED
      BY <1>2, <3>1 DEF OthersKept, Local
  <2>2. UNCHANGED <<job, chunks, exports, delivered, setting>>
    BY <1>7 DEF GetCurrentLSN, db, faults
  <2>3. QED
    BY <1>1, <1>2, <2>1, <2>2, KeepView
<1>8. ASSUME NEW i \in Instances, InitializeCoordinator(i) PROVE ViewInv'
  <2>1. \E p \in {"cleanup", "export"} : Moves(i, p)
    BY <1>8, <1>1, <1>2, GotoMoves DEF InitializeCoordinator
  <2>2. UNCHANGED <<job, chunks, exports, delivered, setting>>
    BY <1>8 DEF InitializeCoordinator, db, faults
  <2>3. QED
    BY <1>1, <1>2, <2>1, <2>2, KeepView DEF Moves
<1>9. ASSUME NEW i \in Instances, CleanupChunks(i) PROVE ViewInv'
  <2>1. \E p \in {"delete", "resetJob"} : Moves(i, p)
    BY <1>9, <1>2, GotoMoves DEF CleanupChunks
  <2>2. UNCHANGED <<job, exports, delivered, setting>>
    BY <1>9 DEF CleanupChunks, faults
  <2>3. \A c \in Chunks : chunks'[c].gen = 0 /\ chunks'[c].status = "pending"
    BY <1>9 DEF CleanupChunks, NoRow, Row
  <2>4. QED
    BY <1>1, <1>2, <2>1, <2>2, <2>3, KeepView DEF Moves
<1>10. ASSUME NEW i \in Instances, CleanupJob(i) PROVE ViewInv'
  <2>1. \E p \in {"export", "slot", "prepare"} : Moves(i, p)
    BY <1>10, <1>2, GotoMoves DEF CleanupJob, Taking
  <2>2. UNCHANGED <<chunks, exports, delivered, setting>>
    BY <1>10 DEF CleanupJob, faults
  <2>3. job'.export = 0 /\ ~job'.completed
    BY <1>10 DEF CleanupJob, NoJob
  <2>4. QED
    BY <1>1, <1>2, <2>1, <2>2, <2>3, KeepView DEF Moves
<1>11. ASSUME NEW i \in Instances, ExportSnapshotTransaction(i) PROVE ViewInv'
  <2> DEFINE n == NewId
             x == [id |-> n, owner |-> i, view |-> visible]
  <2>1. /\ exports' = exports \cup {x}
        /\ UNCHANGED <<job, chunks, delivered, setting>>
        /\ me' = [me EXCEPT ![i] = [me[i] EXCEPT !.own = n, !.saved = 0,
                                                 !.pc = "chunks"]]
    BY <1>11 DEF ExportSnapshotTransaction, db, faults
  <2>2. /\ x.id = n /\ n # job.export
        /\ \A c \in Chunks : chunks[c].gen # n
        /\ \A k \in Instances : me[k].chunk[2] # n
    BY <1>1, NewIdIsNew DEF TypeInv, ServerType, UsedIds
  <2> HIDE DEF n, x
  <2>3. OthersKept(i) /\ me'[i].pc = "chunks" /\ me'[i].own = n
    BY <1>2, <2>1 DEF OthersKept, Local
  <2>4. PICK v \in Views : Common(v)
    BY <1>1 DEF ViewInv
  <2>5. v \in Views' /\ Common(v)'
    <3>1. \A k \in Instances : me'[k].pc = "mark" =>
            me[k].pc = "mark" /\ me'[k].chunk = me[k].chunk
      BY <2>3 DEF OthersKept
    <3>2. \A e \in exports' : e.id = job'.export => e \in exports /\ e.id = job.export
      BY <2>1, <2>2
    <3>3. QED
      BY <2>1, <2>4, <3>1, <3>2 DEF Common, Whole, Views, IsRow, HasJob, Plain
  <2>6. Unread(i)'
    BY <2>1, <2>2, <2>3 DEF Unread, OthersKept
  <2>7. ASSUME NEW k \in Instances, me'[k].pc \in {"chunks", "save"} PROVE Unread(k)'
    <3>1. CASE k = i
      BY <2>6, <3>1
    <3>2. CASE k # i
      <4>1. me'[k] = me[k] /\ Unread(k)
        BY <1>1, <2>3, <2>7, <3>2 DEF ViewInv, OthersKept
      <4>2. QED
        BY <2>1, <2>3, <4>1 DEF Unread, OthersKept
    <3>3. QED
      BY <3>1, <3>2
  <2>8. OnePoint => OnePoint'
    BY <2>1 DEF OnePoint, Views, AllFrom
  <2>9. QED
    BY <1>1, <2>1, <2>3, <2>5, <2>7, <2>8 DEF ViewInv, OthersKept
<1>12. ASSUME NEW i \in Instances, SaveChunks(i) PROVE ViewInv'
  <2>1. me[i].pc = "chunks" /\ UNCHANGED <<job, exports, delivered, setting>>
    BY <1>12 DEF SaveChunks, At, faults
  <2>2. CASE UNCHANGED chunks /\ \E p \in {"slot", "failed"} : Moves(i, p)
    BY <1>1, <1>2, <2>1, <2>2, KeepView DEF Moves
  <2>3. ASSUME NEW p \in {"chunks", "save"}, Inserts(i, p) PROVE ViewInv'
    <3>1. Moves(i, p) /\ Unread(i) /\ me[i].own # 0
      BY <1>1, <2>1, <2>3 DEF Inserts, ViewInv, OwnerInv, Unsaved
    <3>2. \A c \in Chunks :
            \/ chunks'[c] = chunks[c]
            \/ /\ chunks[c].gen = 0
               /\ chunks'[c].gen = me[i].own /\ chunks'[c].status = "pending"
      BY <2>3 DEF Inserts, Row
    <3>3. \A k \in Instances : k # i => me[k].pc \notin {"chunks", "save"}
      BY <1>1, <2>1 DEF OwnerInv, LockPhases
    <3>4. \A k \in Instances : me'[k].pc = "mark" =>
            me[k].pc = "mark" /\ me'[k].chunk = me[k].chunk
                             /\ me[k].chunk[2] # me[i].own
      BY <3>1 DEF Moves, OthersKept, Unread
    <3>5. \A k \in Instances :
            (me'[k].pc = "mark" /\ IsRow(me[k].chunk)') => IsRow(me[k].chunk)
      <4>1. SUFFICES ASSUME NEW k \in Instances, me'[k].pc = "mark",
                            IsRow(me[k].chunk)'
                     PROVE  IsRow(me[k].chunk)
        OBVIOUS
      <4>2. me[k].chunk # NoChunk /\ chunks'[me[k].chunk[1]].gen = me[k].chunk[2]
        BY <3>4, <4>1 DEF IsRow
      <4>3. me[k].chunk[1] \in Chunks
        BY <1>2, <4>2 DEF Ids
      <4>4. QED
        BY <3>2, <3>4, <4>1, <4>2, <4>3 DEF IsRow
    <3>6. PICK v \in Views : Common(v)
      BY <1>1 DEF ViewInv
    <3>7. Whole => Whole'
      BY <3>1, <3>2 DEF Whole
    <3>8. v \in Views' /\ Common(v)'
      <4>1. \A c \in Chunks : (chunks'[c].gen # 0 /\ chunks'[c].status = "completed")
                                 => Whole' /\ v \in delivered'[c]
        BY <2>1, <3>2, <3>6, <3>7 DEF Common
      <4>2. \A k \in Instances : (me'[k].pc = "mark" /\ IsRow(me[k].chunk)')
                                    => Whole' /\ v \in delivered'[me'[k].chunk[1]]
        BY <2>1, <3>4, <3>5, <3>6, <3>7 DEF Common
      <4>3. QED
        BY <2>1, <3>6, <4>1, <4>2 DEF Common, Views, HasJob, Plain
    <3>9. Unread(i)'
      BY <3>1, <3>2, <3>4 DEF Unread, Moves
    <3>10. OnePoint => OnePoint'
      BY <2>1 DEF OnePoint, Views, AllFrom
    <3>11. \A k \in Instances : /\ me'[k].pc \in {"chunks", "save"} => k = i
                                /\ me'[k].pc = "complete" => me[k].pc = "complete"
      BY <3>1, <3>3 DEF Moves, OthersKept
    <3>12. QED
      BY <1>1, <2>1, <3>8, <3>9, <3>10, <3>11 DEF ViewInv
  <2>4. QED
    BY <1>12, <1>2, <2>2, <2>3, SaveMoves
<1>13. ASSUME NEW i \in Instances, SaveJob(i) PROVE ViewInv'
  <2>1. me[i].pc = "save" /\ UNCHANGED <<chunks, exports, delivered, setting>>
    BY <1>13 DEF SaveJob, At, faults
  <2>2. CASE HasJob
    <3>1. /\ \E p \in {"slot", "failed"} : Moves(i, p)
          /\ UNCHANGED job
      BY <1>13, <1>2, <2>2, FailMoves DEF SaveJob
    <3>2. QED
      BY <1>1, <1>2, <2>1, <3>1, KeepView DEF Moves
  <2>3. CASE ~HasJob
    <3>1. Moves(i, "execute")
      BY <1>13, <1>2, <2>3, ExecuteMoves DEF SaveJob
    <3>2. /\ job'.export = me[i].own /\ job'.lsn = me[i].lsn /\ ~job'.completed
      BY <1>13, <2>3 DEF SaveJob, NoJob
    <3>3. PICK e \in exports : e.id = me[i].own
      BY <1>1, <2>1 DEF OwnerInv, Unsaved
    <3>4. Unread(i) /\ \A c \in Chunks : /\ chunks[c].gen = me[i].own
                                         /\ chunks[c].status # "completed"
      BY <1>1, <2>1 DEF ViewInv, CoordInv, Unread
    <3>5. \A k \in Instances : me'[k].pc = "mark" =>
            me[k].pc = "mark" /\ me'[k].chunk = me[k].chunk
                             /\ me[k].chunk[2] # me[i].own
      BY <3>1, <3>4 DEF Moves, OthersKept, Unread
    <3>6. \A k \in Instances : me'[k].pc = "mark" => ~IsRow(me[k].chunk)'
      <4>1. SUFFICES ASSUME NEW k \in Instances, me'[k].pc = "mark",
                            IsRow(me[k].chunk)'
                     PROVE  FALSE
        OBVIOUS
      <4>2. me[k].chunk # NoChunk /\ chunks[me[k].chunk[1]].gen = me[k].chunk[2]
        BY <2>1, <3>5, <4>1 DEF IsRow
      <4>3. me[k].chunk[1] \in Chunks
        BY <1>2, <4>2 DEF Ids
      <4>4. QED
        BY <3>4, <3>5, <4>1, <4>2, <4>3
    <3>7. \A f \in exports : f.id = me[i].own => f = e
      BY <1>1, <3>3 DEF OwnerInv, ExportsOwned
    <3>8. Plain' => 1..me[i].lsn \subseteq e.view
      BY <1>1, <2>1, <3>3 DEF LsnInv, Plain
    <3>9. e.view \in Views' /\ Common(e.view)'
      BY <1>2, <2>1, <3>2, <3>4, <3>6, <3>7, <3>8 DEF Common, Views
    <3>10. OnePoint => OnePoint'
      BY <2>1 DEF OnePoint, Views, AllFrom
    <3>11. \A k \in Instances : /\ me'[k].pc \notin {"chunks", "save"}
                                /\ me'[k].pc = "complete" => me[k].pc = "complete"
      BY <1>1, <2>1, <3>1 DEF Moves, OthersKept, OwnerInv, LockPhases
    <3>12. QED
      BY <1>1, <3>2, <3>9, <3>10, <3>11 DEF ViewInv
  <2>4. QED
    BY <2>2, <2>3
<1>14. ASSUME NEW i \in Instances, WaitForCoordinator(i) PROVE ViewInv'
  <2>1. \E p \in {"execute"} : Moves(i, p)
    BY <1>14, <1>1, <1>2, ExecuteMoves DEF WaitForCoordinator
  <2>2. UNCHANGED <<job, chunks, exports, delivered, setting>>
    BY <1>14 DEF WaitForCoordinator, db, faults
  <2>3. QED
    BY <1>1, <1>2, <2>1, <2>2, KeepView DEF Moves
<1>15. ASSUME NEW i \in Instances, LoadJob(i) PROVE ViewInv'
  <2>1. OthersKept(i) /\ me'[i].pc \in {"claim", "slot", "failed"}
    <3>1. CASE HasJob
      BY <1>15, <1>2, <3>1 DEF LoadJob, OthersKept, Local
    <3>2. CASE ~HasJob
      BY <1>15, <1>2, <3>2, FailMoves DEF LoadJob, Moves
    <3>3. QED
      BY <3>1, <3>2
  <2>2. UNCHANGED <<job, chunks, exports, delivered, setting>>
    BY <1>15 DEF LoadJob, db, faults
  <2>3. QED
    BY <1>1, <1>2, <2>1, <2>2, KeepView
<1>16. ASSUME NEW i \in Instances, ClaimNextChunk(i) PROVE ViewInv'
  <2>1. OthersKept(i) /\ me'[i].pc \in {"process", "finalize"}
    BY <1>16, <1>2, ClaimMoves DEF Claims, ClaimsNothing
  <2>2. UNCHANGED <<job, exports, delivered, setting>>
    BY <1>16 DEF ClaimNextChunk, faults
  <2>3. \A c \in Chunks :
          /\ chunks'[c].gen = chunks[c].gen
          /\ chunks'[c].status = "completed" => chunks[c].status = "completed"
    <3>1. CASE ClaimsNothing(i)
      BY <3>1 DEF ClaimsNothing
    <3>2. ASSUME NEW c \in Chunks, Claims(i, c)
          PROVE  \A d \in Chunks :
                   /\ chunks'[d].gen = chunks[d].gen
                   /\ chunks'[d].status = "completed" => chunks[d].status = "completed"
      <4>1. chunks' = [chunks EXCEPT ![c] =
                        [chunks[c] EXCEPT !.status = "in_progress", !.fresh = TRUE]]
        BY <3>2 DEF Claims
      <4>2. QED
        BY <1>2, <4>1 DEF RowType
    <3>3. QED
      BY <1>16, <1>2, <3>1, <3>2, ClaimMoves
  <2>4. QED
    BY <1>1, <1>2, <2>1, <2>2, <2>3, KeepView
<1>17. ASSUME NEW i \in Instances, ProcessChunk(i) PROVE ViewInv'
  <2>1. UNCHANGED <<job, chunks, exports, setting>> /\ me[i].chunk[1] \in Chunks
    BY <1>17, <1>1, <1>2 DEF ProcessChunk, db, faults, At, ReadInv, WorkerRead, Ids
  <2>2. CASE Moves(i, "release") /\ UNCHANGED delivered
    BY <1>1, <1>2, <2>1, <2>2, KeepView DEF Moves
  <2>3. ASSUME NEW e \in exports, Moves(i, "mark"), Reads(i, e) PROVE ViewInv'
    <3>1. e.id = job.export /\ Whole
      BY <1>1, <1>2, <2>3 DEF CoordInv, Coordinates, Reads, Whole
    <3>2. PICK v \in Views : Common(v)
      BY <1>1 DEF ViewInv
    <3>3. e.view = v
      BY <3>1, <3>2 DEF Common
    <3>4. ASSUME NEW k \in Instances, me'[k].pc = "mark", IsRow(me[k].chunk)'
          PROVE  Whole' /\ v \in delivered'[me'[k].chunk[1]]
      <4>1. Whole'
        BY <2>1, <3>1 DEF Whole
      <4>2. CASE k = i
        BY <2>3, <3>3, <4>1, <4>2 DEF Moves, Reads
      <4>3. CASE k # i
        <5>1. me'[k] = me[k] /\ IsRow(me[k].chunk)
          BY <2>1, <2>3, <3>4, <4>3 DEF Moves, OthersKept, IsRow
        <5>2. me[k].chunk[1] \in Chunks
          BY <1>2, <5>1 DEF IsRow, Ids
        <5>3. QED
          BY <2>3, <3>2, <3>4, <4>1, <5>1, <5>2 DEF Common, Reads
      <4>4. QED
        BY <4>2, <4>3
    <3>5. v \in Views' /\ Common(v)'
      <4>1. \A c \in Chunks : delivered[c] \subseteq delivered'[c]
        BY <2>3 DEF Reads
      <4>2. QED
        BY <2>1, <3>2, <3>4, <4>1 DEF Common, Whole, Views, HasJob, Plain
    <3>6. OnePoint => OnePoint'
      BY <2>1, <2>3 DEF OnePoint, Views, AllFrom, Reads
    <3>7. \A k \in Instances : me[k].pc \notin {"chunks", "save"}
      BY <1>1, <3>1, LockedOut DEF OwnerInv, LockPhases, AfterSave
    <3>8. \A k \in Instances : /\ me'[k].pc \notin {"chunks", "save"}
                               /\ me'[k].pc = "complete" => me[k].pc = "complete"
      BY <2>3, <3>7 DEF Moves, OthersKept
    <3>9. QED
      BY <1>1, <2>1, <3>5, <3>6, <3>8 DEF ViewInv
  <2>4. QED
    BY <1>17, <1>2, <2>1, <2>2, <2>3, ProcessMoves
<1>18. ASSUME NEW i \in Instances, MarkChunkCompleted(i) PROVE ViewInv'
  <2>1. /\ Moves(i, "claim") /\ me[i].pc = "mark"
        /\ UNCHANGED <<exports, delivered, setting>>
        /\ job'.export = job.export /\ job'.lsn = job.lsn
        /\ job'.completed = job.completed
    BY <1>18, <1>2, GotoMoves DEF MarkChunkCompleted, At, faults
  <2> DEFINE id == me[i].chunk
  <2>2. \A c \in Chunks :
          /\ chunks'[c].gen = chunks[c].gen
          /\ \/ chunks'[c].status = chunks[c].status
             \/ c = id[1] /\ chunks[c].gen = id[2]
    BY <1>18, <1>2, SetStatusKeeps DEF MarkChunkCompleted
  <2>3. PICK v \in Views : Common(v)
    BY <1>1 DEF ViewInv
  <2>4. id # NoChunk /\ id[1] \in Chunks
    BY <1>1, <1>2, <2>1 DEF ReadInv, WorkerRead, Ids
  <2>5. \A c \in Chunks : (chunks'[c].gen # 0 /\ chunks'[c].status = "completed")
                              => Whole' /\ v \in delivered'[c]
    BY <2>1, <2>2, <2>3, <2>4 DEF Common, Whole, IsRow
  <2>6. ASSUME NEW k \in Instances, me'[k].pc = "mark", IsRow(me[k].chunk)'
        PROVE  Whole' /\ v \in delivered'[me'[k].chunk[1]]
    <3>1. k # i /\ me'[k] = me[k]
      BY <2>1, <2>6 DEF Moves, OthersKept
    <3>2. me[k].chunk # NoChunk /\ chunks'[me[k].chunk[1]].gen = me[k].chunk[2]
      BY <2>6, <3>1 DEF IsRow
    <3>3. IsRow(me[k].chunk)
      BY <1>2, <2>2, <3>2 DEF IsRow, Ids
    <3>4. QED
      BY <2>1, <2>2, <2>3, <2>6, <3>1, <3>3 DEF Common, Whole
  <2>7. v \in Views' /\ Common(v)'
    BY <2>1, <2>3, <2>5, <2>6 DEF Common, Whole, Views, HasJob, Plain
  <2>8. ASSUME NEW k \in Instances, me'[k].pc \in {"chunks", "save"} PROVE Unread(k)'
    <3>1. k # i /\ me'[k] = me[k] /\ Unread(k)
      BY <1>1, <2>1, <2>8 DEF Moves, OthersKept, ViewInv
    <3>2. id[2] # me[k].own
      BY <2>1, <3>1 DEF Unread
    <3>3. \A c \in Chunks : chunks'[c].gen = me[k].own => chunks'[c].status # "completed"
      BY <2>2, <3>1, <3>2 DEF Unread
    <3>4. QED
      BY <2>1, <3>1, <3>3 DEF Unread, Moves, OthersKept
  <2>9. OnePoint => OnePoint'
    BY <2>1 DEF OnePoint, Views, AllFrom
  <2>10. QED
    BY <1>1, <2>1, <2>7, <2>8, <2>9 DEF ViewInv, Moves, OthersKept
<1>19. ASSUME NEW i \in Instances, ReleaseChunk(i) PROVE ViewInv'
  <2>1. /\ \E p \in {"execute", "slot", "failed"} : Moves(i, p)
        /\ UNCHANGED <<job, exports, delivered, setting>>
    BY <1>19, <1>2, AgainMoves DEF ReleaseChunk, faults
  <2>2. \A c \in Chunks :
          /\ chunks'[c].gen = chunks[c].gen
          /\ chunks'[c].status = "completed" => chunks[c].status = "completed"
    BY <1>19, <1>2, SetStatusKeeps DEF ReleaseChunk
  <2>3. QED
    BY <1>1, <1>2, <2>1, <2>2, KeepView DEF Moves
<1>20. ASSUME NEW i \in Instances, CheckJobCompleted(i) PROVE ViewInv'
  <2>1. UNCHANGED <<job, chunks, exports, delivered, setting>>
    BY <1>20 DEF CheckJobCompleted, db, faults
  <2>2. CASE Moves(i, "opening") \/ Moves(i, "done")
    BY <1>1, <1>2, <2>1, <2>2, KeepView DEF Moves
  <2>3. CASE /\ Moves(i, "complete")
             /\ \E c \in Chunks : chunks[c].gen # 0
             /\ \A c \in Chunks : chunks[c].gen # 0 => chunks[c].status = "completed"
    <3>1. PICK v \in Views : Common(v)
      BY <1>1 DEF ViewInv
    <3>2. AllFrom(v)
      BY <2>3, <3>1 DEF Common, Whole, AllFrom
    <3>3. OnePoint'
      BY <2>1, <3>1, <3>2 DEF OnePoint, AllFrom, Views
    <3>4. v \in Views' /\ Common(v)'
      BY <2>1, <2>3, <3>1
      DEF Common, Whole, Views, HasJob, Plain, IsRow, Moves, OthersKept
    <3>5. ASSUME NEW k \in Instances, me'[k].pc \in {"chunks", "save"} PROVE Unread(k)'
      <4>1. k # i /\ me'[k] = me[k] /\ Unread(k)
        BY <1>1, <2>3, <3>5 DEF Moves, OthersKept, ViewInv
      <4>2. QED
        BY <2>1, <2>3, <4>1 DEF Unread, Moves, OthersKept
    <3>6. QED
      BY <3>3, <3>4, <3>5 DEF ViewInv
  <2>4. QED
    BY <1>20, <1>2, <2>2, <2>3, GotoMoves DEF CheckJobCompleted, Executed
<1>21. ASSUME NEW i \in Instances, MarkJobAsCompleted(i) PROVE ViewInv'
  <2>1. /\ me' = [me EXCEPT ![i] = [me[i] EXCEPT !.own = 0, !.pc = Executed]]
        /\ me[i].pc = "complete" /\ UNCHANGED <<chunks, delivered, setting>>
        /\ exports' \in SUBSET exports
        /\ job'.export = job.export /\ job'.lsn = job.lsn
    BY <1>21, <1>2 DEF MarkJobAsCompleted, At, faults
  <2>2. /\ OthersKept(i) /\ me'[i].pc \in {"opening", "done"}
        /\ me'[i].chunk = me[i].chunk
    BY <1>2, <2>1 DEF OthersKept, Local, Executed
  <2>3. OnePoint'
    BY <1>1, <2>1 DEF ViewInv, OnePoint, Views, AllFrom
  <2>4. PICK v \in Views : Common(v)
    BY <1>1 DEF ViewInv
  <2>5. \A k \in Instances : me'[k].pc \in {"mark", "chunks", "save"} => k # i /\ me'[k] = me[k]
    BY <2>2 DEF OthersKept
  <2>6. v \in Views' /\ Common(v)'
    BY <2>1, <2>4, <2>5 DEF Common, Whole, Views, HasJob, Plain, IsRow
  <2>7. ASSUME NEW k \in Instances, me'[k].pc \in {"chunks", "save"} PROVE Unread(k)'
    <3>1. k # i /\ me'[k] = me[k] /\ Unread(k)
      BY <1>1, <2>5, <2>7 DEF ViewInv
    <3>2. QED
      BY <2>1, <2>5, <3>1 DEF Unread
  <2>8. QED
    BY <2>3, <2>6, <2>7 DEF ViewInv
<1>22. ASSUME NEW i \in Instances, OpenStream(i) PROVE ViewInv'
  <2>1. \E p \in {"streaming", "failed"} : Moves(i, p)
    BY <1>22, <1>1, <1>2, OpenMoves DEF OpenStream
  <2>2. UNCHANGED <<job, chunks, exports, delivered, setting>>
    BY <1>22 DEF OpenStream, db, faults
  <2>3. QED
    BY <1>1, <1>2, <2>1, <2>2, KeepView DEF Moves
<1>23. ASSUME NEW i \in Instances, Restart(i) PROVE ViewInv'
  <2>1. OthersKept(i) /\ me'[i].pc = "start"
    BY <1>23, <1>2, ProcessMovesOn DEF Restart
  <2>2. UNCHANGED <<job, chunks, delivered, setting>> /\ exports' \in SUBSET exports
    BY <1>23 DEF Restart, db, faults
  <2>3. QED
    BY <1>1, <1>2, <2>1, <2>2, KeepView
<1>24. ASSUME NEW i \in Instances, Exit(i) PROVE ViewInv'
  <2>1. OthersKept(i) /\ me'[i].pc = "exited"
    BY <1>24, <1>2, ProcessMovesOn DEF Exit
  <2>2. UNCHANGED <<job, chunks, delivered, setting>> /\ exports' \in SUBSET exports
    BY <1>24 DEF Exit, db, faults
  <2>3. QED
    BY <1>1, <1>2, <2>1, <2>2, KeepView
<1>25. ASSUME NEW i \in Instances, WaitTimeout(i) PROVE ViewInv'
  <2>1. \E p \in {"slot", "failed"} : Moves(i, p)
    BY <1>25, <1>1, <1>2, FailMoves DEF WaitTimeout
  <2>2. UNCHANGED <<job, chunks, exports, delivered, setting>>
    BY <1>25 DEF WaitTimeout, db, faults
  <2>3. QED
    BY <1>1, <1>2, <2>1, <2>2, KeepView DEF Moves
<1>26. ASSUME NEW i \in Instances, HeartbeatReceive(i) PROVE ViewInv'
  <2>1. \E p \in {"claim", "process", "mark", "release"} : p = me[i].pc /\ Moves(i, p)
    BY <1>26, <1>2, HeartbeatMoves
  <2>2. UNCHANGED <<job, chunks, exports, delivered, setting>>
    BY <1>26 DEF HeartbeatReceive, db, faults
  <2>3. QED
    BY <1>1, <1>2, <2>1, <2>2, KeepView DEF Moves
<1>27. ASSUME NEW i \in Instances, HeartbeatTick(i) PROVE ViewInv'
  <2>1. UNCHANGED <<job, exports, me, delivered, setting>>
    BY <1>27 DEF HeartbeatTick, faults
  <2>2. \A d \in Chunks : chunks'[d].gen = chunks[d].gen /\ chunks'[d].status = chunks[d].status
    BY <1>27, <1>2 DEF HeartbeatTick, RowType, IsRow
  <2>3. PICK v \in Views : Common(v)
    BY <1>1 DEF ViewInv
  <2>4. \A k \in Instances : IsRow(me[k].chunk)' => IsRow(me[k].chunk)
    BY <1>2, <2>1, <2>2 DEF IsRow, Ids
  <2>5. v \in Views' /\ Common(v)'
    BY <2>1, <2>2, <2>3, <2>4 DEF Common, Whole, Views, HasJob, Plain
  <2>6. (\A k \in Instances : Unread(k) => Unread(k)') /\ (OnePoint => OnePoint')
    BY <2>1, <2>2 DEF Unread, OnePoint, Views, AllFrom
  <2>7. QED
    BY <1>1, <2>1, <2>5, <2>6 DEF ViewInv
<1>28. ASSUME NEW i \in Instances, StatementFails(i) PROVE ViewInv'
  BY <1>28, <1>1 DEF StatementFails
<1>29. ASSUME NEW i \in Instances, Crash(i) PROVE ViewInv'
  <2>1. OthersKept(i) /\ me'[i].pc = "down"
    BY <1>29, <1>2, ProcessMovesOn DEF Crash
  <2>2. UNCHANGED <<job, chunks, delivered, setting>> /\ exports' \in SUBSET exports
    BY <1>29 DEF Crash, db, faults
  <2>3. QED
    BY <1>1, <1>2, <2>1, <2>2, KeepView
<1>30. ASSUME NEW i \in Instances, Start(i) PROVE ViewInv'
  <2>1. OthersKept(i) /\ me'[i].pc = "start"
    BY <1>30, <1>2, ProcessMovesOn DEF Start
  <2>2. UNCHANGED <<job, chunks, delivered, setting>> /\ exports' \in SUBSET exports
    BY <1>30 DEF Start, db, faults
  <2>3. QED
    BY <1>1, <1>2, <2>1, <2>2, KeepView
<1>31. ASSUME NEW c \in Chunks, Expire(c) PROVE ViewInv'
  <2>1. UNCHANGED <<job, exports, me, delivered, setting>>
    BY <1>31 DEF Expire, faults
  <2>2. \A d \in Chunks : chunks'[d].gen = chunks[d].gen /\ chunks'[d].status = chunks[d].status
    BY <1>31, <1>2 DEF Expire, RowType
  <2>3. PICK v \in Views : Common(v)
    BY <1>1 DEF ViewInv
  <2>4. \A k \in Instances : IsRow(me[k].chunk)' => IsRow(me[k].chunk)
    BY <1>2, <2>1, <2>2 DEF IsRow, Ids
  <2>5. v \in Views' /\ Common(v)'
    BY <2>1, <2>2, <2>3, <2>4 DEF Common, Whole, Views, HasJob, Plain
  <2>6. (\A k \in Instances : Unread(k) => Unread(k)') /\ (OnePoint => OnePoint')
    BY <2>1, <2>2 DEF Unread, OnePoint, Views, AllFrom
  <2>7. QED
    BY <1>1, <2>1, <2>5, <2>6 DEF ViewInv
<1>32. CASE Write
  <2>1. UNCHANGED <<job, chunks, me, delivered, setting>> /\ exports' \in SUBSET exports
    BY <1>32 DEF Write, db, faults
  <2>2. PICK v \in Views : Common(v)
    BY <1>1 DEF ViewInv
  <2>3. v \in Views' /\ Common(v)'
    BY <2>1, <2>2 DEF Common, Whole, Views, HasJob, Plain, IsRow
  <2>4. (\A k \in Instances : Unread(k) => Unread(k)') /\ (OnePoint => OnePoint')
    BY <2>1 DEF Unread, OnePoint, Views, AllFrom
  <2>5. QED
    BY <1>1, <2>1, <2>3, <2>4 DEF ViewInv
<1>33. CASE BecomeVisible
  <2>1. UNCHANGED <<job, chunks, me, delivered, setting>> /\ exports' \in SUBSET exports
    BY <1>33 DEF BecomeVisible, db, faults
  <2>2. PICK v \in Views : Common(v)
    BY <1>1 DEF ViewInv
  <2>3. v \in Views' /\ Common(v)'
    BY <2>1, <2>2 DEF Common, Whole, Views, HasJob, Plain, IsRow
  <2>4. (\A k \in Instances : Unread(k) => Unread(k)') /\ (OnePoint => OnePoint')
    BY <2>1 DEF Unread, OnePoint, Views, AllFrom
  <2>5. QED
    BY <1>1, <2>1, <2>3, <2>4 DEF ViewInv
<1>34. CASE CollectLeaked
  <2>1. UNCHANGED <<job, chunks, me, delivered, setting>> /\ exports' \in SUBSET exports
    BY <1>34 DEF CollectLeaked, db, faults
  <2>2. PICK v \in Views : Common(v)
    BY <1>1 DEF ViewInv
  <2>3. v \in Views' /\ Common(v)'
    BY <2>1, <2>2 DEF Common, Whole, Views, HasJob, Plain, IsRow
  <2>4. (\A k \in Instances : Unread(k) => Unread(k)') /\ (OnePoint => OnePoint')
    BY <2>1 DEF Unread, OnePoint, Views, AllFrom
  <2>5. QED
    BY <1>1, <2>1, <2>3, <2>4 DEF ViewInv
<1>35. CASE UNCHANGED vars
  <2>1. UNCHANGED <<job, chunks, me, delivered, setting>> /\ exports' \in SUBSET exports
    BY <1>35 DEF vars, db, faults
  <2>2. PICK v \in Views : Common(v)
    BY <1>1 DEF ViewInv
  <2>3. v \in Views' /\ Common(v)'
    BY <2>1, <2>2 DEF Common, Whole, Views, HasJob, Plain, IsRow
  <2>4. (\A k \in Instances : Unread(k) => Unread(k)') /\ (OnePoint => OnePoint')
    BY <2>1 DEF Unread, OnePoint, Views, AllFrom
  <2>5. QED
    BY <1>1, <2>1, <2>3, <2>4 DEF ViewInv
<1>36. QED
  BY <1>1, <1>3, <1>4, <1>5, <1>6, <1>7, <1>8, <1>9, <1>10, <1>11, <1>12,
     <1>13, <1>14, <1>15, <1>16, <1>17, <1>18, <1>19, <1>20, <1>21, <1>22,
     <1>23, <1>24, <1>25, <1>26, <1>27, <1>28, <1>29, <1>30, <1>31, <1>32,
     <1>33, <1>34, <1>35
  DEF Next, Step

\* The invariant of a snapshot whose statements do not fail.
SnapshotInv ==
  /\ TypeInv /\ ReadInv /\ OwnerInv
  /\ Plain => LsnInv
  /\ Gentle => CoordInv /\ ViewInv

\* The deployment does not change.
LEMMA SettingStays == [Next]_vars => UNCHANGED setting
<1>1. ASSUME NEW i \in Instances, Step(i) PROVE UNCHANGED setting
  <2>1. CASE \/ ShouldTakeSnapshot(i) \/ SlotInfo(i) \/ CreateSlot(i)
             \/ SetupJob(i) \/ GetCurrentLSN(i) \/ InitializeCoordinator(i)
             \/ CleanupChunks(i) \/ CleanupJob(i)
    BY <2>1
    DEF ShouldTakeSnapshot, SlotInfo, CreateSlot, SetupJob, GetCurrentLSN,
        InitializeCoordinator, CleanupChunks, CleanupJob, faults
  <2>2. CASE \/ ExportSnapshotTransaction(i) \/ SaveChunks(i) \/ SaveJob(i)
             \/ WaitForCoordinator(i) \/ LoadJob(i) \/ ClaimNextChunk(i)
             \/ ProcessChunk(i)
    BY <2>2
    DEF ExportSnapshotTransaction, SaveChunks, SaveJob, WaitForCoordinator,
        LoadJob, ClaimNextChunk, ProcessChunk, faults
  <2>3. CASE \/ MarkChunkCompleted(i) \/ ReleaseChunk(i) \/ CheckJobCompleted(i)
             \/ MarkJobAsCompleted(i) \/ OpenStream(i) \/ Restart(i) \/ Exit(i)
    BY <2>3
    DEF MarkChunkCompleted, ReleaseChunk, CheckJobCompleted, MarkJobAsCompleted,
        OpenStream, Restart, Exit, faults
  <2>4. QED
    BY <1>1, <2>1, <2>2, <2>3 DEF Step
<1>2. ASSUME NEW i \in Instances,
             \/ WaitTimeout(i) \/ HeartbeatReceive(i) \/ HeartbeatTick(i)
             \/ StatementFails(i) \/ Crash(i) \/ Start(i)
      PROVE  UNCHANGED setting
  BY <1>2 DEF WaitTimeout, HeartbeatReceive, HeartbeatTick, StatementFails, Crash,
              Start, faults
<1>3. ASSUME NEW c \in Chunks, Expire(c) PROVE UNCHANGED setting
  BY <1>3 DEF Expire, faults
<1>4. CASE Write \/ BecomeVisible \/ CollectLeaked \/ UNCHANGED vars
  BY <1>4 DEF Write, BecomeVisible, CollectLeaked, vars, faults
<1>5. QED
  BY <1>1, <1>2, <1>3, <1>4 DEF Next

\* The invariant holds initially.
LEMMA InitSnapshot == Init => SnapshotInv
BY InitType, InitRead, InitOwner, InitLsn, InitCoord, InitView DEF SnapshotInv

\* Every step keeps the invariant.
LEMMA NextSnapshot == SnapshotInv /\ [Next]_vars => SnapshotInv'
<1>1. SUFFICES ASSUME SnapshotInv, [Next]_vars PROVE SnapshotInv'
  OBVIOUS
<1>2. Plain' = Plain /\ Gentle' = Gentle
  BY <1>1, SettingStays DEF Plain, Gentle
<1>3. TypeInv' /\ ReadInv' /\ OwnerInv'
  BY <1>1, NextType, NextRead, NextOwner DEF SnapshotInv
<1>4. Plain => LsnInv'
  BY <1>1, NextLsn DEF SnapshotInv
<1>5. Gentle => CoordInv' /\ ViewInv'
  BY <1>1, NextCoord, NextView DEF SnapshotInv
<1>6. QED
  BY <1>2, <1>3, <1>4, <1>5 DEF SnapshotInv

\* A snapshot during which instances may crash, but no statement of a live
\* one fails, is one point in time (ConsistentAfterCrash): however many
\* instances share it, however often the coordinator changes and whoever
\* reads which chunk, every chunk reached the listener from one common view.
THEOREM CrashesKeepOnePoint == Spec => []ConsistentAfterCrash
<1>1. SnapshotInv => ConsistentAfterCrash
  BY DEF SnapshotInv, Gentle, ConsistentAfterCrash, ConsistentSnapshot, ViewInv,
         OnePoint, AllFrom, Views
<1>2. QED
  BY <1>1, InitSnapshot, NextSnapshot, PTL DEF Spec

\* The same for a database and a configuration that are such from the start
\* (Gentle): a completed snapshot is one point in time (ConsistentSnapshot),
\* also when the coordinator leaves early or several instances take over.
THEOREM SnapshotIsOnePoint == Spec /\ Gentle => []ConsistentSnapshot
<1>1. SnapshotInv /\ Gentle => ConsistentSnapshot
  BY DEF SnapshotInv, ConsistentSnapshot, ViewInv, OnePoint, AllFrom, Views
<1>2. Gentle /\ [Next]_vars => Gentle'
  BY SettingStays DEF Gentle
<1>3. QED
  BY <1>1, <1>2, InitSnapshot, NextSnapshot, PTL DEF Spec

=============================================================================
