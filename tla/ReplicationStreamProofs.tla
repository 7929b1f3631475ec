---------------------- MODULE ReplicationStreamProofs ----------------------
(***************************************************************************)
(* Proofs about ReplicationStream, for every WAL, channel capacity, number *)
(* of unacked messages and number of faults.                               *)
(***************************************************************************)
EXTENDS ReplicationStream, TLAPS

-----------------------------------------------------------------------------
(* Messages. *)

\* Stamping a commit context changes neither the change nor its position.
LEMMA StampFacts ==
  ASSUME NEW m \in Message(wal), NEW lsn \in Nat, NEW x \in Xids \cup {0}
  PROVE  /\ stampCommit(m, lsn, x) \in Message(wal)
         /\ stampCommit(m, lsn, x).change = m.change
         /\ stampCommit(m, lsn, x).walStart = m.walStart
         /\ stampCommit(m, lsn, x).commitLSN \in {m.commitLSN, lsn}
BY DEF stampCommit, Message

\* Marking the last message rewrites its position to the transaction end.
LEMMA AsLastFacts ==
  ASSUME NEW m \in Message(wal), NEW end \in Nat
  PROVE  /\ AsLast(m, end) \in Message(wal)
         /\ AsLast(m, end).change = m.change
         /\ AsLast(m, end).walStart = end
         /\ AsLast(m, end).commitLSN = m.commitLSN
BY DEF AsLast, Message, IsDML

\* The WAL a behaviour starts from is a well-formed sequence of records.
LEMMA WalFacts ==
  ASSUME wal \in Wals
  PROVE  /\ wal \in Seq(Record) /\ WellFormed(wal)
         /\ DOMAIN wal = 1..Len(wal) /\ Len(wal) \in Nat
         /\ \A l \in DOMAIN wal : wal[l] \in Record /\ wal[l].xid \in Xids
                                    /\ wal[l].xid # 0
<1>1. wal \in Seq(Record) /\ WellFormed(wal)
  BY WalAssumption DEF WalAssumption
<1>2. DOMAIN wal = 1..Len(wal) /\ Len(wal) \in Nat
  BY <1>1
<1>3. \A l \in DOMAIN wal : wal[l] \in Record
  BY <1>1, <1>2
<1>4. \A r \in Record : r.xid \in Xids /\ r.xid # 0
  BY ParameterAssumption DEF ParameterAssumption, Record
<1>5. QED
  BY <1>1, <1>2, <1>3, <1>4

\* flushTx emits as many messages as were buffered, in order.
LEMMA FlushFacts ==
  ASSUME NEW x \in Xids, NEW c \in Nat, txns[x] \in Seq(Message(wal))
  PROVE  /\ FlushTx(x, c) \in Seq(Message(wal))
         /\ DOMAIN FlushTx(x, c) = DOMAIN txns[x]
         /\ \A i \in DOMAIN txns[x] :
              /\ FlushTx(x, c)[i].change = txns[x][i].change
              /\ FlushTx(x, c)[i].commitLSN \in {txns[x][i].commitLSN, c}
              /\ FlushTx(x, c)[i].walStart =
                   IF i = Len(txns[x]) THEN c + 1 ELSE txns[x][i].walStart
<1> DEFINE n == Len(txns[x])
           M(i) == stampCommit(txns[x][i], c, x)
           F(i) == IF i = n THEN AsLast(M(i), EndLSN(c)) ELSE M(i)
<1>1. FlushTx(x, c) = [i \in 1..n |-> F(i)]
  BY DEF FlushTx
<1>2. n \in Nat /\ DOMAIN txns[x] = 1..n
  OBVIOUS
<1>3. \A i \in 1..n : txns[x][i] \in Message(wal)
  OBVIOUS
<1>4. \A i \in 1..n : /\ M(i) \in Message(wal)
                      /\ M(i).change = txns[x][i].change
                      /\ M(i).walStart = txns[x][i].walStart
                      /\ M(i).commitLSN \in {txns[x][i].commitLSN, c}
  BY <1>3, StampFacts
<1>5. EndLSN(c) = c + 1 /\ c + 1 \in Nat
  BY DEF EndLSN
<1>6a. \A i \in 1..n : /\ AsLast(M(i), c + 1) \in Message(wal)
                       /\ AsLast(M(i), c + 1).change = M(i).change
                       /\ AsLast(M(i), c + 1).walStart = c + 1
                       /\ AsLast(M(i), c + 1).commitLSN = M(i).commitLSN
  BY <1>4, <1>5, AsLastFacts
<1> HIDE DEF M
<1>6. \A i \in 1..n :
        /\ F(i) \in Message(wal)
        /\ F(i).change = txns[x][i].change
        /\ F(i).commitLSN \in {txns[x][i].commitLSN, c}
        /\ F(i).walStart = IF i = n THEN c + 1 ELSE txns[x][i].walStart
  BY <1>4, <1>5, <1>6a
<1> HIDE DEF F, n
<1>7. [i \in 1..n |-> F(i)] \in Seq(Message(wal))
  BY <1>2, <1>6
<1>8. QED
  BY <1>1, <1>2, <1>6, <1>7 DEF n

-----------------------------------------------------------------------------
(* Type correctness. *)

\* The changes of a transaction are records of the WAL.
LEMMA ChangesInWal ==
  ASSUME NEW w, NEW x, NEW p
  PROVE  ChangesBefore(w, x, p) \subseteq DOMAIN w
BY DEF ChangesBefore

\* The initial states are well typed.
LEMMA InitTypeOK == Init => TypeOK
<1> SUFFICES ASSUME Init PROVE TypeOK
  OBVIOUS
<1>1. CommittedBelow(wal, SnapshotLSN) \subseteq DOMAIN wal
  BY DEF CommittedBelow, Changes, ChangesBefore
<1>2. EmptyTxns \in [Xids -> Seq(Message(wal))]
  BY DEF EmptyTxns
<1>3. Len(wal) \in Nat /\ DOMAIN wal = 1..Len(wal)
  BY WalFacts DEF Init
<1>4. openFromSnapshotLSN \in BOOLEAN
  BY DEF Init
<1>5. ServerTypes
  BY <1>3 DEF Init, ServerTypes
<1>6. BufferTypes
  BY <1>2 DEF Init, BufferTypes, NoCommit
<1>7. PositionTypes
  BY <1>1, <1>4 DEF Init, PositionTypes
<1>8. QED
  BY <1>5, <1>6, <1>7 DEF TypeOK, Init, QueueTypes

\* Every step keeps every variable in its type.
LEMMA NextTypeOK == TypeOK /\ [Next]_vars => TypeOK'
<1> SUFFICES ASSUME TypeOK, [Next]_vars PROVE TypeOK'
  OBVIOUS
<1> USE ParameterAssumption DEF ParameterAssumption, server, walsender, buffers,
        pipeline, replay, consumer, control
<1>w. /\ Len(wal) \in Nat /\ DOMAIN wal = 1..Len(wal)
      /\ \A l \in DOMAIN wal : wal[l].xid \in Xids
  BY WalFacts DEF TypeOK, ServerTypes
<1>e. EmptyTxns \in [Xids -> Seq(Message(wal))]
  BY DEF EmptyTxns
<1>1. CASE Open
  <2>1. ServerTypes'
    BY <1>1, <1>w DEF Open, StartReplication, SetupLSN, Larger, TypeOK,
       ServerTypes, PositionTypes
  <2>2. PositionTypes'
    BY <1>1 DEF Open, TypeOK, PositionTypes
  <2>3. BufferTypes' /\ QueueTypes'
    BY <1>1 DEF Open, TypeOK, BufferTypes, QueueTypes
  <2>4. QED BY <2>1, <2>2, <2>3 DEF TypeOK
<1>2. CASE Disconnect
  BY <1>2, <1>w DEF Disconnect,
     TypeOK, ServerTypes, PositionTypes, BufferTypes, QueueTypes
<1>3. CASE ReconnectFails
  BY <1>3, <1>w DEF ReconnectFails, ResetForReconnect, NoCommit,
     TypeOK, ServerTypes, PositionTypes, BufferTypes, QueueTypes
<1>4. CASE Reconnect
  <2>1. ServerTypes'
    BY <1>4, <1>w, <1>e DEF Reconnect, StartReplication, SetupLSN, Larger, ResetForReconnect, FreshBuffers, NoCommit,
       TypeOK, ServerTypes, PositionTypes, BufferTypes, QueueTypes
  <2>2. PositionTypes'
    BY <1>4, <1>w, <1>e DEF Reconnect, StartReplication, SetupLSN, Larger, ResetForReconnect, FreshBuffers, NoCommit,
       TypeOK, ServerTypes, PositionTypes, BufferTypes, QueueTypes
  <2>3. BufferTypes'
    BY <1>4, <1>w, <1>e, <1>e DEF Reconnect, StartReplication, SetupLSN, Larger, ResetForReconnect, FreshBuffers, NoCommit,
       TypeOK, ServerTypes, PositionTypes, BufferTypes, QueueTypes
  <2>4. QueueTypes'
    BY <1>4, <1>w, <1>e DEF Reconnect, StartReplication, SetupLSN, Larger, ResetForReconnect, FreshBuffers, NoCommit,
       TypeOK, ServerTypes, PositionTypes, BufferTypes, QueueTypes
  <2>5. QED BY <2>1, <2>2, <2>3, <2>4 DEF TypeOK
<1>5. CASE Close
  BY <1>5, <1>w DEF Close,
     TypeOK, ServerTypes, PositionTypes, BufferTypes, QueueTypes
<1>6. CASE Crash
  <2> USE <1>6 DEF Crash
  <2>1. ServerTypes'
    BY <1>w DEF TypeOK, ServerTypes, PositionTypes, BufferTypes, QueueTypes
  <2>2. (faults \in Nat)'
    BY DEF TypeOK, PositionTypes
  <2>3. PositionTypes'
    BY <1>w, <2>2 DEF TypeOK, PositionTypes
  <2>4. BufferTypes'
    BY <1>e DEF BufferTypes, FreshBuffers, NoCommit
  <2>5. QueueTypes'
    BY DEF QueueTypes
  <2>6. QED
    BY <2>1, <2>3, <2>4, <2>5 DEF TypeOK
<1>7. CASE PgRestart
  BY <1>7, <1>w DEF PgRestart,
     TypeOK, ServerTypes, PositionTypes, BufferTypes, QueueTypes
<1>8. CASE DecodeSilently
  BY <1>8, <1>w DEF DecodeSilently, AtRecord,
     TypeOK, ServerTypes, PositionTypes, BufferTypes, QueueTypes
<1>9. CASE SinkBegin
  BY <1>9, <1>w, ChangesInWal DEF SinkBegin, AtRecord, Receive, Larger, Changes,
     TypeOK, ServerTypes, PositionTypes, BufferTypes, QueueTypes
<1>10. CASE SinkCommit
  <2>1. ServerTypes'
    BY <1>10, <1>w DEF SinkCommit, Receive, Larger, EndLSN,
       TypeOK, ServerTypes, PositionTypes, BufferTypes, QueueTypes
  <2>2. PositionTypes'
    BY <1>10, <1>w DEF SinkCommit, Receive, Larger, EndLSN,
       TypeOK, ServerTypes, PositionTypes, BufferTypes, QueueTypes
  <2>3. BufferTypes'
    BY <1>10, <1>w DEF SinkCommit, Receive, Larger, EndLSN,
       TypeOK, ServerTypes, PositionTypes, BufferTypes, QueueTypes
  <2>4. QueueTypes'
    BY <1>10, <1>w, AsLastFacts DEF SinkCommit, Receive, Larger, EndLSN,
       TypeOK, ServerTypes, PositionTypes, BufferTypes, QueueTypes
  <2>5. QED BY <2>1, <2>2, <2>3, <2>4 DEF TypeOK
<1>11. CASE SinkChange
  <2>1. PICK l \in todo : SinkChange!(l)
    BY <1>11 DEF SinkChange
  <2> DEFINE m == [NoMessage EXCEPT !.change = l, !.walStart = l]
             sm == stampCommit(m, txCommit.lsn, txCommit.xid)
  <2>2. l \in DOMAIN wal /\ l \in Nat
    BY <1>w DEF TypeOK, ServerTypes
  <2>3. m \in Message(wal)
    BY <2>2 DEF Message, NoMessage
  <2>4. txCommit.lsn \in Nat /\ txCommit.xid \in Xids \cup {0}
    BY DEF TypeOK, BufferTypes
  <2>5. sm \in Message(wal)
    BY <2>3, <2>4, StampFacts
  <2>6. ServerTypes'
    BY <2>1, <2>2, <1>w DEF TypeOK, ServerTypes
  <2>7. PositionTypes'
    BY <2>1, <2>2, <1>w DEF TypeOK, PositionTypes, Receive, Larger
  <2> HIDE DEF m, sm
  <2>8. \/ AppendMessage(m) \/ BufferMessage(sm)
    BY <2>1 DEF m, sm
  <2>9. UNCHANGED <<wal, txCommit, activeXid, streaming, messageCH, unacked>>
    BY <2>1
  <2>10. BufferTypes' /\ QueueTypes'
    <3>1. CASE AppendMessage(m)
      <4>1. \A x \in Xids : Append(txns[x], m) \in Seq(Message(wal))
        BY <2>3 DEF TypeOK, BufferTypes
      <4>2. txns' \in [Xids -> Seq(Message(wal))]
        BY <3>1, <4>1 DEF TypeOK, BufferTypes, AppendMessage
      <4>3. QED
        BY <2>9, <3>1, <4>2 DEF TypeOK, BufferTypes, QueueTypes, AppendMessage
    <3>2. CASE BufferMessage(sm)
      BY <2>5, <2>9, <3>2 DEF TypeOK, BufferTypes, QueueTypes, BufferMessage
    <3>3. QED
      BY <2>8, <3>1, <3>2
  <2>11. QED
    BY <2>6, <2>7, <2>10 DEF TypeOK
<1>12. CASE SinkStreamStart
  <2>1. /\ mode' = "chunk" /\ cur' \in Xids /\ activeXid' \in Xids
        /\ todo' \subseteq DOMAIN wal
    BY <1>12, ChangesInWal DEF SinkStreamStart
  <2>2. PICK l \in todo' : Receive(l)
    BY <1>12 DEF SinkStreamStart
  <2>3. l \in Nat
    BY <2>1, <2>2, <1>w
  <2>4. /\ streaming' = TRUE
        /\ UNCHANGED <<server, startAt, sndPos, sent, control,
                       confirmedXLogPos, txCommit, pending, txns, pipeline,
                       replay, consumer>>
    BY <1>12 DEF SinkStreamStart
  <2>5. ServerTypes'
    BY <2>1, <2>4 DEF TypeOK, ServerTypes
  <2>6. PositionTypes'
    BY <2>2, <2>3, <2>4 DEF TypeOK, PositionTypes, Receive, Larger
  <2>7. BufferTypes' /\ QueueTypes'
    BY <2>1, <2>4 DEF TypeOK, BufferTypes, QueueTypes
  <2>8. QED BY <2>5, <2>6, <2>7 DEF TypeOK
<1>13. CASE SinkStreamStop
  BY <1>13, <1>w DEF SinkStreamStop, Receive, Larger,
     TypeOK, ServerTypes, PositionTypes, BufferTypes, QueueTypes
<1>14. CASE SinkStreamCommit
  <2> DEFINE x == wal[sndPos].xid
  <2>1. sndPos \in DOMAIN wal /\ sndPos \in Nat /\ x \in Xids
    BY <1>14, <1>w DEF SinkStreamCommit, AtRecord
  <2>2. FlushTx(x, sndPos) \in Seq(Message(wal))
    BY <2>1, FlushFacts DEF TypeOK, BufferTypes
  <2>3. ServerTypes'
    BY <1>14, <1>w, <2>1 DEF SinkStreamCommit, AtRecord, TypeOK, ServerTypes
  <2>4. PositionTypes'
    BY <1>14, <2>1 DEF SinkStreamCommit, Receive, EndLSN, Larger, TypeOK, PositionTypes
  <2>5. BufferTypes'
    <3>1. <<>> \in Seq(Message(wal))
      OBVIOUS
    <3>2. txns' \in [Xids -> Seq(Message(wal))]
      BY <1>14, <2>1, <3>1 DEF SinkStreamCommit, TypeOK, BufferTypes
    <3>3. QED
      BY <1>14, <3>2 DEF SinkStreamCommit, TypeOK, BufferTypes
  <2> HIDE DEF x
  <2>6. outbox' = FlushTx(x, sndPos) /\ UNCHANGED <<wal, messageCH, unacked>>
    BY <1>14 DEF SinkStreamCommit, x
  <2>7. QueueTypes'
    BY <2>2, <2>6 DEF TypeOK, QueueTypes
  <2>8. QED
    BY <2>3, <2>4, <2>5, <2>7 DEF TypeOK
<1>15. CASE SinkStreamAbort
  <2>1. ServerTypes'
    BY <1>15, <1>w DEF SinkStreamAbort, AtRecord, Receive, Larger, DiscardTx,
       TypeOK, ServerTypes, PositionTypes, BufferTypes, QueueTypes
  <2>2. PositionTypes'
    BY <1>15, <1>w DEF SinkStreamAbort, AtRecord, Receive, Larger, DiscardTx,
       TypeOK, ServerTypes, PositionTypes, BufferTypes, QueueTypes
  <2>3. BufferTypes'
    BY <1>15, <1>w DEF SinkStreamAbort, AtRecord, Receive, Larger, DiscardTx,
       TypeOK, ServerTypes, PositionTypes, BufferTypes, QueueTypes
  <2>4. QueueTypes'
    BY <1>15, <1>w DEF SinkStreamAbort, AtRecord, Receive, Larger, DiscardTx,
       TypeOK, ServerTypes, PositionTypes, BufferTypes, QueueTypes
  <2>5. QED BY <2>1, <2>2, <2>3, <2>4 DEF TypeOK
<1>16. CASE SendMessage
  <2>1. ServerTypes'
    BY <1>16, <1>w DEF SendMessage,
       TypeOK, ServerTypes, PositionTypes, BufferTypes, QueueTypes
  <2>2. PositionTypes'
    BY <1>16, <1>w DEF SendMessage,
       TypeOK, ServerTypes, PositionTypes, BufferTypes, QueueTypes
  <2>3. BufferTypes'
    BY <1>16, <1>w DEF SendMessage,
       TypeOK, ServerTypes, PositionTypes, BufferTypes, QueueTypes
  <2>4. QueueTypes'
    BY <1>16, <1>w DEF SendMessage,
       TypeOK, ServerTypes, PositionTypes, BufferTypes, QueueTypes
  <2>5. QED BY <2>1, <2>2, <2>3, <2>4 DEF TypeOK
<1>17. CASE Keepalive
  BY <1>17, <1>w DEF Keepalive, Receive, Larger,
     TypeOK, ServerTypes, PositionTypes, BufferTypes, QueueTypes
<1>18. CASE ProcessHeartbeat
  <2>1. Head(messageCH) \in Message(wal) /\ Tail(messageCH) \in Seq(Message(wal))
    BY <1>18 DEF ProcessHeartbeat, Take, TypeOK, QueueTypes
  <2>2. Head(messageCH).change \in DOMAIN wal /\ Head(messageCH).walStart \in Nat
    BY <2>1 DEF Message
  <2>3. ServerTypes' /\ BufferTypes'
    BY <1>18 DEF ProcessHeartbeat, TypeOK, ServerTypes, BufferTypes
  <2>4. PositionTypes'
    BY <1>18, <2>2 DEF ProcessHeartbeat, Take, Confirm, Larger, TypeOK, PositionTypes
  <2>5. QueueTypes'
    BY <1>18, <2>1 DEF ProcessHeartbeat, Take, TypeOK, QueueTypes
  <2>6. QED
    BY <2>3, <2>4, <2>5 DEF TypeOK
<1>19. CASE ProcessMessage
  <2>1. Head(messageCH) \in Message(wal) /\ Tail(messageCH) \in Seq(Message(wal))
    BY <1>19 DEF ProcessMessage, Take, TypeOK, QueueTypes
  <2>2. Head(messageCH).change \in DOMAIN wal /\ Head(messageCH).walStart \in Nat
    BY <2>1 DEF Message
  <2>3. ServerTypes' /\ BufferTypes'
    BY <1>19 DEF ProcessMessage, TypeOK, ServerTypes, BufferTypes
  <2>4. PositionTypes'
    BY <1>19, <2>2 DEF ProcessMessage, Take, Larger, TypeOK, PositionTypes
  <2>5. QueueTypes'
    BY <1>19, <2>1 DEF ProcessMessage, Take, TypeOK, QueueTypes
  <2>6. QED
    BY <2>3, <2>4, <2>5 DEF TypeOK
<1>20. CASE Ack
  <2>1. PICK k \in 1..Len(unacked) : Ack!2!(k)
    BY <1>20 DEF Ack
  <2>2. UNCHANGED <<server, walsender, control, lastXLogPos, buffers, pipeline,
                    replay, delivered>>
    BY <1>20 DEF Ack
  <2>3. \A i \in 1..k : unacked[i] \in Message(wal)
    BY DEF TypeOK, QueueTypes
  <2>4. \A i \in 1..k : unacked[i].change \in DOMAIN wal
    BY <2>3 DEF Message
  <2>5. unacked[k].walStart \in Nat /\ unacked[k].commitLSN \in Nat
    BY <2>3 DEF Message
  <2>6. (confirmedXLogPos \in Nat)'
    BY <2>1, <2>5 DEF Confirm, Larger, TypeOK, PositionTypes
  <2>7. (processed \subseteq DOMAIN wal)'
    BY <2>1, <2>2, <2>4 DEF TypeOK, PositionTypes
  <2>8. ServerTypes' /\ BufferTypes'
    BY <2>2 DEF TypeOK, ServerTypes, BufferTypes
  <2>9. PositionTypes'
    BY <2>2, <2>6, <2>7 DEF TypeOK, PositionTypes
  <2>10. QueueTypes'
    BY <2>1, <2>2 DEF TypeOK, QueueTypes
  <2>11. QED
    BY <2>8, <2>9, <2>10 DEF TypeOK
<1>21. CASE SendStandbyStatusUpdate
  BY <1>21, <1>w DEF SendStandbyStatusUpdate,
     TypeOK, ServerTypes, PositionTypes, BufferTypes, QueueTypes
<1>22. CASE SlotAdvance
  BY <1>22, <1>w DEF SlotAdvance, Larger,
     TypeOK, ServerTypes, PositionTypes, BufferTypes, QueueTypes
<1>23. CASE UNCHANGED vars
  BY <1>23 DEF vars, TypeOK, ServerTypes, PositionTypes, BufferTypes, QueueTypes
<1>24. CASE CancelContext
  BY <1>24 DEF CancelContext,
     TypeOK, ServerTypes, PositionTypes, BufferTypes, QueueTypes
<1>25. CASE DropMessage
  BY <1>25, <1>w DEF DropMessage,
     TypeOK, ServerTypes, PositionTypes, BufferTypes, QueueTypes
<1>q. QED
  BY <1>1, <1>2, <1>3, <1>4, <1>5, <1>6, <1>7, <1>8, <1>9, <1>10, <1>11, <1>12, <1>13, <1>14, <1>15, <1>16, <1>17, <1>18, <1>19, <1>20, <1>21, <1>22, <1>23, <1>24, <1>25
  DEF Next, Sink

\* Type correctness holds in every reachable state, in every setting.
THEOREM TypeCorrect == Spec => []TypeOK
<1>1. QED
  BY InitTypeOK, NextTypeOK, PTL DEF Spec

-----------------------------------------------------------------------------
(* Coverage of a position by a set of changes. *)

\* A larger set covers as much.
LEMMA CoveredMono ==
  ASSUME NEW w, NEW p, NEW S, NEW T, Covered(w, p, S), S \subseteq T
  PROVE  Covered(w, p, T)
BY DEF Covered

\* The larger of two covered positions is covered.
LEMMA CoveredLarger ==
  ASSUME NEW w, NEW a, NEW b, NEW S, Covered(w, a, S), Covered(w, b, S)
  PROVE  Covered(w, Larger(a, b), S)
BY DEF Covered, Larger

\* No commit lies below 1.
LEMMA CoveredZero ==
  ASSUME NEW w \in Seq(Record), NEW S
  PROVE  Covered(w, 0, S) /\ Covered(w, 1, S)
BY DEF Covered, Commits

\* A position below a covered one is covered.
LEMMA CoveredBelow ==
  ASSUME NEW w \in Seq(Record), NEW p \in Nat, NEW r \in Nat, p <= r, NEW S,
         Covered(w, r, S)
  PROVE  Covered(w, p, S)
BY DEF Covered, Commits

\* Passing a record that is no commit, or one whose changes are in S.
LEMMA CoveredStep ==
  ASSUME NEW w \in Seq(Record), NEW p \in Nat, NEW S, Covered(w, p, S),
         p \in Commits(w) => Changes(w, p) \subseteq S
  PROVE  Covered(w, p + 1, S)
BY DEF Covered, Commits

-----------------------------------------------------------------------------
(* Queues whose messages are safe to ack in order. *)

\* A larger base keeps a queue safe.
LEMMA QueueMono ==
  ASSUME NEW w, NEW q, NEW A, NEW B, A \subseteq B, QueueSafe(w, q, A)
  PROVE  QueueSafe(w, q, B)
<1>1. ASSUME NEW k \in DOMAIN q, NEW p \in {q[k].walStart, q[k].commitLSN}
      PROVE  Covered(w, p, B \cup {q[i].change : i \in 1..k})
  <2> DEFINE D == {q[i].change : i \in 1..k}
  <2>1. Covered(w, p, A \cup D)
    BY DEF QueueSafe
  <2> HIDE DEF D
  <2>2. A \cup D \subseteq B \cup D
    OBVIOUS
  <2>3. Covered(w, p, B \cup D)
    BY <2>1, <2>2, CoveredMono
  <2>4. QED
    BY <2>3 DEF D
<1>2. QED
  BY <1>1 DEF QueueSafe

\* An empty queue is safe and holds no change.
LEMMA QueueEmpty ==
  ASSUME NEW w, NEW A
  PROVE  QueueSafe(w, <<>>, A) /\ ChangesOf(<<>>) = {}
BY DEF QueueSafe, ChangesOf

\* Appending a message whose positions the whole queue covers.
LEMMA QueueAppend ==
  ASSUME NEW w, NEW q \in Seq(Message(w)), NEW m \in Message(w), NEW A,
         QueueSafe(w, q, A),
         Covered(w, m.walStart, A \cup ChangesOf(q) \cup {m.change}),
         Covered(w, m.commitLSN, A \cup ChangesOf(q) \cup {m.change})
  PROVE  /\ QueueSafe(w, Append(q, m), A)
         /\ ChangesOf(Append(q, m)) = ChangesOf(q) \cup {m.change}
<1> DEFINE r == Append(q, m)
           n == Len(q)
<1>1. n \in Nat /\ DOMAIN q = 1..n /\ DOMAIN r = 1..(n + 1)
  OBVIOUS
<1>2. \A i \in 1..n : r[i] = q[i]
  OBVIOUS
<1>3. r[n + 1] = m
  OBVIOUS
<1> HIDE DEF r, n
<1>4. ChangesOf(r) = ChangesOf(q) \cup {m.change}
  BY <1>1, <1>2, <1>3 DEF ChangesOf
<1>5. ASSUME NEW k \in DOMAIN r, NEW p \in {r[k].walStart, r[k].commitLSN}
      PROVE  Covered(w, p, A \cup {r[i].change : i \in 1..k})
  <2>1. CASE k = n + 1
    <3>1. {r[i].change : i \in 1..k} = ChangesOf(q) \cup {m.change}
      BY <1>1, <1>4, <2>1 DEF ChangesOf
    <3>2. p \in {m.walStart, m.commitLSN}
      BY <1>3, <2>1
    <3>3. A \cup {r[i].change : i \in 1..k} = A \cup ChangesOf(q) \cup {m.change}
      BY <3>1
    <3>4. QED
      BY <3>2, <3>3
  <2>2. CASE k \in 1..n
    <3>1. {r[i].change : i \in 1..k} = {q[i].change : i \in 1..k}
      BY <1>1, <1>2, <2>2
    <3>2. QED
      BY <1>1, <1>2, <2>2, <3>1 DEF QueueSafe
  <2>3. QED
    BY <1>1, <2>1, <2>2
<1>6. QED
  BY <1>4, <1>5 DEF QueueSafe, r

\* Taking the head: it is safe, and with it in the base the rest is.
LEMMA QueueTail ==
  ASSUME NEW w, NEW q \in Seq(Message(w)), q # <<>>, NEW A, QueueSafe(w, q, A)
  PROVE  /\ Covered(w, Head(q).walStart, A \cup {Head(q).change})
         /\ Covered(w, Head(q).commitLSN, A \cup {Head(q).change})
         /\ QueueSafe(w, Tail(q), A \cup {Head(q).change})
         /\ ChangesOf(q) = ChangesOf(Tail(q)) \cup {Head(q).change}
<1> DEFINE t == Tail(q)
           n == Len(q)
<1>1. n \in Nat \ {0} /\ DOMAIN q = 1..n /\ DOMAIN t = 1..(n - 1) /\ Head(q) = q[1]
  OBVIOUS
<1>2. \A i \in 1..(n - 1) : t[i] = q[i + 1]
  OBVIOUS
<1> HIDE DEF t, n
<1>3. ChangesOf(q) = ChangesOf(t) \cup {q[1].change}
  <2>1. ASSUME NEW i \in 1..n PROVE q[i].change \in ChangesOf(t) \cup {q[1].change}
    <3>1. CASE i = 1
      BY <3>1
    <3>2. CASE i # 1
      <4>1. i - 1 \in 1..(n - 1) /\ t[i - 1] = q[i]
        BY <1>1, <1>2, <3>2
      <4>2. QED
        BY <1>1, <4>1 DEF ChangesOf
    <3>3. QED
      BY <3>1, <3>2
  <2>2. ASSUME NEW i \in 1..(n - 1) PROVE t[i].change \in ChangesOf(q)
    <3>1. i + 1 \in 1..n
      BY <1>1
    <3>2. QED
      BY <1>1, <1>2, <3>1 DEF ChangesOf
  <2>3. q[1].change \in ChangesOf(q)
    BY <1>1 DEF ChangesOf
  <2>4. QED
    BY <1>1, <2>1, <2>2, <2>3 DEF ChangesOf
<1>4. Covered(w, q[1].walStart, A \cup {q[1].change})
      /\ Covered(w, q[1].commitLSN, A \cup {q[1].change})
  <2>1. {q[i].change : i \in 1..1} = {q[1].change}
    OBVIOUS
  <2>2. 1 \in DOMAIN q
    BY <1>1
  <2>3. \A p \in {q[1].walStart, q[1].commitLSN} :
          Covered(w, p, A \cup {q[i].change : i \in 1..1})
    BY <2>2 DEF QueueSafe
  <2>4. QED
    BY <2>1, <2>3
<1>5. ASSUME NEW k \in DOMAIN t, NEW p \in {t[k].walStart, t[k].commitLSN}
      PROVE  Covered(w, p, A \cup {q[1].change} \cup {t[i].change : i \in 1..k})
  <2>1. k + 1 \in DOMAIN q /\ t[k] = q[k + 1]
    BY <1>1, <1>2
  <2>2. Covered(w, p, A \cup {q[i].change : i \in 1..(k + 1)})
    BY <2>1 DEF QueueSafe
  <2>3. ASSUME NEW i \in 1..(k + 1)
        PROVE  q[i].change \in {q[1].change} \cup {t[j].change : j \in 1..k}
    <3>1. CASE i = 1
      BY <3>1
    <3>2. CASE i # 1
      <4>1. i - 1 \in 1..k /\ t[i - 1] = q[i]
        BY <1>1, <1>2, <3>2
      <4>2. QED
        BY <4>1
    <3>3. QED
      BY <3>1, <3>2
  <2>4. A \cup {q[i].change : i \in 1..(k + 1)} \subseteq
          A \cup {q[1].change} \cup {t[i].change : i \in 1..k}
    BY <2>3
  <2>5. QED
    BY <2>2, <2>4, CoveredMono
<1>6. QED
  BY <1>1, <1>3, <1>4, <1>5 DEF QueueSafe, t

\* Dropping the first k messages once they are in the base.
LEMMA QueueDrop ==
  ASSUME NEW w, NEW q \in Seq(Message(w)), NEW k \in 1..Len(q), NEW A,
         QueueSafe(w, q, A)
  PROVE  /\ Covered(w, q[k].walStart, A \cup {q[i].change : i \in 1..k})
         /\ Covered(w, q[k].commitLSN, A \cup {q[i].change : i \in 1..k})
         /\ QueueSafe(w, SubSeq(q, k + 1, Len(q)), A \cup {q[i].change : i \in 1..k})
         /\ ChangesOf(q) = ChangesOf(SubSeq(q, k + 1, Len(q)))
                             \cup {q[i].change : i \in 1..k}
<1> DEFINE D == {q[i].change : i \in 1..k}
           r == SubSeq(q, k + 1, Len(q))
           n == Len(q)
<1>1. n \in Nat /\ DOMAIN q = 1..n /\ DOMAIN r = 1..(n - k) /\ k \in 1..n
  OBVIOUS
<1>2. \A i \in 1..(n - k) : r[i] = q[i + k]
  OBVIOUS
<1>3. Covered(w, q[k].walStart, A \cup D) /\ Covered(w, q[k].commitLSN, A \cup D)
  BY <1>1 DEF QueueSafe
<1> HIDE DEF r, n
<1>4. ASSUME NEW i \in 1..n, i \notin 1..k
      PROVE  i - k \in 1..(n - k) /\ r[i - k] = q[i]
  <2>1. i \in Int /\ k \in Int /\ n \in Int /\ 1 <= i /\ i <= n
    BY <1>1
  <2>2. k < i
    BY <1>4, <2>1
  <2>3. i - k \in 1..(n - k) /\ (i - k) + k = i
    BY <2>1, <2>2
  <2>4. QED
    BY <1>2, <2>3
<1>5. ChangesOf(q) = ChangesOf(r) \cup D
  <2>1. ASSUME NEW i \in 1..n PROVE q[i].change \in ChangesOf(r) \cup D
    <3>1. CASE i \in 1..k
      BY <3>1
    <3>2. CASE i \notin 1..k
      BY <1>1, <1>4, <3>2 DEF ChangesOf
    <3>3. QED
      BY <3>1, <3>2
  <2>2. ASSUME NEW i \in 1..(n - k) PROVE r[i].change \in ChangesOf(q)
    <3>1. i + k \in 1..n
      BY <1>1
    <3>2. QED
      BY <1>1, <1>2, <3>1 DEF ChangesOf
  <2>3. D \subseteq ChangesOf(q)
    BY <1>1 DEF ChangesOf
  <2>4. QED
    BY <1>1, <2>1, <2>2, <2>3 DEF ChangesOf
<1>6. ASSUME NEW j \in DOMAIN r, NEW p \in {r[j].walStart, r[j].commitLSN}
      PROVE  Covered(w, p, A \cup D \cup {r[i].change : i \in 1..j})
  <2>1. j + k \in DOMAIN q /\ r[j] = q[j + k]
    BY <1>1, <1>2
  <2>2. Covered(w, p, A \cup {q[i].change : i \in 1..(j + k)})
    BY <2>1 DEF QueueSafe
  <2>3. ASSUME NEW i \in 1..(j + k)
        PROVE  q[i].change \in D \cup {r[l].change : l \in 1..j}
    <3>1. CASE i \in 1..k
      BY <3>1
    <3>2. CASE i \notin 1..k
      <4>1. i - k \in 1..j /\ r[i - k] = q[i]
        BY <1>1, <1>4, <2>1, <3>2
      <4>2. QED
        BY <4>1
    <3>3. QED
      BY <3>1, <3>2
  <2>4. A \cup {q[i].change : i \in 1..(j + k)} \subseteq
          A \cup D \cup {r[i].change : i \in 1..j}
    BY <2>3
  <2>5. QED
    BY <2>2, <2>4, CoveredMono
<1>7. QED
  BY <1>3, <1>5, <1>6 DEF QueueSafe, r, n

-----------------------------------------------------------------------------
(* The inductive invariant of delivery. *)

\* The initial states satisfy the invariant: the slot stands before the first
\* record and the snapshot holds what was committed below its LSN.
LEMMA InitDelivery == Init => DeliveryInv
<1> SUFFICES ASSUME Init PROVE DeliveryInv
  OBVIOUS
<1>1. TypeOK
  BY InitTypeOK
<1>2. QueuesSafe
  BY QueueEmpty DEF Init, QueuesSafe
<1>3. wal \in Seq(Record)
  BY WalFacts DEF Init
<1>4. Covered(wal, SnapshotLSN, processed)
  BY DEF Init, Covered, CommittedBelow
<1>5. Covered(wal, 0, processed) /\ Covered(wal, 1, processed)
  BY <1>3, CoveredZero
<1>6. PositionsCovered
  BY <1>4, <1>5 DEF Init, PositionsCovered
<1>7. FreshStream
  BY DEF Init, FreshStream
<1>8. QED
  BY <1>1, <1>2, <1>6, <1>7 DEF Init, DeliveryInv

\* A step that touches no queue keeps the queues safe.
LEMMA QueuesKept ==
  ASSUME QueuesSafe, UNCHANGED <<wal, processed, unacked, messageCH, outbox>>
  PROVE  QueuesSafe' /\ InPipeline' = InPipeline /\ InChannel' = InChannel
BY DEF QueuesSafe, InPipeline, InChannel, InHand

\* A step of the process goroutine or the server loses nothing of what the
\* walsender has sent.
LEMMA WalsenderKept ==
  ASSUME WalsenderInv, UNCHANGED <<wal, walsender, buffers>>,
         processed \subseteq processed', InPipeline \subseteq InPipeline'
  PROVE  WalsenderInv'
<1> USE DEF walsender, buffers
<1>1. Covered(wal, startAt, processed)' /\ Covered(wal, sndPos, InPipeline)'
  BY CoveredMono DEF WalsenderInv
<1>2. QED
  BY <1>1 DEF WalsenderInv, Buffered, Ended

\* Starting the walsender on fresh buffers establishes WalsenderInv.
LEMMA WalsenderStarts ==
  ASSUME TypeOK, PositionsCovered, NEW lsn \in {0, SnapshotLSN},
         startAt' = Larger(confirmedFlush, lsn), sndPos' = 1, sent' = {},
         mode' = "idle", todo' = {}, UNCHANGED <<wal, processed>>,
         pending' = NoMessage, txns' = EmptyTxns, streaming' = FALSE
  PROVE  WalsenderInv'
<1>1. wal \in Seq(Record)
  BY WalFacts DEF TypeOK, ServerTypes
<1>2. Covered(wal, lsn, processed)
  BY <1>1, CoveredZero DEF PositionsCovered
<1>3. Covered(wal', startAt', processed')
  BY <1>2, CoveredLarger DEF PositionsCovered
<1>4. Covered(wal', sndPos', InPipeline')
  BY <1>1, CoveredZero
<1>5. \A x \in Xids : DOMAIN txns'[x] = {}
  BY DEF EmptyTxns
<1>6. QED
  BY <1>3, <1>4, <1>5 DEF WalsenderInv

\* Acking up to the k-th message the listener holds.
LEMMA AckStep ==
  ASSUME DeliveryInv, Ack
  PROVE  DeliveryInv'
<1> USE DEF server, walsender, buffers, pipeline, replay, consumer, control
<1>1. PICK k \in 1..Len(unacked) : Ack!2!(k)
  BY DEF Ack
<1>2. UNCHANGED <<server, walsender, control, lastXLogPos, buffers, pipeline,
                  replay, delivered>>
  BY DEF Ack
<1> DEFINE D == {unacked[i].change : i \in 1..k}
<1>3. unacked \in Seq(Message(wal))
  BY DEF DeliveryInv, TypeOK, QueueTypes
<1>4. /\ Covered(wal, unacked[k].walStart, processed \cup D)
      /\ Covered(wal, unacked[k].commitLSN, processed \cup D)
      /\ QueueSafe(wal, SubSeq(unacked, k + 1, Len(unacked)), processed \cup D)
      /\ ChangesOf(unacked) = ChangesOf(SubSeq(unacked, k + 1, Len(unacked))) \cup D
  <2>1. QueueSafe(wal, unacked, processed)
    BY DEF DeliveryInv, QueuesSafe
  <2>2. QED
    BY <1>3, <2>1, QueueDrop
<1>5. processed' = processed \cup D
  BY <1>1
<1>6. unacked' = SubSeq(unacked, k + 1, Len(unacked))
  BY <1>1
<1>7. \/ confirmedXLogPos' = Larger(confirmedXLogPos, unacked[k].walStart)
      \/ confirmedXLogPos' = Larger(confirmedXLogPos, unacked[k].commitLSN)
  BY <1>1 DEF Confirm
<1> HIDE DEF D
<1>8. TypeOK'
  BY NextTypeOK DEF DeliveryInv, Next
<1>9. InHand' = InHand
  BY <1>4, <1>5, <1>6 DEF InHand
<1>10. InChannel' = InChannel /\ InPipeline' = InPipeline
  BY <1>2, <1>9 DEF InChannel, InPipeline
<1>11. QueuesSafe'
  BY <1>2, <1>4, <1>5, <1>6, <1>9, <1>10 DEF DeliveryInv, QueuesSafe
<1>12. PositionsCovered'
  <2>1. Covered(wal, confirmedXLogPos', processed')
    <3>1. Covered(wal, confirmedXLogPos, processed')
      BY <1>5, CoveredMono DEF DeliveryInv, PositionsCovered
    <3>2. QED
      BY <1>4, <1>5, <1>7, <3>1, CoveredLarger
  <2>2. QED
    BY <1>2, <1>5, <2>1, CoveredMono DEF DeliveryInv, PositionsCovered
<1>13. phase = "streaming" => WalsenderInv'
  BY <1>2, <1>5, <1>10, WalsenderKept DEF DeliveryInv
<1>14. QED
  BY <1>2, <1>8, <1>11, <1>12, <1>13 DEF DeliveryInv, Ack, FreshStream

\* The process goroutine hands the head of the channel to the listener.
LEMMA ProcessMessageStep ==
  ASSUME DeliveryInv, ProcessMessage
  PROVE  DeliveryInv'
<1> USE DEF server, walsender, buffers, pipeline, replay, consumer, control
<1> DEFINE m == Head(messageCH)
<1>1. /\ messageCH # <<>> /\ messageCH' = Tail(messageCH)
      /\ unacked' = Append(unacked, m)
      /\ UNCHANGED <<server, walsender, control, lastXLogPos, confirmedXLogPos,
                     buffers, outbox, replayFloor, processed>>
  BY DEF ProcessMessage, Take
<1>2. /\ messageCH \in Seq(Message(wal)) /\ unacked \in Seq(Message(wal))
      /\ m \in Message(wal)
  BY <1>1 DEF DeliveryInv, TypeOK, QueueTypes
<1>3. /\ Covered(wal, m.walStart, InHand \cup {m.change})
      /\ Covered(wal, m.commitLSN, InHand \cup {m.change})
      /\ QueueSafe(wal, Tail(messageCH), InHand \cup {m.change})
      /\ ChangesOf(messageCH) = ChangesOf(Tail(messageCH)) \cup {m.change}
  BY <1>1, <1>2, QueueTail DEF DeliveryInv, QueuesSafe
<1> HIDE DEF m
<1>4. /\ QueueSafe(wal, unacked', processed)
      /\ ChangesOf(unacked') = ChangesOf(unacked) \cup {m.change}
  <2>1. /\ Covered(wal, m.walStart, processed \cup ChangesOf(unacked) \cup {m.change})
        /\ Covered(wal, m.commitLSN, processed \cup ChangesOf(unacked) \cup {m.change})
    BY <1>3 DEF InHand
  <2>2. QueueSafe(wal, unacked, processed)
    BY DEF DeliveryInv, QueuesSafe
  <2>3. QED
    BY <1>1, <1>2, <2>1, <2>2, QueueAppend
<1>5. InHand' = InHand \cup {m.change}
  BY <1>1, <1>4 DEF InHand
<1>6. InChannel' = InChannel /\ InPipeline' = InPipeline
  BY <1>1, <1>3, <1>5 DEF InChannel, InPipeline
<1>7. QueuesSafe'
  BY <1>1, <1>3, <1>4, <1>5, <1>6 DEF DeliveryInv, QueuesSafe
<1>8. TypeOK'
  BY NextTypeOK DEF DeliveryInv, Next
<1>9. PositionsCovered'
  BY <1>1 DEF DeliveryInv, PositionsCovered
<1>10. phase = "streaming" => WalsenderInv'
  BY <1>1, <1>6, WalsenderKept DEF DeliveryInv
<1>11. QED
  BY <1>1, <1>7, <1>8, <1>9, <1>10 DEF DeliveryInv, ProcessMessage, Take, FreshStream

\* A heartbeat is acked at once: safe, because in a safe setting the listener
\* holds nothing when the process goroutine takes one.
LEMMA ProcessHeartbeatStep ==
  ASSUME SafeSetting, DeliveryInv, ProcessHeartbeat
  PROVE  DeliveryInv'
<1> USE DEF server, walsender, buffers, pipeline, replay, consumer, control
<1> DEFINE m == Head(messageCH)
<1>1. /\ messageCH # <<>> /\ messageCH' = Tail(messageCH)
      /\ confirmedXLogPos' = Larger(confirmedXLogPos, m.walStart)
      /\ processed' = processed \cup {m.change}
      /\ Len(unacked) < MaxUnacked
      /\ wal[m.change].kind = "heartbeat"
      /\ UNCHANGED <<server, walsender, control, lastXLogPos, buffers, outbox,
                     replay, unacked, delivered>>
  BY DEF ProcessHeartbeat, Take, Confirm, isHeartbeatMessage
<1>2. /\ messageCH \in Seq(Message(wal)) /\ unacked \in Seq(Message(wal))
      /\ m \in Message(wal) /\ wal \in Wals
  BY <1>1 DEF DeliveryInv, TypeOK, QueueTypes, ServerTypes
<1>3. /\ Covered(wal, m.walStart, InHand \cup {m.change})
      /\ QueueSafe(wal, Tail(messageCH), InHand \cup {m.change})
      /\ ChangesOf(messageCH) = ChangesOf(Tail(messageCH)) \cup {m.change}
  BY <1>1, <1>2, QueueTail DEF DeliveryInv, QueuesSafe
<1> HIDE DEF m
<1>4. m.change \in DOMAIN wal
  BY <1>2 DEF Message
<1>5. MaxUnacked = 1
  BY <1>1, <1>2, <1>4 DEF SafeSetting
<1>6. unacked = <<>>
  BY <1>1, <1>2, <1>5
<1>7. InHand = processed /\ InHand' = processed'
  BY <1>1, <1>6, QueueEmpty DEF InHand
<1>8. InChannel' = InChannel /\ InPipeline' = InPipeline
  BY <1>1, <1>3, <1>7 DEF InChannel, InPipeline
<1>9. QueuesSafe'
  <2>1. QueueSafe(wal, unacked', processed')
    BY <1>1, <1>6, QueueEmpty
  <2>2. QED
    BY <2>1, <1>1, <1>3, <1>7, <1>8 DEF DeliveryInv, QueuesSafe
<1>10. TypeOK'
  BY NextTypeOK DEF DeliveryInv, Next
<1>11. PositionsCovered'
  <2>1. Covered(wal, confirmedXLogPos, processed')
    BY <1>1, CoveredMono DEF DeliveryInv, PositionsCovered
  <2>2. Covered(wal, confirmedXLogPos', processed')
    BY <1>1, <1>3, <1>7, <2>1, CoveredLarger
  <2>3. QED
    BY <1>1, <2>2, CoveredMono DEF DeliveryInv, PositionsCovered
<1>12. phase = "streaming" => WalsenderInv'
  BY <1>1, <1>8, WalsenderKept DEF DeliveryInv
<1>13. QED
  BY <1>1, <1>9, <1>10, <1>11, <1>12
  DEF DeliveryInv, ProcessHeartbeat, Take, FreshStream

\* The blocked send completes.
LEMMA SendMessageStep ==
  ASSUME DeliveryInv, SendMessage
  PROVE  DeliveryInv'
<1> USE DEF server, walsender, buffers, pipeline, replay, consumer, control
<1> DEFINE m == Head(outbox)
<1>1. /\ outbox # <<>> /\ outbox' = Tail(outbox)
      /\ messageCH' = Append(messageCH, m)
      /\ UNCHANGED <<server, walsender, control, lastXLogPos, confirmedXLogPos,
                     buffers, replay, consumer>>
  BY DEF SendMessage
<1>2. /\ messageCH \in Seq(Message(wal)) /\ outbox \in Seq(Message(wal))
      /\ m \in Message(wal)
  BY <1>1 DEF DeliveryInv, TypeOK, QueueTypes
<1>3. /\ Covered(wal, m.walStart, InChannel \cup {m.change})
      /\ Covered(wal, m.commitLSN, InChannel \cup {m.change})
      /\ QueueSafe(wal, Tail(outbox), InChannel \cup {m.change})
      /\ ChangesOf(outbox) = ChangesOf(Tail(outbox)) \cup {m.change}
  BY <1>1, <1>2, QueueTail DEF DeliveryInv, QueuesSafe
<1> HIDE DEF m
<1>4. /\ QueueSafe(wal, messageCH', InHand)
      /\ ChangesOf(messageCH') = ChangesOf(messageCH) \cup {m.change}
  <2>1. /\ Covered(wal, m.walStart, InHand \cup ChangesOf(messageCH) \cup {m.change})
        /\ Covered(wal, m.commitLSN, InHand \cup ChangesOf(messageCH) \cup {m.change})
    BY <1>3 DEF InChannel
  <2>2. QueueSafe(wal, messageCH, InHand)
    BY DEF DeliveryInv, QueuesSafe
  <2>3. QED
    BY <1>1, <1>2, <2>1, <2>2, QueueAppend
<1>5. InHand' = InHand /\ InChannel' = InChannel \cup {m.change}
  BY <1>1, <1>4 DEF InHand, InChannel
<1>6. InPipeline' = InPipeline
  BY <1>1, <1>3, <1>5 DEF InPipeline
<1>7. QueuesSafe'
  BY <1>1, <1>3, <1>4, <1>5 DEF DeliveryInv, QueuesSafe
<1>8. TypeOK'
  BY NextTypeOK DEF DeliveryInv, Next, Sink
<1>9. PositionsCovered'
  BY <1>1 DEF DeliveryInv, PositionsCovered
<1>10. phase = "streaming" => WalsenderInv'
  BY <1>1, <1>6, WalsenderKept DEF DeliveryInv
<1>11. QED
  BY <1>1, <1>7, <1>8, <1>9, <1>10 DEF DeliveryInv, SendMessage, FreshStream

\* What is buffered stays so when the walsender passes a record.
LEMMA BuffersAdvance ==
  ASSUME TypeOK, WalsenderInv, NEW x \in Xids
  PROVE  /\ \A i \in DOMAIN txns[x] : /\ Buffered(txns[x][i], x, sndPos + 1)
                                      /\ txns[x][i].commitLSN = 0
         /\ ~Ended(x, sndPos + 1) =>
              \A l \in sent : wal[l].xid = x => l \in ChangesOf(txns[x])
<1>1. DOMAIN wal \subseteq Nat /\ sndPos \in Nat
  BY WalFacts DEF TypeOK, ServerTypes
<1>2. txns[x] \in Seq(Message(wal))
  BY DEF TypeOK, BufferTypes
<1>3. \A i \in DOMAIN txns[x] : txns[x][i] \in Message(wal)
  BY <1>2
<1>4. \A i \in DOMAIN txns[x] : txns[x][i].change \in Nat
  BY <1>1, <1>3 DEF Message
<1>5. ~Ended(x, sndPos + 1) => ~Ended(x, sndPos)
  BY <1>1 DEF Ended
<1>6. QED
  BY <1>1, <1>4, <1>5 DEF WalsenderInv, Buffered

\* The walsender passes a record that sends nothing: nothing committed there
\* is missing, or the record is below the start position.
LEMMA DecodeSilentlyStep ==
  ASSUME DeliveryInv, DecodeSilently
  PROVE  DeliveryInv'
<1> USE DEF server, walsender, buffers, pipeline, replay, consumer, control
<1>1. /\ phase = "streaming" /\ mode = "idle" /\ sndPos \in DOMAIN wal
      /\ sndPos' = sndPos + 1
      /\ wal[sndPos].type = "commit" => sndPos < startAt
      /\ UNCHANGED <<server, startAt, sent, mode, cur, todo, control, lastXLogPos,
                     confirmedXLogPos, buffers, pipeline, replay, consumer>>
  BY DEF DecodeSilently, AtRecord
<1>2. wal \in Seq(Record) /\ sndPos \in Nat /\ WalsenderInv /\ txns \in [Xids -> Seq(Message(wal))]
  BY <1>1, WalFacts DEF DeliveryInv, TypeOK, ServerTypes, BufferTypes
<1>3. QueuesSafe' /\ InPipeline' = InPipeline
  BY <1>1, QueuesKept DEF DeliveryInv
<1>4. PositionsCovered'
  BY <1>1 DEF DeliveryInv, PositionsCovered
<1>5. TypeOK'
  BY NextTypeOK DEF DeliveryInv, Next
<1>6. sndPos \in Commits(wal) => Changes(wal, sndPos) \subseteq InPipeline
  BY <1>1, <1>2 DEF WalsenderInv, Covered, Commits, InPipeline, InChannel, InHand
<1>7. Covered(wal', sndPos', InPipeline')
  BY <1>1, <1>2, <1>3, <1>6, CoveredStep DEF WalsenderInv
<1>8. ASSUME NEW x \in Xids
      PROVE  /\ \A i \in DOMAIN txns[x] : /\ Buffered(txns[x][i], x, sndPos + 1)
                                          /\ txns[x][i].commitLSN = 0
             /\ ~Ended(x, sndPos + 1) =>
                  \A l \in sent : wal[l].xid = x => l \in ChangesOf(txns[x])
  BY <1>2, BuffersAdvance DEF DeliveryInv
<1>9. WalsenderInv'
  BY <1>1, <1>2, <1>7, <1>8 DEF WalsenderInv, Buffered, Ended
<1>10. QED
  BY <1>1, <1>3, <1>4, <1>5, <1>9 DEF DeliveryInv

\* BEGIN: the whole transaction is still to be sent.
LEMMA SinkBeginStep ==
  ASSUME DeliveryInv, SinkBegin
  PROVE  DeliveryInv'
<1> USE DEF server, walsender, buffers, pipeline, replay, consumer, control
<1>1. /\ phase = "streaming" /\ mode = "idle" /\ sndPos \in Commits(wal)
      /\ mode' = "txn" /\ todo' = Changes(wal, sndPos)
      /\ txCommit'.lsn = sndPos /\ pending' = NoMessage
      /\ UNCHANGED <<server, startAt, sndPos, sent, control, confirmedXLogPos,
                     txns, activeXid, streaming, pipeline, replay, consumer>>
  BY DEF SinkBegin, AtRecord, Receive, Commits
<1>2. WalsenderInv
  BY <1>1 DEF DeliveryInv
<1>3. QueuesSafe' /\ InPipeline' = InPipeline
  BY <1>1, QueuesKept DEF DeliveryInv
<1>4. PositionsCovered'
  BY <1>1 DEF DeliveryInv, PositionsCovered
<1>5. TypeOK'
  BY NextTypeOK DEF DeliveryInv, Next, Sink
<1>6. WalsenderInv'
  BY <1>1, <1>2, <1>3 DEF WalsenderInv, Buffered, Ended
<1>7. QED
  BY <1>1, <1>3, <1>4, <1>5, <1>6 DEF DeliveryInv

\* An outbox of one safe message.
LEMMA OutboxOne ==
  ASSUME NEW w, NEW m \in Message(w), NEW A,
         Covered(w, m.walStart, A \cup {m.change}),
         Covered(w, m.commitLSN, A \cup {m.change})
  PROVE  QueueSafe(w, <<m>>, A) /\ ChangesOf(<<m>>) = {m.change}
<1>1. <<>> \in Seq(Message(w)) /\ Append(<<>>, m) = <<m>>
  OBVIOUS
<1>2. QueueSafe(w, <<>>, A) /\ ChangesOf(<<>>) = {}
  BY QueueEmpty
<1>3. A \cup ChangesOf(<<>>) \cup {m.change} = A \cup {m.change}
  BY <1>2
<1>4. QueueSafe(w, Append(<<>>, m), A)
      /\ ChangesOf(Append(<<>>, m)) = ChangesOf(<<>>) \cup {m.change}
  BY ZenonT(60), <1>1, <1>2, <1>3, QueueAppend
<1>5. QED
  BY <1>1, <1>2, <1>4

\* COMMIT: the pending message goes out with the transaction-end position, and
\* with it the transaction is whole.
LEMMA SinkCommitStep ==
  ASSUME DeliveryInv, SinkCommit
  PROVE  DeliveryInv'
<1> USE DEF server, walsender, buffers, pipeline, replay, consumer, control
<1>1. /\ phase = "streaming" /\ mode = "txn" /\ todo = {} /\ outbox = <<>>
      /\ mode' = "idle" /\ sndPos' = sndPos + 1 /\ pending' = NoMessage
      /\ outbox' = IF pending = NoMessage THEN <<>>
                   ELSE <<AsLast(pending, EndLSN(sndPos))>>
      /\ UNCHANGED <<server, startAt, sent, todo, control, confirmedXLogPos,
                     txCommit, txns, activeXid, streaming, messageCH, replay,
                     consumer>>
  BY DEF SinkCommit, Receive
<1>2. /\ wal \in Seq(Record) /\ sndPos \in Nat /\ WalsenderInv
      /\ txns \in [Xids -> Seq(Message(wal))]
      /\ pending \in Message(wal) \cup {NoMessage}
  BY <1>1, WalFacts DEF DeliveryInv, TypeOK, ServerTypes, BufferTypes
<1>3. InHand' = InHand /\ InChannel' = InChannel
  BY <1>1 DEF InHand, InChannel
<1>4. InPipeline = InChannel
  BY <1>1, QueueEmpty DEF InPipeline
<1>5. /\ QueueSafe(wal, outbox', InChannel)
      /\ Changes(wal, sndPos) \subseteq InPipeline'
      /\ InPipeline \subseteq InPipeline'
  <2>1. Changes(wal, sndPos) \subseteq InChannel \cup {pending.change}
    BY <1>1, <1>2, <1>4 DEF WalsenderInv
  <2>2. CASE pending = NoMessage
    <3>1. 0 \notin Changes(wal, sndPos)
      BY <1>2 DEF Changes, ChangesBefore
    <3>2. Changes(wal, sndPos) \subseteq InChannel
      BY <2>1, <2>2, <3>1 DEF NoMessage
    <3>3. QED
      BY <1>1, <1>3, <1>4, <2>2, <3>2, QueueEmpty DEF InPipeline
  <2>3. CASE pending # NoMessage
    <3> DEFINE m == AsLast(pending, EndLSN(sndPos))
    <3>1. pending \in Message(wal) /\ EndLSN(sndPos) = sndPos + 1 /\ sndPos + 1 \in Nat
      BY <1>2, <2>3 DEF EndLSN
    <3>2. /\ m \in Message(wal) /\ m.change = pending.change
          /\ m.walStart = sndPos + 1 /\ m.commitLSN = pending.commitLSN
      BY <3>1, AsLastFacts
    <3> HIDE DEF m
    <3>3. Covered(wal, sndPos, InChannel \cup {m.change})
      BY <1>2, <1>4, CoveredMono DEF WalsenderInv
    <3>4. Covered(wal, sndPos + 1, InChannel \cup {m.change})
      BY <1>2, <2>1, <3>2, <3>3, CoveredStep
    <3>5. m.commitLSN \in {0, sndPos}
      BY <1>1, <1>2, <2>3, <3>2 DEF WalsenderInv
    <3>6. Covered(wal, m.commitLSN, InChannel \cup {m.change})
      BY <1>2, <3>3, <3>5, CoveredZero
    <3>7. QueueSafe(wal, <<m>>, InChannel) /\ ChangesOf(<<m>>) = {m.change}
      BY <3>2, <3>4, <3>6, OutboxOne
    <3>8. outbox' = <<m>>
      BY <1>1, <2>3 DEF m
    <3>9. InPipeline' = InChannel \cup {m.change}
      BY <1>3, <3>7, <3>8 DEF InPipeline
    <3>10. QED
      BY <1>4, <2>1, <3>2, <3>7, <3>8, <3>9
  <2>4. QED
    BY <2>2, <2>3
<1>6. QueuesSafe'
  BY <1>1, <1>3, <1>5 DEF DeliveryInv, QueuesSafe
<1>7. PositionsCovered'
  BY <1>1 DEF DeliveryInv, PositionsCovered
<1>8. TypeOK'
  BY NextTypeOK DEF DeliveryInv, Next, Sink
<1>9. Covered(wal', sndPos', InPipeline')
  <2>1. Covered(wal, sndPos, InPipeline')
    BY <1>2, <1>5, CoveredMono DEF WalsenderInv
  <2>2. QED
    BY <1>1, <1>2, <1>5, <2>1, CoveredStep
<1>10. ASSUME NEW x \in Xids
       PROVE  /\ \A i \in DOMAIN txns[x] : /\ Buffered(txns[x][i], x, sndPos + 1)
                                           /\ txns[x][i].commitLSN = 0
              /\ ~Ended(x, sndPos + 1) =>
                   \A l \in sent : wal[l].xid = x => l \in ChangesOf(txns[x])
  BY <1>2, BuffersAdvance DEF DeliveryInv
<1>11. WalsenderInv'
  BY <1>1, <1>2, <1>9, <1>10 DEF WalsenderInv, Buffered, Ended
<1>12. QED
  BY <1>1, <1>6, <1>7, <1>8, <1>11 DEF DeliveryInv

\* A change outside a chunk: the one held back goes out with its own position,
\* which lies below the commit being decoded, and the new one is held back.
LEMMA SinkChangeTxnStep ==
  ASSUME DeliveryInv, SinkChange, mode # "chunk"
  PROVE  DeliveryInv'
<1> USE DEF server, walsender, buffers, pipeline, replay, consumer, control
<1>1. PICK l \in todo : SinkChange!(l)
  BY DEF SinkChange
<1>2. phase = "streaming" /\ outbox = <<>>
  BY <1>1 DEF Receive
<1>3. /\ wal \in Seq(Record) /\ sndPos \in Nat /\ WalsenderInv /\ TypeOK
      /\ pending \in Message(wal) \cup {NoMessage}
      /\ mode \in {"idle", "txn", "chunk"} /\ DOMAIN wal \subseteq Nat \ {0}
  BY <1>2, WalFacts DEF DeliveryInv, TypeOK, ServerTypes, BufferTypes
<1>4. mode = "txn" /\ ~streaming
  BY <1>3 DEF WalsenderInv
<1> DEFINE m == [NoMessage EXCEPT !.change = l, !.walStart = l]
           sm == stampCommit(m, txCommit.lsn, txCommit.xid)
<1>5. /\ outbox' = IF pending = NoMessage THEN <<>> ELSE <<pending>>
      /\ pending' = sm /\ txns' = txns /\ todo' = todo \ {l} /\ sent' = sent
      /\ UNCHANGED <<server, startAt, sndPos, mode, cur, control,
                     confirmedXLogPos, txCommit, activeXid, streaming,
                     messageCH, replay, consumer>>
  BY <1>1, <1>4 DEF BufferMessage
<1>6. l \in Changes(wal, sndPos) /\ l \in DOMAIN wal /\ l \in Nat
  BY <1>3, <1>4 DEF WalsenderInv, Changes, ChangesBefore
<1>7. /\ m \in Message(wal) /\ m.change = l /\ m.walStart = l /\ m.commitLSN = 0
  BY <1>6 DEF Message, NoMessage
<1>8. txCommit.lsn = sndPos /\ txCommit.lsn \in Nat /\ txCommit.xid \in Xids \cup {0}
  BY <1>3, <1>4 DEF WalsenderInv, TypeOK, BufferTypes
<1>9. /\ sm.change = l /\ sm.walStart = l /\ sm.commitLSN \in {0, sndPos}
  BY ZenonT(60), <1>7, <1>8, StampFacts
<1> HIDE DEF m, sm
<1>10. Buffered(sm, wal[sndPos].xid, sndPos)
  BY <1>6, <1>9 DEF Buffered, Changes, ChangesBefore
<1>11. InHand' = InHand /\ InChannel' = InChannel
  BY <1>5 DEF InHand, InChannel
<1>12. InPipeline = InChannel
  BY <1>2, QueueEmpty DEF InPipeline
<1>13. /\ QueueSafe(wal, outbox', InChannel)
       /\ InPipeline \subseteq InPipeline'
       /\ pending # NoMessage => pending.change \in InPipeline'
  <2>1. CASE pending = NoMessage
    BY <1>5, <1>11, <1>12, <2>1, QueueEmpty DEF InPipeline
  <2>2. CASE pending # NoMessage
    <3>1. pending \in Message(wal)
      BY <1>3, <2>2
    <3>2. /\ pending.change \in Nat /\ pending.change < sndPos
          /\ pending.walStart = pending.change /\ pending.commitLSN \in {0, sndPos}
      BY <1>3, <1>4, <2>2, <3>1 DEF WalsenderInv, Buffered, Message
    <3>3. Covered(wal, sndPos, InChannel \cup {pending.change})
      BY <1>3, <1>12, CoveredMono DEF WalsenderInv
    <3>4. Covered(wal, pending.walStart, InChannel \cup {pending.change})
      BY <1>3, <3>2, <3>3, CoveredBelow
    <3>5. Covered(wal, pending.commitLSN, InChannel \cup {pending.change})
      BY <1>3, <3>2, <3>3, CoveredZero
    <3>6. QueueSafe(wal, <<pending>>, InChannel)
          /\ ChangesOf(<<pending>>) = {pending.change}
      BY <3>1, <3>4, <3>5, OutboxOne
    <3>7. outbox' = <<pending>>
      BY <1>5, <2>2
    <3>8. QED
      BY <1>11, <1>12, <3>6, <3>7 DEF InPipeline
  <2>3. QED
    BY <2>1, <2>2
<1>14. QueuesSafe'
  BY <1>5, <1>11, <1>13 DEF DeliveryInv, QueuesSafe
<1>15. PositionsCovered'
  BY <1>5 DEF DeliveryInv, PositionsCovered
<1>16. TypeOK'
  BY NextTypeOK DEF DeliveryInv, Next, Sink
<1>17. Covered(wal', sndPos', InPipeline')
  BY <1>3, <1>5, <1>13, CoveredMono DEF WalsenderInv
<1>18. Changes(wal, sndPos) \subseteq InPipeline' \cup {sm.change} \cup todo'
  <2>1. Changes(wal, sndPos) \subseteq InPipeline \cup {pending.change} \cup todo
    BY <1>3, <1>4 DEF WalsenderInv
  <2>2. pending = NoMessage => pending.change \notin Changes(wal, sndPos)
    BY <1>3 DEF NoMessage, Changes, ChangesBefore
  <2>3. QED
    BY <1>5, <1>9, <1>13, <2>1, <2>2
<1>19. WalsenderInv'
  <2>1. todo' \subseteq Changes(wal, sndPos)
    BY <1>3, <1>4, <1>5 DEF WalsenderInv
  <2>2. (mode = "txn" =>
           /\ sndPos \in Commits(wal)
           /\ txCommit.lsn = sndPos
           /\ todo \subseteq Changes(wal, sndPos)
           /\ Changes(wal, sndPos) \subseteq InPipeline \cup {pending.change} \cup todo
           /\ pending # NoMessage =>
                /\ Buffered(pending, wal[sndPos].xid, sndPos)
                /\ pending.commitLSN \in {0, sndPos})'
    BY <1>3, <1>4, <1>5, <1>9, <1>10, <1>18, <2>1 DEF WalsenderInv, Buffered
  <2>3. QED
    BY <1>3, <1>4, <1>5, <1>17, <2>2 DEF WalsenderInv, Buffered, Ended
<1>20. QED
  BY <1>2, <1>5, <1>14, <1>15, <1>16, <1>19 DEF DeliveryInv

\* A change inside a chunk is appended to its transaction's buffer.
LEMMA SinkChangeChunkStep ==
  ASSUME DeliveryInv, SinkChange, mode = "chunk"
  PROVE  DeliveryInv'
<1> USE DEF server, walsender, buffers, pipeline, replay, consumer, control
<1>1. PICK l \in todo : SinkChange!(l)
  BY DEF SinkChange
<1>2. phase = "streaming" /\ outbox = <<>>
  BY <1>1 DEF Receive
<1>3. WalsenderInv /\ streaming /\ activeXid \in Xids
  BY <1>2 DEF DeliveryInv, WalsenderInv
<1> DEFINE m == [NoMessage EXCEPT !.change = l, !.walStart = l]
           q == txns[activeXid]
<1>4. /\ txns' = [txns EXCEPT ![activeXid] = Append(@, m)]
      /\ todo' = todo \ {l} /\ sent' = sent \cup {l}
      /\ UNCHANGED <<server, startAt, sndPos, mode, cur, control, outbox, pending,
                     confirmedXLogPos, txCommit, activeXid, streaming,
                     messageCH, replay, consumer>>
  BY <1>1, <1>3 DEF AppendMessage
<1>5. l \in ChangesBefore(wal, activeXid, sndPos)
  BY <1>3 DEF WalsenderInv
<1>6. /\ m.change = l /\ m.walStart = l /\ m.commitLSN = 0
  BY DEF NoMessage
<1>7. Buffered(m, activeXid, sndPos)
  BY <1>5, <1>6 DEF Buffered, ChangesBefore
<1> HIDE DEF m
<1>8. txns \in [Xids -> Seq(Message(wal))] /\ q \in Seq(Message(wal))
  BY <1>3 DEF DeliveryInv, TypeOK, BufferTypes
<1>9. /\ txns'[activeXid] = Append(q, m)
      /\ \A x \in Xids \ {activeXid} : txns'[x] = txns[x]
  BY <1>3, <1>4, <1>8
<1> HIDE DEF q
<1>10. /\ DOMAIN Append(q, m) = 1..(Len(q) + 1) /\ DOMAIN q = 1..Len(q)
       /\ Len(q) \in Nat
       /\ \A i \in 1..Len(q) : Append(q, m)[i] = q[i]
       /\ Append(q, m)[Len(q) + 1] = m
  BY <1>8
<1>11. ChangesOf(Append(q, m)) = ChangesOf(q) \cup {l}
  BY <1>6, <1>10 DEF ChangesOf
<1>12. \A i \in DOMAIN Append(q, m) : /\ Buffered(Append(q, m)[i], activeXid, sndPos)
                                      /\ Append(q, m)[i].commitLSN = 0
  <2>1. \A i \in DOMAIN q : Buffered(q[i], activeXid, sndPos) /\ q[i].commitLSN = 0
    BY <1>3 DEF WalsenderInv, q
  <2>2. QED
    BY <1>6, <1>7, <1>10, <2>1
<1>13. QueuesSafe' /\ InPipeline' = InPipeline
  BY <1>4, QueuesKept DEF DeliveryInv
<1>14. PositionsCovered'
  BY <1>4 DEF DeliveryInv, PositionsCovered
<1>15. TypeOK'
  BY NextTypeOK DEF DeliveryInv, Next, Sink
<1>16. ASSUME NEW x \in Xids
       PROVE  (/\ \A i \in DOMAIN txns[x] : /\ Buffered(txns[x][i], x, sndPos)
                                            /\ txns[x][i].commitLSN = 0
               /\ ~Ended(x, sndPos) =>
                    \A k \in sent : wal[k].xid = x => k \in ChangesOf(txns[x]))'
  <2>1. CASE x = activeXid
    <3>1. ~Ended(x, sndPos) => \A k \in sent : wal[k].xid = x => k \in ChangesOf(q)
      BY <1>3, <2>1 DEF WalsenderInv, q
    <3>2. ~Ended(x, sndPos)' =>
            \A k \in sent' : wal[k].xid = x => k \in ChangesOf(txns'[x])
      BY <1>4, <1>9, <1>11, <2>1, <3>1 DEF Ended
    <3>3. \A i \in DOMAIN txns'[x] : /\ Buffered(txns'[x][i], x, sndPos)
                                     /\ txns'[x][i].commitLSN = 0
      BY <1>9, <1>12, <2>1
    <3>4. QED
      BY <1>4, <3>2, <3>3 DEF Buffered
  <2>2. CASE x # activeXid
    <3>1. txns'[x] = txns[x]
      BY <1>9, <2>2
    <3>2. wal[l].xid # x
      BY <1>5, <2>2 DEF ChangesBefore
    <3>3. \A i \in DOMAIN txns'[x] : /\ Buffered(txns'[x][i], x, sndPos)
                                     /\ txns'[x][i].commitLSN = 0
      BY <1>3, <3>1 DEF WalsenderInv
    <3>4. ~Ended(x, sndPos) => \A k \in sent : wal[k].xid = x => k \in ChangesOf(txns[x])
      BY <1>3 DEF WalsenderInv
    <3>5. ~Ended(x, sndPos)' =>
            \A k \in sent' : wal[k].xid = x => k \in ChangesOf(txns'[x])
      BY <1>4, <3>1, <3>2, <3>4 DEF Ended
    <3>6. QED
      BY <1>4, <3>3, <3>5 DEF Buffered
  <2>3. QED
    BY <2>1, <2>2
<1>17. todo' \subseteq ChangesBefore(wal, activeXid, sndPos)
  BY <1>3, <1>4 DEF WalsenderInv
<1>18. WalsenderInv'
  BY <1>3, <1>4, <1>13, <1>16, <1>17 DEF WalsenderInv
<1>19. QED
  BY <1>2, <1>4, <1>13, <1>14, <1>15, <1>18 DEF DeliveryInv

\* STREAM START opens a chunk and moves no message.
LEMMA SinkStreamStartStep ==
  ASSUME DeliveryInv, SinkStreamStart
  PROVE  DeliveryInv'
<1> USE DEF server, walsender, buffers, pipeline, replay, consumer, control
<1>1. /\ phase = "streaming" /\ mode = "idle" /\ Streaming
      /\ mode' = "chunk" /\ streaming' = TRUE
      /\ UNCHANGED <<server, startAt, sndPos, sent, control, confirmedXLogPos,
                     txCommit, pending, txns, pipeline, replay, consumer>>
  BY DEF SinkStreamStart, Receive
<1>2. PICK x \in Xids : activeXid' = x /\ todo' = ChangesBefore(wal, x, sndPos) \ sent
  BY DEF SinkStreamStart
<1>3. WalsenderInv
  BY <1>1 DEF DeliveryInv
<1>4. QueuesSafe' /\ InPipeline' = InPipeline
  BY <1>1, QueuesKept DEF DeliveryInv
<1>5. PositionsCovered'
  BY <1>1 DEF DeliveryInv, PositionsCovered
<1>6. TypeOK'
  BY NextTypeOK DEF DeliveryInv, Next, Sink
<1>7. todo' \subseteq ChangesBefore(wal, activeXid', sndPos) /\ activeXid' \in Xids
  BY <1>2
<1>8. WalsenderInv'
  BY ZenonT(60), <1>1, <1>3, <1>4, <1>7 DEF WalsenderInv, Buffered, Ended
<1>9. QED
  BY <1>1, <1>4, <1>5, <1>6, <1>8 DEF DeliveryInv

\* STREAM STOP closes the chunk and moves no message.
LEMMA SinkStreamStopStep ==
  ASSUME DeliveryInv, SinkStreamStop
  PROVE  DeliveryInv'
<1> USE DEF server, walsender, buffers, pipeline, replay, consumer, control
<1>1. /\ phase = "streaming" /\ mode = "chunk" /\ todo = {}
      /\ mode' = "idle" /\ streaming' = FALSE
      /\ UNCHANGED <<server, startAt, sndPos, sent, todo, control,
                     confirmedXLogPos, txCommit, pending, txns, activeXid,
                     pipeline, replay, consumer>>
  BY DEF SinkStreamStop, Receive
<1>2. WalsenderInv
  BY <1>1 DEF DeliveryInv
<1>3. QueuesSafe' /\ InPipeline' = InPipeline
  BY <1>1, QueuesKept DEF DeliveryInv
<1>4. PositionsCovered'
  BY <1>1 DEF DeliveryInv, PositionsCovered
<1>5. TypeOK'
  BY NextTypeOK DEF DeliveryInv, Next, Sink
<1>6. WalsenderInv'
  BY ZenonT(60), <1>1, <1>2, <1>3 DEF WalsenderInv, Buffered, Ended
<1>7. QED
  BY <1>1, <1>3, <1>4, <1>5, <1>6 DEF DeliveryInv

\* STREAM COMMIT: the transaction's buffer goes out whole; all but the last
\* message have positions below the commit, the last one its end.
LEMMA SinkStreamCommitStep ==
  ASSUME DeliveryInv, SinkStreamCommit
  PROVE  DeliveryInv'
<1> USE DEF server, walsender, buffers, pipeline, replay, consumer, control
<1> DEFINE y == wal[sndPos].xid
           F == FlushTx(y, sndPos)
           q == txns[y]
<1>1. /\ phase = "streaming" /\ mode = "idle" /\ outbox = <<>>
      /\ sndPos \in Commits(wal) /\ sndPos \in DOMAIN wal
      /\ Changes(wal, sndPos) \subseteq sent
      /\ sndPos' = sndPos + 1 /\ streaming' = FALSE
      /\ outbox' = F
      /\ txns' = [txns EXCEPT ![y] = <<>>]
      /\ UNCHANGED <<server, startAt, sent, mode, cur, todo, control,
                     confirmedXLogPos, txCommit, pending, activeXid, messageCH,
                     replay, consumer>>
  BY DEF SinkStreamCommit, AtRecord, Receive, Commits
<1>2. /\ wal \in Seq(Record) /\ WellFormed(wal) /\ sndPos \in Nat /\ WalsenderInv
      /\ txns \in [Xids -> Seq(Message(wal))] /\ y \in Xids /\ TypeOK
      /\ DOMAIN wal \subseteq Nat
  BY <1>1, WalFacts DEF DeliveryInv, TypeOK, ServerTypes, BufferTypes
<1>3. q \in Seq(Message(wal))
  BY <1>2
<1>4. /\ DOMAIN F = DOMAIN q
      /\ \A i \in DOMAIN q :
           /\ F[i].change = q[i].change
           /\ F[i].commitLSN \in {q[i].commitLSN, sndPos}
           /\ F[i].walStart = IF i = Len(q) THEN sndPos + 1 ELSE q[i].walStart
  BY <1>2, <1>3, FlushFacts
<1>5. txns'[y] = <<>> /\ \A x \in Xids \ {y} : txns'[x] = txns[x]
  BY <1>1, <1>2
<1>6. ~Ended(y, sndPos)
  BY <1>1, <1>2 DEF Ended, WellFormed, Commits
<1>7. Changes(wal, sndPos) \subseteq ChangesOf(q)
  BY <1>1, <1>2, <1>6 DEF WalsenderInv, Changes, ChangesBefore
<1>8. \A i \in DOMAIN q : Buffered(q[i], y, sndPos) /\ q[i].commitLSN = 0
  BY <1>2 DEF WalsenderInv
<1> HIDE DEF F, q, y
<1>9. ChangesOf(F) = ChangesOf(q)
  BY <1>4 DEF ChangesOf
<1>10. InHand' = InHand /\ InChannel' = InChannel
  BY <1>1 DEF InHand, InChannel
<1>11. InPipeline = InChannel
  BY <1>1, QueueEmpty DEF InPipeline
<1>12. InPipeline' = InChannel \cup ChangesOf(q)
  BY <1>1, <1>9, <1>10 DEF InPipeline
<1>13. Covered(wal, sndPos, InChannel)
  BY <1>2, <1>11 DEF WalsenderInv
<1>14. Covered(wal, sndPos + 1, InChannel \cup ChangesOf(q))
  <2>1. Covered(wal, sndPos, InChannel \cup ChangesOf(q))
    BY <1>13, CoveredMono
  <2>2. QED
    BY <1>2, <1>7, <2>1, CoveredStep
<1>15. QueueSafe(wal, F, InChannel)
  <2> SUFFICES ASSUME NEW k \in DOMAIN F, NEW p \in {F[k].walStart, F[k].commitLSN}
               PROVE  Covered(wal, p, InChannel \cup {F[i].change : i \in 1..k})
    BY DEF QueueSafe
  <2> DEFINE D == {F[i].change : i \in 1..k}
  <2>1. k \in DOMAIN q /\ DOMAIN q = 1..Len(q) /\ q[k] \in Message(wal)
    BY <1>3, <1>4
  <2>2. q[k].change \in Nat /\ q[k].change < sndPos /\ q[k].walStart = q[k].change
        /\ q[k].commitLSN = 0
    BY <1>2, <1>8, <2>1 DEF Buffered, Message
  <2>3. p \in {0, sndPos, q[k].change} \/ (k = Len(q) /\ p = sndPos + 1)
    BY <1>4, <2>1, <2>2
  <2>4. CASE k = Len(q) /\ p = sndPos + 1
    <3>1. D = ChangesOf(F)
      BY <1>4, <2>1, <2>4 DEF ChangesOf
    <3> HIDE DEF D
    <3>2. Covered(wal, p, InChannel \cup D)
      BY <1>9, <1>14, <2>4, <3>1
    <3>3. QED
      BY <3>2 DEF D
  <2>5. CASE p \in {0, sndPos, q[k].change}
    <3>1. p \in Nat /\ p <= sndPos
      BY <1>2, <2>2, <2>5
    <3>2. Covered(wal, p, InChannel)
      BY <1>2, <1>13, <3>1, CoveredBelow
    <3> HIDE DEF D
    <3>3. Covered(wal, p, InChannel \cup D)
      BY <3>2, CoveredMono
    <3>4. QED
      BY <3>3 DEF D
  <2>6. QED
    BY <2>3, <2>4, <2>5
<1>16. QueuesSafe'
  BY <1>1, <1>10, <1>15 DEF DeliveryInv, QueuesSafe
<1>17. PositionsCovered'
  BY <1>1 DEF DeliveryInv, PositionsCovered
<1>18. TypeOK'
  BY NextTypeOK DEF DeliveryInv, Next, Sink
<1>19. Covered(wal', sndPos', InPipeline')
  BY <1>1, <1>12, <1>14
<1>20. ASSUME NEW x \in Xids
       PROVE  /\ \A i \in DOMAIN txns'[x] : /\ Buffered(txns'[x][i], x, sndPos + 1)
                                            /\ txns'[x][i].commitLSN = 0
              /\ ~Ended(x, sndPos + 1) =>
                   \A l \in sent : wal[l].xid = x => l \in ChangesOf(txns'[x])
  <2>1. CASE x = y
    <3>1. Ended(x, sndPos + 1)
      BY <1>1, <1>2, <2>1 DEF Ended, Commits, y
    <3>2. QED
      BY <1>5, <2>1, <3>1
  <2>2. CASE x # y
    BY <1>2, <1>5, <2>2, BuffersAdvance
  <2>3. QED
    BY <2>1, <2>2
<1>21. Covered(wal', startAt', processed')
  BY <1>1, <1>2 DEF WalsenderInv
<1>22. ASSUME NEW x \in Xids
       PROVE  (/\ \A i \in DOMAIN txns[x] : /\ Buffered(txns[x][i], x, sndPos)
                                            /\ txns[x][i].commitLSN = 0
               /\ ~Ended(x, sndPos) =>
                    \A l \in sent : wal[l].xid = x => l \in ChangesOf(txns[x]))'
  <2>1. \A i \in DOMAIN txns'[x] : /\ Buffered(txns'[x][i], x, sndPos + 1)
                                   /\ txns'[x][i].commitLSN = 0
    BY <1>20
  <2>2. ~Ended(x, sndPos + 1) =>
          \A l \in sent : wal[l].xid = x => l \in ChangesOf(txns'[x])
    BY <1>20
  <2>3. Ended(x, sndPos)' <=> Ended(x, sndPos + 1)
    BY <1>1 DEF Ended
  <2>4. QED
    BY <1>1, <2>1, <2>2, <2>3 DEF Buffered
<1>23. WalsenderInv'
  BY <1>1, <1>2, <1>19, <1>21, <1>22 DEF WalsenderInv
<1>24. QED
  BY <1>1, <1>16, <1>17, <1>18, <1>23 DEF DeliveryInv

\* STREAM ABORT: in a safe setting it ends a transaction that never commits.
LEMMA SinkStreamAbortStep ==
  ASSUME SafeSetting, DeliveryInv, SinkStreamAbort
  PROVE  DeliveryInv'
<1> USE DEF server, walsender, buffers, pipeline, replay, consumer, control
<1> DEFINE y == wal[sndPos].xid
<1>1. /\ phase = "streaming" /\ mode = "idle" /\ sndPos \in DOMAIN wal
      /\ wal[sndPos].type \in {"abort", "subabort"} /\ sent # {}
      /\ sndPos' = sndPos + 1 /\ streaming' = FALSE
      /\ txns' = [txns EXCEPT ![y] = <<>>]
      /\ UNCHANGED <<server, startAt, sent, mode, cur, todo, control,
                     confirmedXLogPos, txCommit, pending, activeXid, pipeline,
                     replay, consumer>>
  BY DEF SinkStreamAbort, AtRecord, Receive, DiscardTx, Streamed
<1>2. /\ wal \in Seq(Record) /\ sndPos \in Nat /\ WalsenderInv /\ wal \in Wals
      /\ txns \in [Xids -> Seq(Message(wal))] /\ y \in Xids /\ TypeOK
  BY <1>1, WalFacts DEF DeliveryInv, TypeOK, ServerTypes, BufferTypes
<1>3. wal[sndPos].type = "abort"
  BY <1>1, <1>2 DEF WalsenderInv, SafeSetting
<1>4. txns'[y] = <<>> /\ \A x \in Xids \ {y} : txns'[x] = txns[x]
  BY <1>1, <1>2
<1> HIDE DEF y
<1>5. QueuesSafe' /\ InPipeline' = InPipeline
  BY <1>1, QueuesKept DEF DeliveryInv
<1>6. PositionsCovered'
  BY <1>1 DEF DeliveryInv, PositionsCovered
<1>7. TypeOK'
  BY NextTypeOK DEF DeliveryInv, Next, Sink
<1>8. Covered(wal', sndPos', InPipeline')
  <2>1. sndPos \notin Commits(wal)
    BY <1>3 DEF Commits
  <2>2. QED
    BY <1>1, <1>2, <1>5, <2>1, CoveredStep DEF WalsenderInv
<1>9. ASSUME NEW x \in Xids
      PROVE  /\ \A i \in DOMAIN txns'[x] : /\ Buffered(txns'[x][i], x, sndPos + 1)
                                           /\ txns'[x][i].commitLSN = 0
             /\ ~Ended(x, sndPos + 1) =>
                  \A l \in sent : wal[l].xid = x => l \in ChangesOf(txns'[x])
  <2>1. CASE x = y
    <3>1. Ended(x, sndPos + 1)
      BY <1>1, <1>2, <1>3, <2>1 DEF Ended, y
    <3>2. QED
      BY <1>4, <2>1, <3>1
  <2>2. CASE x # y
    BY <1>2, <1>4, <2>2, BuffersAdvance
  <2>3. QED
    BY <2>1, <2>2
<1>10. ASSUME NEW x \in Xids
       PROVE  (/\ \A i \in DOMAIN txns[x] : /\ Buffered(txns[x][i], x, sndPos)
                                            /\ txns[x][i].commitLSN = 0
               /\ ~Ended(x, sndPos) =>
                    \A l \in sent : wal[l].xid = x => l \in ChangesOf(txns[x]))'
  <2>1. \A i \in DOMAIN txns'[x] : /\ Buffered(txns'[x][i], x, sndPos + 1)
                                   /\ txns'[x][i].commitLSN = 0
    BY <1>9
  <2>2. ~Ended(x, sndPos + 1) =>
          \A l \in sent : wal[l].xid = x => l \in ChangesOf(txns'[x])
    BY <1>9
  <2>3. Ended(x, sndPos)' <=> Ended(x, sndPos + 1)
    BY <1>1 DEF Ended
  <2>4. QED
    BY <1>1, <2>1, <2>2, <2>3 DEF Buffered
<1>11. WalsenderInv'
  BY <1>1, <1>2, <1>8, <1>10 DEF WalsenderInv
<1>12. QED
  BY <1>1, <1>5, <1>6, <1>7, <1>11 DEF DeliveryInv

\* Open and Reconnect start a walsender at the slot's position or, for a stream
\* opened from a snapshot, at the snapshot's LSN; both are covered.
LEMMA OpenStep ==
  ASSUME DeliveryInv, Open
  PROVE  DeliveryInv'
<1> USE DEF server, walsender, buffers, pipeline, replay, consumer, control
<1>1. /\ phase = "down" /\ phase' = "streaming" /\ StartReplication(SetupLSN)
      /\ UNCHANGED <<wal, confirmedFlush, cancelled, openFromSnapshotLSN, faults,
                     lastXLogPos, confirmedXLogPos, buffers, pipeline, replay, consumer>>
  BY DEF Open
<1>2. FreshStream /\ TypeOK /\ PositionsCovered
  BY <1>1 DEF DeliveryInv
<1>3. SetupLSN \in {0, SnapshotLSN}
  BY <1>2 DEF SetupLSN, FreshStream
<1>4. WalsenderInv'
  BY <1>1, <1>2, <1>3, WalsenderStarts DEF StartReplication, FreshStream
<1>5. QueuesSafe'
  BY <1>1, QueuesKept DEF DeliveryInv
<1>6. PositionsCovered'
  <2>1. Covered(wal, 0, processed)
    BY <1>2, WalFacts, CoveredZero DEF TypeOK, ServerTypes
  <2>2. QED
    BY <1>1, <1>2, <2>1 DEF PositionsCovered, StartReplication
<1>7. TypeOK'
  BY <1>2, NextTypeOK DEF Next
<1>8. QED
  BY <1>1, <1>4, <1>5, <1>6, <1>7 DEF DeliveryInv

\* A reconnect starts at the slot's position with fresh buffers; what the
\* process goroutine and the listener hold stays theirs.
LEMMA ReconnectStep ==
  ASSUME DeliveryInv, Reconnect
  PROVE  DeliveryInv'
<1> USE DEF server, walsender, buffers, pipeline, replay, consumer, control
<1>1. /\ phase' = "streaming" /\ StartReplication(SetupLSN') /\ FreshBuffers
      /\ ~cancelled' /\ ~cancelled
      /\ openFromSnapshotLSN' = FALSE /\ lastXLogPos' = 0
      /\ UNCHANGED <<wal, confirmedFlush, faults, confirmedXLogPos, pipeline,
                     deliveredHighWaterMark, consumer>>
  BY DEF Reconnect, ResetForReconnect
<1>2. TypeOK /\ PositionsCovered
  BY DEF DeliveryInv
<1>3. SetupLSN' = 0
  BY <1>1 DEF SetupLSN
<1>4. WalsenderInv'
  BY <1>1, <1>2, <1>3, WalsenderStarts DEF StartReplication, FreshBuffers
<1>5. QueuesSafe'
  BY <1>1, QueuesKept DEF DeliveryInv
<1>6. PositionsCovered'
  <2>1. Covered(wal, 0, processed)
    BY <1>2, WalFacts, CoveredZero DEF TypeOK, ServerTypes
  <2>2. QED
    BY <1>1, <1>2, <2>1 DEF PositionsCovered, StartReplication
<1>7. TypeOK'
  BY <1>2, NextTypeOK DEF Next
<1>8. QED
  BY <1>1, <1>4, <1>5, <1>6, <1>7 DEF DeliveryInv

\* The end of the process loses only what is not processed, and the slot has
\* passed nothing that is not processed.
LEMMA CrashStep ==
  ASSUME DeliveryInv, Crash
  PROVE  DeliveryInv'
<1> USE DEF server, walsender, buffers, pipeline, replay, consumer, control
<1>1. /\ phase' = "down" /\ cancelled' = FALSE /\ lastXLogPos' = 0 /\ confirmedXLogPos' = 0
      /\ FreshBuffers
      /\ outbox' = <<>> /\ messageCH' = <<>> /\ unacked' = <<>>
      /\ UNCHANGED <<server, walsender, processed>>
  BY DEF Crash
<1>2. TypeOK'
  BY NextTypeOK DEF DeliveryInv, Next
<1>3. QueuesSafe'
  BY <1>1, QueueEmpty DEF QueuesSafe
<1>4. PositionsCovered'
  <2>1. Covered(wal, 0, processed)
    BY WalFacts, CoveredZero DEF DeliveryInv, TypeOK, ServerTypes
  <2>2. QED
    BY <1>1, <2>1 DEF DeliveryInv, PositionsCovered
<1>5. FreshStream'
  BY <1>1 DEF FreshStream, FreshBuffers
<1>6. QED
  BY <1>1, <1>2, <1>3, <1>4, <1>5 DEF DeliveryInv

\* The steps that change the phase or a position and move no message:
\* losing the connection, a failed attempt, Close, a restart of the server,
\* keepalives, status updates and the slot's advance.
LEMMA QuietStep ==
  ASSUME DeliveryInv,
         \/ Disconnect \/ ReconnectFails \/ Close \/ PgRestart \/ Keepalive
         \/ SendStandbyStatusUpdate \/ SlotAdvance \/ UNCHANGED vars
  PROVE  DeliveryInv'
<1> USE DEF server, walsender, buffers, pipeline, replay, consumer, control
<1>1. TypeOK'
  BY NextTypeOK DEF DeliveryInv, Next, Sink
<1>2. UNCHANGED <<wal, processed, unacked, messageCH, outbox>>
  BY DEF Disconnect, ReconnectFails, Close, PgRestart, Keepalive,
         SendStandbyStatusUpdate, SlotAdvance, vars
<1>3. QueuesSafe' /\ InPipeline' = InPipeline
  BY <1>2, QueuesKept DEF DeliveryInv
<1>4. /\ inflight' \in {0, inflight, confirmedXLogPos}
      /\ confirmedXLogPos' = confirmedXLogPos
  BY DEF Disconnect, ReconnectFails, Close, PgRestart, Keepalive,
         SendStandbyStatusUpdate, SlotAdvance, vars
<1>5. \/ confirmedFlush' = confirmedFlush
      \/ confirmedFlush' \in 1..confirmedFlush
      \/ confirmedFlush' = Larger(confirmedFlush, inflight)
  BY DEF Disconnect, ReconnectFails, Close, PgRestart, Keepalive,
         SendStandbyStatusUpdate, SlotAdvance, vars
<1>6. PositionsCovered'
  <2>1. wal \in Seq(Record) /\ confirmedFlush \in Nat
    BY WalFacts DEF DeliveryInv, TypeOK, ServerTypes
  <2>2. Covered(wal, confirmedFlush', processed)
    <3>1. CASE confirmedFlush' = confirmedFlush
      BY <3>1 DEF DeliveryInv, PositionsCovered
    <3>2. CASE confirmedFlush' \in 1..confirmedFlush
      BY <2>1, <3>2, CoveredBelow DEF DeliveryInv, PositionsCovered
    <3>3. CASE confirmedFlush' = Larger(confirmedFlush, inflight)
      BY <3>3, CoveredLarger DEF DeliveryInv, PositionsCovered
    <3>4. QED
      BY <1>5, <3>1, <3>2, <3>3
  <2>3. Covered(wal, inflight', processed)
    BY <1>4, <2>1, CoveredZero DEF DeliveryInv, PositionsCovered
  <2>4. QED
    BY <1>2, <1>4, <2>2, <2>3 DEF DeliveryInv, PositionsCovered
<1>7. phase' = "streaming" =>
        phase = "streaming" /\ UNCHANGED <<wal, walsender, buffers>>
  BY DEF Disconnect, ReconnectFails, Close, PgRestart, Keepalive, Receive,
         SendStandbyStatusUpdate, SlotAdvance, vars
<1>8. phase' = "streaming" => WalsenderInv'
  BY <1>2, <1>3, <1>7, WalsenderKept DEF DeliveryInv
<1>9. phase' = "down" => phase = "down" /\ UNCHANGED <<lastXLogPos, buffers>>
  BY DEF Disconnect, ReconnectFails, Close, PgRestart, Keepalive, Receive,
         SendStandbyStatusUpdate, SlotAdvance, vars
<1>10. phase' = "down" => FreshStream'
  BY <1>9 DEF DeliveryInv, FreshStream
<1>11. (cancelled => phase = "closing")'
  BY DEF DeliveryInv, Disconnect, ReconnectFails, Close, PgRestart, Keepalive,
         Receive, SendStandbyStatusUpdate, SlotAdvance, vars
<1>12. QED
  BY <1>1, <1>3, <1>6, <1>8, <1>10, <1>11 DEF DeliveryInv

\* In a safe setting only Close ends the context, so that a send is given up
\* only once nothing more is read from the connection.
LEMMA CancelStep ==
  ASSUME SafeSetting, DeliveryInv, CancelContext \/ DropMessage
  PROVE  DeliveryInv'
<1> USE DEF server, walsender, buffers, pipeline, replay, consumer, control
<1>1. /\ cancelled /\ phase = "closing" /\ outbox' = <<>>
      /\ UNCHANGED <<server, walsender, control, lastXLogPos, confirmedXLogPos,
                     buffers, messageCH, replay, consumer>>
  BY DEF SafeSetting, CancelContext, DropMessage, DeliveryInv
<1>2. TypeOK'
  BY NextTypeOK DEF DeliveryInv, Next, Sink
<1>3. QueuesSafe'
  <2>1. InHand' = InHand
    BY <1>1 DEF InHand
  <2>2. QueueSafe(wal, outbox', InChannel')
    BY <1>1, QueueEmpty
  <2>3. QED
    BY <1>1, <2>1, <2>2 DEF DeliveryInv, QueuesSafe
<1>4. PositionsCovered'
  BY <1>1 DEF DeliveryInv, PositionsCovered
<1>5. QED
  BY <1>1, <1>2, <1>3, <1>4 DEF DeliveryInv

\* DeliveryInv is inductive in a safe setting.
LEMMA NextDelivery ==
  ASSUME SafeSetting, DeliveryInv, [Next]_vars
  PROVE  DeliveryInv'
<1>1. CASE SinkChange
  <2>1. phase = "streaming" /\ \E l \in todo : TRUE
    BY <1>1 DEF SinkChange, Receive
  <2>2. mode \in {"txn", "chunk"}
    BY <2>1 DEF DeliveryInv, WalsenderInv, TypeOK, ServerTypes
  <2>3. QED
    BY <1>1, <2>2, SinkChangeTxnStep, SinkChangeChunkStep
<1>2. CASE \/ SinkBegin \/ SinkCommit \/ SinkStreamStart \/ SinkStreamStop
           \/ SinkStreamCommit \/ SinkStreamAbort \/ SendMessage
  BY <1>2, SinkBeginStep, SinkCommitStep, SinkStreamStartStep,
     SinkStreamStopStep, SinkStreamCommitStep, SinkStreamAbortStep,
     SendMessageStep
<1>3. CASE \/ Open \/ Reconnect \/ Crash \/ DecodeSilently
           \/ ProcessHeartbeat \/ ProcessMessage \/ Ack
  BY <1>3, OpenStep, ReconnectStep, CrashStep, DecodeSilentlyStep,
     ProcessHeartbeatStep, ProcessMessageStep, AckStep
<1>4. CASE \/ Disconnect \/ ReconnectFails \/ Close \/ PgRestart \/ Keepalive
           \/ SendStandbyStatusUpdate \/ SlotAdvance \/ UNCHANGED vars
  BY <1>4, QuietStep
<1>5. CASE CancelContext \/ DropMessage
  BY <1>5, CancelStep
<1>6. QED
  BY <1>1, <1>2, <1>3, <1>4, <1>5 DEF Next, Sink

\* In a safe setting the inductive invariant holds in every reachable state.
THEOREM DeliveryInvariant == SafeSetting => (Spec => []DeliveryInv)
<1>1. SUFFICES ASSUME SafeSetting
               PROVE  Spec => []DeliveryInv
  OBVIOUS
<1>2. Init => DeliveryInv
  BY InitDelivery
<1>3. DeliveryInv /\ [Next]_vars => DeliveryInv'
  BY <1>1, NextDelivery
<1>4. QED
  BY <1>2, <1>3, PTL DEF Spec

\* At-least-once delivery: for every WAL, channel capacity and number of
\* faults, streamed or not, while the context outlives the stream, with a listener
\* that acks before it returns or without heartbeats, and without a savepoint rolled back in a streamed
\* transaction, the slot never passes a change that is not processed.
THEOREM AtLeastOnceDelivery == SafeSetting => (Spec => []AtLeastOnce)
<1>1. DeliveryInv => AtLeastOnce
  BY DEF DeliveryInv, PositionsCovered, AtLeastOnce
<1>2. QED
  BY <1>1, DeliveryInvariant, PTL
=============================================================================
