------------------------- MODULE StreamOrderProofs -------------------------
(***************************************************************************)
(* What a consumer of ReplicationStream may rely on, for every WAL, every  *)
(* channel capacity and any number of faults: what it gets is committed    *)
(* and carries its own commit context, and, in a safe setting, it comes in *)
(* commit order, so that the stream implements DeliveryContract.           *)
(***************************************************************************)
EXTENDS ReplicationStreamProofs

-----------------------------------------------------------------------------
(* The inductive invariant behind OnlyCommittedDelivered and CommitContext.*)
(* It needs no safe setting: contexts may be cancelled, messages dropped   *)
(* and savepoints rolled back.                                             *)

\* Message m is a change of the transaction that commits at c, and carries its
\* commit context if it carries one at all.
Belongs(m, c) ==
  /\ c \in Commits(wal) /\ m.change \in Changes(wal, c)
  /\ IsDML(m) => m.commitLSN = c /\ m.xid = wal[c].xid

AllBelong(q) == \A i \in DOMAIN q : \E c \in Commits(wal) : Belongs(q[i], c)

\* What is buffered of a streamed transaction was streamed, and no rolled-back
\* savepoint is left in it.
TxnsBelong ==
  \A x \in Xids : \A i \in DOMAIN txns[x] :
    /\ txns[x][i].change \in ChangesBefore(wal, x, sndPos) \cap sent
    /\ ~txns[x][i].last

\* What the sink holds is of the transaction it is decoding, or of a streamed
\* one.
BuffersBelong ==
  /\ streaming = (mode = "chunk")
  /\ mode = "idle" => todo = {}
  /\ mode # "txn" => pending = NoMessage
  /\ mode = "txn" =>
       /\ sndPos \in Commits(wal)
       /\ txCommit = [lsn |-> sndPos, xid |-> wal[sndPos].xid]
       /\ todo \subseteq Changes(wal, sndPos)
       /\ pending # NoMessage => Belongs(pending, sndPos) /\ ~pending.last
  /\ mode = "chunk" =>
       /\ activeXid \in Xids
       /\ todo \subseteq ChangesBefore(wal, activeXid, sndPos)
  /\ TxnsBelong

\* The invariant: every message that has left the sink belongs to a commit.
ContextInv ==
  /\ TypeOK
  /\ AllBelong(outbox) /\ AllBelong(messageCH) /\ AllBelong(unacked)
  /\ OnlyCommittedDelivered
  /\ phase = "streaming" => BuffersBelong
  /\ phase = "down" => pending = NoMessage /\ txns = EmptyTxns /\ streaming = FALSE

-----------------------------------------------------------------------------
(* What holds of all messages of a queue. *)

\* Nothing is in an empty queue.
LEMMA BelongEmpty == AllBelong(<<>>)
BY DEF AllBelong

\* A queue of one message.
LEMMA BelongOne ==
  ASSUME NEW m, NEW c \in Commits(wal), Belongs(m, c)
  PROVE  AllBelong(<<m>>)
BY DEF AllBelong

\* Appending a message.
LEMMA BelongAppend ==
  ASSUME NEW q \in Seq(Message(wal)), NEW m \in Message(wal), AllBelong(q),
         \E c \in Commits(wal) : Belongs(m, c)
  PROVE  AllBelong(Append(q, m))
<1>1. DOMAIN Append(q, m) = 1..(Len(q) + 1) /\ DOMAIN q = 1..Len(q) /\ Len(q) \in Nat
  OBVIOUS
<1>2. \A i \in 1..Len(q) : Append(q, m)[i] = q[i]
  OBVIOUS
<1>3. Append(q, m)[Len(q) + 1] = m
  OBVIOUS
<1>4. QED
  BY <1>1, <1>2, <1>3 DEF AllBelong

\* Taking the head.
LEMMA BelongTail ==
  ASSUME NEW q \in Seq(Message(wal)), q # <<>>, AllBelong(q)
  PROVE  /\ AllBelong(Tail(q))
         /\ Head(q) \in Message(wal)
         /\ \E c \in Commits(wal) : Belongs(Head(q), c)
<1>1. Len(q) \in Nat /\ Len(q) >= 1 /\ DOMAIN q = 1..Len(q) /\ Head(q) = q[1]
  OBVIOUS
<1>2. DOMAIN Tail(q) = 1..(Len(q) - 1) /\ \A i \in DOMAIN Tail(q) : Tail(q)[i] = q[i + 1]
  OBVIOUS
<1>3. \A i \in DOMAIN Tail(q) : i + 1 \in DOMAIN q
  BY <1>1, <1>2
<1>4. 1 \in DOMAIN q
  BY <1>1
<1>5. QED
  BY <1>1, <1>2, <1>3, <1>4 DEF AllBelong

\* Dropping the first k messages.
LEMMA BelongDrop ==
  ASSUME NEW q \in Seq(Message(wal)), NEW k \in 1..Len(q), AllBelong(q)
  PROVE  AllBelong(SubSeq(q, k + 1, Len(q)))
<1> DEFINE r == SubSeq(q, k + 1, Len(q))
<1>1. DOMAIN r = 1..(Len(q) - k) /\ \A i \in DOMAIN r : r[i] = q[i + k]
  OBVIOUS
<1>2. \A i \in DOMAIN r : i + k \in DOMAIN q
  BY <1>1
<1>3. QED
  BY <1>1, <1>2 DEF AllBelong

-----------------------------------------------------------------------------
(* ContextInv is inductive. *)

\* A step that leaves the sink's buffers and the walsender alone.
LEMMA BuffersBelongKept ==
  ASSUME BuffersBelong, UNCHANGED <<wal, walsender, buffers>>
  PROVE  BuffersBelong'
BY DEF BuffersBelong, TxnsBelong, Belongs, IsDML, walsender, buffers

\* A step that moves no message.
LEMMA ContextQuiet ==
  ASSUME ContextInv, TypeOK',
         UNCHANGED <<wal, outbox, messageCH, unacked, delivered>>,
         phase' = "streaming" => phase = "streaming" /\ UNCHANGED <<walsender, buffers>>,
         phase' = "down" => phase = "down" /\ UNCHANGED <<pending, txns, streaming>>
  PROVE  ContextInv'
<1>1. AllBelong(outbox)' /\ AllBelong(messageCH)' /\ AllBelong(unacked)'
  BY DEF ContextInv, AllBelong, Belongs, IsDML
<1>2. OnlyCommittedDelivered'
  BY DEF ContextInv, OnlyCommittedDelivered
<1>3. phase' = "streaming" => BuffersBelong'
  BY BuffersBelongKept DEF ContextInv
<1>4. QED
  BY <1>1, <1>2, <1>3 DEF ContextInv

\* A step that fills the outbox and touches no other queue.
LEMMA ContextOutbox ==
  ASSUME ContextInv, TypeOK', UNCHANGED <<wal, messageCH, unacked, delivered, phase>>,
         AllBelong(outbox'), phase = "streaming", BuffersBelong'
  PROVE  ContextInv'
<1>1. AllBelong(outbox)' /\ AllBelong(messageCH)' /\ AllBelong(unacked)'
  BY DEF ContextInv, AllBelong, Belongs, IsDML
<1>2. OnlyCommittedDelivered'
  BY DEF ContextInv, OnlyCommittedDelivered
<1>3. QED
  BY <1>1, <1>2 DEF ContextInv

\* The initial states satisfy ContextInv.
LEMMA InitContext == Init => ContextInv
<1> SUFFICES ASSUME Init PROVE ContextInv
  OBVIOUS
<1>1. TypeOK
  BY InitTypeOK
<1>2. AllBelong(outbox) /\ AllBelong(messageCH) /\ AllBelong(unacked)
  BY BelongEmpty DEF Init
<1>3. QED
  BY <1>1, <1>2 DEF Init, ContextInv, OnlyCommittedDelivered

\* The steps that change the phase or a position and move no message.
LEMMA QuietContext ==
  ASSUME ContextInv,
         \/ Disconnect \/ ReconnectFails \/ CancelContext \/ Close \/ PgRestart
         \/ Keepalive \/ SendStandbyStatusUpdate \/ SlotAdvance \/ UNCHANGED vars
  PROVE  ContextInv'
<1> USE DEF server, walsender, buffers, pipeline, replay, consumer, control
<1>1. TypeOK'
  BY NextTypeOK DEF ContextInv, Next, Sink
<1>2. UNCHANGED <<wal, outbox, messageCH, unacked, delivered>>
  BY DEF Disconnect, ReconnectFails, CancelContext, Close, PgRestart, Keepalive,
         SendStandbyStatusUpdate, SlotAdvance, vars
<1>3. phase' = "streaming" => phase = "streaming" /\ UNCHANGED <<walsender, buffers>>
  BY DEF Disconnect, ReconnectFails, CancelContext, Close, PgRestart, Keepalive,
         Receive, SendStandbyStatusUpdate, SlotAdvance, vars
<1>4. phase' = "down" => phase = "down" /\ UNCHANGED <<pending, txns, streaming>>
  BY DEF Disconnect, ReconnectFails, CancelContext, Close, PgRestart, Keepalive,
         Receive, SendStandbyStatusUpdate, SlotAdvance, vars
<1>5. QED
  BY <1>1, <1>2, <1>3, <1>4, ContextQuiet

\* Open, Reconnect and Crash leave empty buffers behind.
LEMMA FreshContext ==
  ASSUME ContextInv, Open \/ Reconnect \/ Crash
  PROVE  ContextInv'
<1> USE DEF server, walsender, buffers, pipeline, replay, consumer, control
<1>1. TypeOK'
  BY NextTypeOK DEF ContextInv, Next
<1>2. /\ wal' = wal
      /\ pending' = NoMessage /\ txns' = EmptyTxns /\ streaming' = FALSE
      /\ phase' = "streaming" => mode' = "idle" /\ todo' = {}
  BY DEF ContextInv, Open, Reconnect, Crash, FreshBuffers, StartReplication
<1>3. \/ UNCHANGED <<outbox, messageCH, unacked, delivered>>
      \/ outbox' = <<>> /\ messageCH' = <<>> /\ unacked' = <<>> /\ delivered' = {}
  BY DEF Open, Reconnect, Crash
<1>4. AllBelong(outbox') /\ AllBelong(messageCH') /\ AllBelong(unacked')
  BY <1>3, BelongEmpty DEF ContextInv
<1>5. AllBelong(outbox)' /\ AllBelong(messageCH)' /\ AllBelong(unacked)'
  BY <1>2, <1>4 DEF AllBelong, Belongs, IsDML
<1>6. OnlyCommittedDelivered'
  BY <1>2, <1>3 DEF ContextInv, OnlyCommittedDelivered
<1>7. TxnsBelong'
  BY <1>2 DEF TxnsBelong, EmptyTxns
<1>8. phase' = "streaming" => BuffersBelong'
  BY <1>2, <1>7 DEF BuffersBelong
<1>9. QED
  BY <1>1, <1>2, <1>5, <1>6, <1>8 DEF ContextInv

\* Passing a record keeps what the walsender holds of a transaction, unless the
\* record rolls back a savepoint of it.
LEMMA ChangesAdvance ==
  ASSUME NEW w \in Seq(Record), NEW p \in DOMAIN w, NEW x,
         NEW l \in ChangesBefore(w, x, p),
         ~(w[p].type = "subabort" /\ w[p].xid = x /\ w[p].sub = w[l].sub)
  PROVE  l \in ChangesBefore(w, x, p + 1)
<1>1. DOMAIN w \subseteq Nat
  OBVIOUS
<1>2. l \in DOMAIN w /\ l < p /\ w[l].type = "change" /\ w[l].xid = x /\ ~RolledBack(w, l, p)
  BY DEF ChangesBefore
<1>3. ~RolledBack(w, l, p + 1)
  <2>1. SUFFICES ASSUME NEW a \in DOMAIN w, l < a, a < p + 1, w[a].type = "subabort",
                        w[a].xid = w[l].xid, w[a].sub = w[l].sub
                 PROVE  FALSE
    BY DEF RolledBack
  <2>2. a # p
    BY <1>2, <2>1
  <2>3. a < p
    BY <1>1, <2>1, <2>2
  <2>4. QED
    BY <1>2, <2>1, <2>3 DEF RolledBack
<1>4. l < p + 1
  BY <1>1, <1>2
<1>5. QED
  BY <1>2, <1>3, <1>4 DEF ChangesBefore

\* The buffers of streamed transactions survive a record that rolls back none
\* of the changes in them.
LEMMA TxnsAdvance ==
  ASSUME TypeOK, TxnsBelong, sndPos \in DOMAIN wal, UNCHANGED <<wal, sent>>,
         sndPos' = sndPos + 1,
         \A x \in Xids : txns'[x] = <<>>
           \/ /\ txns'[x] = txns[x]
              /\ \A l \in sent : ~(/\ wal[sndPos].type = "subabort"
                                   /\ wal[sndPos].xid = x /\ wal[l].xid = x
                                   /\ wal[sndPos].sub = wal[l].sub)
  PROVE  TxnsBelong'
<1>1. wal \in Seq(Record)
  BY WalFacts DEF TypeOK, ServerTypes
<1>2. ASSUME NEW x \in Xids, NEW i \in DOMAIN txns'[x]
      PROVE  /\ txns'[x][i].change \in ChangesBefore(wal, x, sndPos + 1) \cap sent
             /\ ~txns'[x][i].last
  <2>1. txns'[x] = txns[x]
    BY <1>2
  <2> DEFINE l == txns[x][i].change
  <2>2. l \in ChangesBefore(wal, x, sndPos) /\ l \in sent /\ ~txns[x][i].last
    BY <1>2, <2>1 DEF TxnsBelong
  <2>3. wal[l].xid = x
    BY <2>2 DEF ChangesBefore
  <2> HIDE DEF l
  <2>4. ~(wal[sndPos].type = "subabort" /\ wal[sndPos].xid = x /\ wal[sndPos].sub = wal[l].sub)
    BY <1>2, <2>2, <2>3
  <2>5. l \in ChangesBefore(wal, x, sndPos + 1)
    BY <1>1, <2>2, <2>4, ChangesAdvance
  <2>6. QED
    BY <2>1, <2>2, <2>5 DEF l
<1>3. QED
  BY <1>2 DEF TxnsBelong

\* A record that is passed silently rolls back nothing that was streamed.
LEMMA DecodeContext ==
  ASSUME ContextInv, DecodeSilently
  PROVE  ContextInv'
<1> USE DEF server, walsender, buffers, pipeline, replay, consumer, control
<1>1. /\ phase = "streaming" /\ mode = "idle" /\ sndPos \in DOMAIN wal
      /\ sndPos' = sndPos + 1
      /\ wal[sndPos].type = "subabort" =>
           \A l \in sent : ~(wal[l].xid = wal[sndPos].xid /\ wal[l].sub = wal[sndPos].sub)
      /\ UNCHANGED <<server, startAt, sent, mode, cur, todo, control, lastXLogPos,
                     confirmedXLogPos, buffers, pipeline, replay, consumer>>
  BY DEF DecodeSilently, AtRecord
<1>2. TypeOK' /\ TypeOK /\ BuffersBelong
  BY <1>1, NextTypeOK DEF ContextInv, Next
<1>3. TxnsBelong'
  BY <1>1, <1>2, TxnsAdvance DEF BuffersBelong
<1>4. BuffersBelong'
  BY <1>1, <1>2, <1>3 DEF BuffersBelong
<1>5. AllBelong(outbox')
  BY <1>1 DEF ContextInv
<1>6. QED
  BY <1>1, <1>2, <1>4, <1>5, ContextOutbox

\* BEGIN takes the commit context of the transaction that follows.
LEMMA BeginContext ==
  ASSUME ContextInv, SinkBegin
  PROVE  ContextInv'
<1> USE DEF server, walsender, buffers, pipeline, replay, consumer, control
<1>1. /\ phase = "streaming" /\ mode = "idle" /\ sndPos \in Commits(wal)
      /\ mode' = "txn" /\ todo' = Changes(wal, sndPos)
      /\ txCommit' = [lsn |-> sndPos, xid |-> wal[sndPos].xid] /\ pending' = NoMessage
      /\ UNCHANGED <<server, startAt, sndPos, sent, control, confirmedXLogPos,
                     txns, activeXid, streaming, pipeline, replay, consumer>>
  BY DEF SinkBegin, AtRecord, Receive, Commits
<1>2. TypeOK' /\ BuffersBelong
  BY <1>1, NextTypeOK DEF ContextInv, Next, Sink
<1>3. BuffersBelong'
  BY <1>1, <1>2 DEF BuffersBelong, TxnsBelong
<1>4. AllBelong(outbox')
  BY <1>1 DEF ContextInv
<1>5. QED
  BY <1>1, <1>2, <1>3, <1>4, ContextOutbox

\* Marking a message as the last one keeps what it belongs to.
LEMMA AsLastBelongs ==
  ASSUME NEW m \in Message(wal), NEW end \in Nat, NEW c, Belongs(m, c)
  PROVE  Belongs(AsLast(m, end), c) /\ AsLast(m, end).last = IsDML(m)
<1>1. /\ AsLast(m, end).change = m.change /\ AsLast(m, end).commitLSN = m.commitLSN
      /\ AsLast(m, end).xid = m.xid /\ AsLast(m, end).last = IsDML(m)
  BY DEF AsLast, Message
<1>2. QED
  BY <1>1 DEF Belongs, IsDML

\* COMMIT sends the message held back.
LEMMA CommitSinkContext ==
  ASSUME ContextInv, SinkCommit
  PROVE  ContextInv'
<1> USE DEF server, walsender, buffers, pipeline, replay, consumer, control
<1>1. /\ phase = "streaming" /\ mode = "txn" /\ todo = {}
      /\ mode' = "idle" /\ sndPos' = sndPos + 1 /\ pending' = NoMessage
      /\ outbox' = IF pending = NoMessage THEN <<>>
                   ELSE <<AsLast(pending, EndLSN(sndPos))>>
      /\ UNCHANGED <<server, startAt, sent, todo, control, confirmedXLogPos,
                     txCommit, txns, activeXid, streaming, messageCH, replay,
                     consumer>>
  BY DEF SinkCommit, Receive
<1>2. TypeOK /\ TypeOK' /\ BuffersBelong
  BY <1>1, NextTypeOK DEF ContextInv, Next, Sink
<1>3. /\ sndPos \in Commits(wal) /\ sndPos \in DOMAIN wal /\ wal[sndPos].type = "commit"
      /\ sndPos \in Nat /\ pending \in Message(wal) \cup {NoMessage}
  BY <1>1, <1>2 DEF BuffersBelong, Commits, TypeOK, ServerTypes, BufferTypes
<1>4. AllBelong(outbox')
  <2>1. CASE pending = NoMessage
    BY <1>1, <2>1, BelongEmpty
  <2>2. CASE pending # NoMessage
    <3>1. Belongs(pending, sndPos) /\ pending \in Message(wal)
      BY <1>1, <1>2, <1>3, <2>2 DEF BuffersBelong
    <3>2. EndLSN(sndPos) \in Nat
      BY <1>3 DEF EndLSN
    <3>3. Belongs(AsLast(pending, EndLSN(sndPos)), sndPos)
      BY <3>1, <3>2, AsLastBelongs
    <3>4. QED
      BY <1>1, <1>3, <2>2, <3>3, BelongOne
  <2>3. QED
    BY <2>1, <2>2
<1>5. TxnsBelong'
  BY <1>1, <1>2, <1>3, TxnsAdvance DEF BuffersBelong
<1>6. BuffersBelong'
  BY <1>1, <1>2, <1>5 DEF BuffersBelong
<1>7. QED
  BY <1>1, <1>2, <1>4, <1>6, ContextOutbox

\* stampCommit gives a change the context of its own transaction.
LEMMA StampBelongs ==
  ASSUME NEW m \in Message(wal), NEW c \in Commits(wal), m.change \in Changes(wal, c)
  PROVE  /\ Belongs(stampCommit(m, c, wal[c].xid), c)
         /\ stampCommit(m, c, wal[c].xid).last = m.last
<1>1. /\ stampCommit(m, c, wal[c].xid).change = m.change
      /\ stampCommit(m, c, wal[c].xid).last = m.last
      /\ IsDML(m) => /\ stampCommit(m, c, wal[c].xid).commitLSN = c
                     /\ stampCommit(m, c, wal[c].xid).xid = wal[c].xid
  BY DEF stampCommit, Message
<1>2. QED
  BY <1>1 DEF Belongs, IsDML

\* A change outside a chunk is stamped with the context taken at BEGIN.
LEMMA ChangeTxnContext ==
  ASSUME ContextInv, SinkChange, mode # "chunk"
  PROVE  ContextInv'
<1> USE DEF server, walsender, buffers, pipeline, replay, consumer, control
<1>1. PICK l \in todo : SinkChange!(l)
  BY DEF SinkChange
<1>2. phase = "streaming"
  BY <1>1 DEF Receive
<1>3. TypeOK /\ TypeOK' /\ BuffersBelong
  BY <1>2, NextTypeOK DEF ContextInv, Next, Sink
<1>4. mode = "txn" /\ ~streaming
  BY <1>3 DEF BuffersBelong, TypeOK, ServerTypes
<1> DEFINE m == [NoMessage EXCEPT !.change = l, !.walStart = l]
           sm == stampCommit(m, txCommit.lsn, txCommit.xid)
<1>5. /\ outbox' = IF pending = NoMessage THEN <<>> ELSE <<pending>>
      /\ pending' = sm /\ txns' = txns /\ todo' = todo \ {l} /\ sent' = sent
      /\ UNCHANGED <<server, startAt, sndPos, mode, cur, control,
                     confirmedXLogPos, txCommit, activeXid, streaming,
                     messageCH, replay, consumer>>
  BY <1>1, <1>4 DEF BufferMessage
<1>6. /\ l \in Changes(wal, sndPos) /\ sndPos \in Commits(wal) /\ l \in DOMAIN wal
      /\ txCommit.lsn = sndPos /\ txCommit.xid = wal[sndPos].xid
  BY <1>3, <1>4 DEF BuffersBelong, Changes, ChangesBefore
<1>7. m \in Message(wal) /\ m.change = l /\ ~m.last
  <2>1. l \in Nat
    BY <1>3, <1>6, WalFacts DEF TypeOK, ServerTypes
  <2>2. QED
    BY <1>6, <2>1 DEF Message, NoMessage
<1> HIDE DEF m
<1>8. Belongs(sm, sndPos) /\ ~sm.last
  BY <1>6, <1>7, StampBelongs
<1> HIDE DEF sm
<1>9. AllBelong(outbox')
  <2>1. CASE pending = NoMessage
    BY <1>5, <2>1, BelongEmpty
  <2>2. CASE pending # NoMessage
    BY <1>3, <1>4, <1>5, <1>6, <2>2, BelongOne DEF BuffersBelong
  <2>3. QED
    BY <2>1, <2>2
<1>10. Belongs(pending, sndPos)' /\ ~pending'.last
  BY <1>5, <1>8 DEF Belongs, IsDML
<1>11. BuffersBelong'
  BY <1>3, <1>4, <1>5, <1>6, <1>10 DEF BuffersBelong, TxnsBelong
<1>12. QED
  BY <1>2, <1>3, <1>5, <1>9, <1>11, ContextOutbox

\* A change inside a chunk joins the buffer of its transaction.
LEMMA ChangeChunkContext ==
  ASSUME ContextInv, SinkChange, mode = "chunk"
  PROVE  ContextInv'
<1> USE DEF server, walsender, buffers, pipeline, replay, consumer, control
<1>1. PICK l \in todo : SinkChange!(l)
  BY DEF SinkChange
<1>2. phase = "streaming"
  BY <1>1 DEF Receive
<1>3. TypeOK /\ TypeOK' /\ BuffersBelong
  BY <1>2, NextTypeOK DEF ContextInv, Next, Sink
<1>4. streaming /\ activeXid \in Xids /\ l \in ChangesBefore(wal, activeXid, sndPos)
  BY <1>3 DEF BuffersBelong
<1> DEFINE m == [NoMessage EXCEPT !.change = l, !.walStart = l]
           q == txns[activeXid]
<1>5. /\ txns' = [txns EXCEPT ![activeXid] = Append(@, m)]
      /\ todo' = todo \ {l} /\ sent' = sent \cup {l}
      /\ UNCHANGED <<server, startAt, sndPos, mode, cur, control, outbox, pending,
                     confirmedXLogPos, txCommit, activeXid, streaming,
                     messageCH, replay, consumer>>
  BY <1>1, <1>4 DEF AppendMessage
<1>6. m.change = l /\ ~m.last
  BY DEF NoMessage
<1> HIDE DEF m
<1>7. txns \in [Xids -> Seq(Message(wal))] /\ q \in Seq(Message(wal))
  BY <1>3, <1>4 DEF TypeOK, BufferTypes
<1>8. /\ txns'[activeXid] = Append(q, m)
      /\ \A x \in Xids \ {activeXid} : txns'[x] = txns[x]
  BY <1>4, <1>5, <1>7
<1> HIDE DEF q
<1>9. /\ DOMAIN Append(q, m) = 1..(Len(q) + 1) /\ DOMAIN q = 1..Len(q)
      /\ Len(q) \in Nat
      /\ \A i \in 1..Len(q) : Append(q, m)[i] = q[i]
      /\ Append(q, m)[Len(q) + 1] = m
  BY <1>7
<1>10. \A i \in DOMAIN q : /\ q[i].change \in ChangesBefore(wal, activeXid, sndPos) \cap sent
                           /\ ~q[i].last
  BY <1>3, <1>4 DEF BuffersBelong, TxnsBelong, q
<1>11. ASSUME NEW x \in Xids, NEW i \in DOMAIN txns'[x]
       PROVE  /\ txns'[x][i].change \in ChangesBefore(wal, x, sndPos) \cap (sent \cup {l})
              /\ ~txns'[x][i].last
  <2>1. CASE x = activeXid
    BY <1>4, <1>6, <1>8, <1>9, <1>10, <2>1
  <2>2. CASE x # activeXid
    BY <1>3, <1>8, <2>2 DEF BuffersBelong, TxnsBelong
  <2>3. QED
    BY <2>1, <2>2
<1>12. TxnsBelong'
  BY <1>5, <1>11 DEF TxnsBelong
<1>13. BuffersBelong'
  BY <1>3, <1>5, <1>12 DEF BuffersBelong
<1>14. AllBelong(outbox')
  BY <1>5 DEF ContextInv
<1>15. QED
  BY <1>2, <1>3, <1>5, <1>13, <1>14, ContextOutbox

\* STREAM START and STREAM STOP move no message.
LEMMA ChunkBoundsContext ==
  ASSUME ContextInv, SinkStreamStart \/ SinkStreamStop
  PROVE  ContextInv'
<1> USE DEF server, walsender, buffers, pipeline, replay, consumer, control
<1>1. /\ phase = "streaming"
      /\ UNCHANGED <<server, startAt, sndPos, sent, control, confirmedXLogPos,
                     txCommit, pending, txns, pipeline, replay, consumer>>
  BY DEF SinkStreamStart, SinkStreamStop, Receive
<1>2. TypeOK' /\ BuffersBelong
  BY <1>1, NextTypeOK DEF ContextInv, Next, Sink
<1>3. mode # "txn"
  BY DEF SinkStreamStart, SinkStreamStop
<1>4. \/ /\ mode' = "chunk" /\ streaming' = TRUE /\ activeXid' \in Xids
         /\ todo' \subseteq ChangesBefore(wal, activeXid', sndPos)
      \/ mode' = "idle" /\ streaming' = FALSE /\ todo' = {}
  BY DEF SinkStreamStart, SinkStreamStop
<1>5. TxnsBelong'
  BY <1>1, <1>2 DEF BuffersBelong, TxnsBelong
<1>6. BuffersBelong'
  BY <1>1, <1>2, <1>3, <1>4, <1>5 DEF BuffersBelong
<1>7. AllBelong(outbox')
  BY <1>1 DEF ContextInv
<1>8. QED
  BY <1>1, <1>2, <1>6, <1>7, ContextOutbox

\* flushTx stamps every message of a transaction and marks only the last one.
LEMMA FlushBelongs ==
  ASSUME NEW c \in Commits(wal), NEW x \in Xids, x = wal[c].xid, c \in Nat,
         txns[x] \in Seq(Message(wal)),
         \A i \in DOMAIN txns[x] : txns[x][i].change \in Changes(wal, c) /\ ~txns[x][i].last
  PROVE  /\ AllBelong(FlushTx(x, c))
         /\ \A i \in DOMAIN txns[x] : FlushTx(x, c)[i].last => i = Len(txns[x])
<1> DEFINE n == Len(txns[x])
           M(i) == stampCommit(txns[x][i], c, x)
           F(i) == IF i = n THEN AsLast(M(i), EndLSN(c)) ELSE M(i)
<1>1. FlushTx(x, c) = [i \in 1..n |-> F(i)]
  BY DEF FlushTx
<1>2. n \in Nat /\ DOMAIN txns[x] = 1..n
  OBVIOUS
<1>3. \A i \in 1..n : txns[x][i] \in Message(wal)
  OBVIOUS
<1>4. \A i \in 1..n : Belongs(M(i), c) /\ ~M(i).last
  BY <1>2, <1>3, StampBelongs
<1>5. \A i \in 1..n : M(i) \in Message(wal)
  BY <1>3, StampFacts
<1>6. EndLSN(c) \in Nat
  BY DEF EndLSN
<1> HIDE DEF M
<1>7. \A i \in 1..n : Belongs(F(i), c) /\ (F(i).last => i = n)
  BY <1>4, <1>5, <1>6, AsLastBelongs
<1> HIDE DEF F, n
<1>8. DOMAIN FlushTx(x, c) = 1..n /\ \A i \in 1..n : FlushTx(x, c)[i] = F(i)
  BY <1>1
<1>9. QED
  BY <1>2, <1>7, <1>8 DEF AllBelong, n

\* STREAM COMMIT sends the buffer of its transaction, which is committed now.
LEMMA StreamCommitContext ==
  ASSUME ContextInv, SinkStreamCommit
  PROVE  ContextInv'
<1> USE DEF server, walsender, buffers, pipeline, replay, consumer, control
<1> DEFINE y == wal[sndPos].xid
<1>1. /\ phase = "streaming" /\ mode = "idle" /\ sndPos \in Commits(wal)
      /\ sndPos \in DOMAIN wal /\ wal[sndPos].type = "commit"
      /\ sndPos' = sndPos + 1 /\ streaming' = FALSE
      /\ outbox' = FlushTx(y, sndPos) /\ txns' = [txns EXCEPT ![y] = <<>>]
      /\ UNCHANGED <<server, startAt, sent, mode, cur, todo, control,
                     confirmedXLogPos, txCommit, pending, activeXid, messageCH,
                     replay, consumer>>
  BY DEF SinkStreamCommit, AtRecord, Receive, Commits
<1>2. TypeOK /\ TypeOK' /\ BuffersBelong
  BY <1>1, NextTypeOK DEF ContextInv, Next, Sink
<1>3. y \in Xids /\ sndPos \in Nat /\ txns \in [Xids -> Seq(Message(wal))]
  BY <1>1, <1>2, WalFacts DEF TypeOK, ServerTypes, BufferTypes
<1>4. txns'[y] = <<>> /\ \A x \in Xids \ {y} : txns'[x] = txns[x]
  BY <1>1, <1>3
<1>5. \A i \in DOMAIN txns[y] : txns[y][i].change \in Changes(wal, sndPos) /\ ~txns[y][i].last
  BY <1>2, <1>3 DEF BuffersBelong, TxnsBelong, Changes
<1>6. AllBelong(outbox')
  BY <1>1, <1>3, <1>5, FlushBelongs
<1> HIDE DEF y
<1>7. \A x \in Xids : txns'[x] = <<>> \/ txns'[x] = txns[x]
  BY <1>4
<1>8. TxnsBelong'
  BY <1>1, <1>2, <1>7, TxnsAdvance DEF BuffersBelong
<1>9. BuffersBelong'
  BY <1>1, <1>2, <1>8 DEF BuffersBelong
<1>10. QED
  BY <1>1, <1>2, <1>6, <1>9, ContextOutbox

\* STREAM ABORT discards the whole buffer of the transaction, of which the
\* record may have rolled back only a savepoint.
LEMMA StreamAbortContext ==
  ASSUME ContextInv, SinkStreamAbort
  PROVE  ContextInv'
<1> USE DEF server, walsender, buffers, pipeline, replay, consumer, control
<1> DEFINE y == wal[sndPos].xid
<1>1. /\ phase = "streaming" /\ mode = "idle" /\ sndPos \in DOMAIN wal
      /\ sndPos' = sndPos + 1 /\ streaming' = FALSE
      /\ txns' = [txns EXCEPT ![y] = <<>>]
      /\ UNCHANGED <<server, startAt, sent, mode, cur, todo, control,
                     confirmedXLogPos, txCommit, pending, activeXid, pipeline,
                     replay, consumer>>
  BY DEF SinkStreamAbort, AtRecord, Receive, DiscardTx
<1>2. TypeOK /\ TypeOK' /\ BuffersBelong
  BY <1>1, NextTypeOK DEF ContextInv, Next, Sink
<1>3. y \in Xids /\ txns \in [Xids -> Seq(Message(wal))]
  BY <1>1, <1>2, WalFacts DEF TypeOK, ServerTypes, BufferTypes
<1>4. txns'[y] = <<>> /\ \A x \in Xids \ {y} : txns'[x] = txns[x]
  BY <1>1, <1>3
<1>5. \A x \in Xids : txns'[x] = <<>> \/ (txns'[x] = txns[x] /\ x # wal[sndPos].xid)
  BY <1>4
<1> HIDE DEF y
<1>6. TxnsBelong'
  BY <1>1, <1>2, <1>5, TxnsAdvance DEF BuffersBelong
<1>7. BuffersBelong'
  BY <1>1, <1>2, <1>6 DEF BuffersBelong
<1>8. AllBelong(outbox')
  BY <1>1 DEF ContextInv
<1>9. QED
  BY <1>1, <1>2, <1>7, <1>8, ContextOutbox

\* The steps of the process goroutine and the listener, and the blocking send:
\* a message moves from one queue to the next, or is given up.
LEMMA QueueContext ==
  ASSUME ContextInv, \/ SendMessage \/ DropMessage \/ ProcessHeartbeat
                     \/ ProcessMessage \/ Ack
  PROVE  ContextInv'
<1> USE DEF server, walsender, buffers, pipeline, replay, consumer, control
<1>1. TypeOK /\ TypeOK'
  BY NextTypeOK DEF ContextInv, Next, Sink
<1>2. UNCHANGED <<wal, walsender, buffers, phase>>
  BY DEF SendMessage, DropMessage, ProcessHeartbeat, ProcessMessage, Ack
<1>3. outbox \in Seq(Message(wal)) /\ messageCH \in Seq(Message(wal))
      /\ unacked \in Seq(Message(wal))
  BY <1>1 DEF TypeOK, QueueTypes
<1>4. /\ AllBelong(outbox') /\ AllBelong(messageCH') /\ AllBelong(unacked')
      /\ \A l \in delivered' : \E c \in Commits(wal) : l \in Changes(wal, c)
  <2> USE DEF ContextInv, OnlyCommittedDelivered
  <2>1. CASE SendMessage
    BY <1>3, <2>1, BelongTail, BelongAppend DEF SendMessage
  <2>2. CASE DropMessage
    BY <2>2, BelongEmpty DEF DropMessage
  <2>3. CASE ProcessHeartbeat
    BY <1>3, <2>3, BelongTail DEF ProcessHeartbeat, Take
  <2>4. CASE ProcessMessage
    <3> DEFINE m == Head(messageCH)
    <3>1. /\ messageCH # <<>> /\ messageCH' = Tail(messageCH)
          /\ unacked' = Append(unacked, m) /\ delivered' = delivered \cup {m.change}
          /\ outbox' = outbox
      BY <2>4 DEF ProcessMessage, Take
    <3>2. AllBelong(Tail(messageCH)) /\ m \in Message(wal)
          /\ \E c \in Commits(wal) : Belongs(m, c)
      BY <1>3, <3>1, BelongTail
    <3> HIDE DEF m
    <3>3. AllBelong(unacked')
      BY <1>3, <3>1, <3>2, BelongAppend
    <3>4. \E c \in Commits(wal) : m.change \in Changes(wal, c)
      BY <3>2 DEF Belongs
    <3>5. QED
      BY <3>1, <3>2, <3>3, <3>4
  <2>5. CASE Ack
    <3>1. PICK k \in 1..Len(unacked) : unacked' = SubSeq(unacked, k + 1, Len(unacked))
      BY <2>5 DEF Ack
    <3>2. UNCHANGED <<outbox, messageCH, delivered>>
      BY <2>5 DEF Ack
    <3>3. QED
      BY <1>3, <3>1, <3>2, BelongDrop
  <2>6. QED
    BY <2>1, <2>2, <2>3, <2>4, <2>5
<1>5. AllBelong(outbox)' /\ AllBelong(messageCH)' /\ AllBelong(unacked)'
  BY <1>2, <1>4 DEF AllBelong, Belongs, IsDML
<1>6. OnlyCommittedDelivered'
  BY <1>2, <1>4 DEF OnlyCommittedDelivered
<1>7. phase' = "streaming" => BuffersBelong'
  BY <1>2, BuffersBelongKept DEF ContextInv
<1>8. QED
  BY <1>1, <1>2, <1>5, <1>6, <1>7 DEF ContextInv

\* ContextInv is inductive, in every setting.
LEMMA NextContext ==
  ASSUME ContextInv, [Next]_vars
  PROVE  ContextInv'
<1>1. CASE SinkChange
  BY <1>1, ChangeTxnContext, ChangeChunkContext
<1>2. CASE \/ SinkBegin \/ SinkCommit \/ SinkStreamStart \/ SinkStreamStop
           \/ SinkStreamCommit \/ SinkStreamAbort
  BY <1>2, BeginContext, CommitSinkContext, ChunkBoundsContext,
     StreamCommitContext, StreamAbortContext
<1>3. CASE Open \/ Reconnect \/ Crash \/ DecodeSilently
  BY <1>3, FreshContext, DecodeContext
<1>4. CASE SendMessage \/ DropMessage \/ ProcessHeartbeat \/ ProcessMessage \/ Ack
  BY <1>4, QueueContext
<1>5. CASE \/ Disconnect \/ ReconnectFails \/ CancelContext \/ Close \/ PgRestart
           \/ Keepalive \/ SendStandbyStatusUpdate \/ SlotAdvance \/ UNCHANGED vars
  BY <1>5, QuietContext
<1>6. QED
  BY <1>1, <1>2, <1>3, <1>4, <1>5 DEF Next, Sink

\* In every setting, also one in which messages are dropped or savepoints of
\* streamed transactions rolled back, the invariant holds in every state.
THEOREM ContextInvariant == Spec => []ContextInv
<1>1. QED
  BY InitContext, NextContext, PTL DEF Spec

\* No change that was rolled back reaches the listener: what stampCommit,
\* flushTx and the discarding of STREAM ABORT let through is committed.
THEOREM OnlyCommitted == Spec => []OnlyCommittedDelivered
<1>1. ContextInv => OnlyCommittedDelivered
  BY DEF ContextInv
<1>2. QED
  BY <1>1, ContextInvariant, PTL

\* Every row the listener holds carries the commit LSN and the xid of its own
\* transaction, whatever was reconnected, interleaved or cancelled before.
THEOREM OwnCommitContext == Spec => []CommitContext
<1>1. ContextInv => CommitContext
  BY DEF ContextInv, CommitContext, AllBelong, Belongs
<1>2. QED
  BY <1>1, ContextInvariant, PTL

-----------------------------------------------------------------------------
(* The inductive invariant behind the contract, for a safe setting.  It is *)
(* proved together with DeliveryInv and ContextInv.                        *)

Seen == delivered \cup processed
SeenInChannel == Seen \cup ChangesOf(messageCH)

\* Change l comes in order once S has been handed over: it belongs to a commit
\* before which everything is in S, as is what precedes it in its transaction.
InOrder(w, l, S) ==
  \E c \in Commits(w) : /\ l \in Changes(w, c)
                        /\ {k \in Changes(w, c) : k < l} \subseteq S
                        /\ Covered(w, c, S)

\* If message m is marked last, nothing of its transaction is left but itself.
WholeIfLast(w, m, S) ==
  m.last => \E c \in Commits(w) : /\ m.change \in Changes(w, c)
                                  /\ Changes(w, c) \subseteq S \cup {m.change}

Follows(w, m, S) == InOrder(w, m.change, S) /\ WholeIfLast(w, m, S)

\* Each message of q comes in order after base and those before it.
InSequence(w, q, base) ==
  \A k \in DOMAIN q : Follows(w, q[k], base \cup {q[i].change : i \in 1..(k - 1)})

Increasing(q) == \A i, j \in DOMAIN q : i < j => q[i].change < q[j].change

\* The walsender sends the changes of a transaction from the first one on, and
\* the buffers keep them in that order.
BuffersInOrder ==
  /\ mode = "txn" /\ pending # NoMessage => \A k \in todo : pending.change < k
  /\ mode = "chunk" => todo = ChangesBefore(wal, activeXid, sndPos) \ sent
  /\ \A l \in sent, k \in DOMAIN wal :
       wal[k].type = "change" /\ wal[k].xid = wal[l].xid /\ k < l => k \in sent
  /\ \A x \in Xids : Increasing(txns[x])

\* The invariant: every message in a queue is the next one after what has been
\* handed over and the messages before it.
OrderInv ==
  /\ ChangesOf(unacked) \subseteq delivered
  /\ InSequence(wal, messageCH, Seen)
  /\ InSequence(wal, outbox, SeenInChannel)
  /\ \A i \in DOMAIN unacked : WholeIfLast(wal, unacked[i], Seen)
  /\ \A l \in delivered : InOrder(wal, l, Seen)
  /\ phase = "streaming" => BuffersInOrder

-----------------------------------------------------------------------------
(* Queues whose messages come in order. *)

\* What follows S follows every larger set.
LEMMA InOrderMono ==
  ASSUME NEW w, NEW l, NEW S, NEW T, S \subseteq T, InOrder(w, l, S)
  PROVE  InOrder(w, l, T)
BY CoveredMono DEF InOrder

\* What follows, or is whole, stays so when more has been handed over.
LEMMA FollowsMono ==
  ASSUME NEW w, NEW m, NEW S, NEW T, S \subseteq T
  PROVE  /\ WholeIfLast(w, m, S) => WholeIfLast(w, m, T)
         /\ Follows(w, m, S) => Follows(w, m, T)
<1>1. WholeIfLast(w, m, S) => WholeIfLast(w, m, T)
  BY DEF WholeIfLast
<1>2. QED
  BY <1>1, InOrderMono DEF Follows

\* A larger base keeps a queue in sequence.
LEMMA SequenceMono ==
  ASSUME NEW w, NEW q, NEW A, NEW B, A \subseteq B, InSequence(w, q, A)
  PROVE  InSequence(w, q, B)
<1>1. ASSUME NEW k \in DOMAIN q
      PROVE  Follows(w, q[k], B \cup {q[i].change : i \in 1..(k - 1)})
  <2> DEFINE D == {q[i].change : i \in 1..(k - 1)}
  <2>1. Follows(w, q[k], A \cup D)
    BY DEF InSequence
  <2> HIDE DEF D
  <2>2. A \cup D \subseteq B \cup D
    OBVIOUS
  <2>3. Follows(w, q[k], B \cup D)
    BY <2>1, <2>2, FollowsMono
  <2>4. QED
    BY <2>3 DEF D
<1>2. QED
  BY <1>1 DEF InSequence

\* Nothing is in an empty queue.
LEMMA SequenceEmpty ==
  ASSUME NEW w, NEW A
  PROVE  InSequence(w, <<>>, A)
BY DEF InSequence

\* A queue of one message.
LEMMA SequenceOne ==
  ASSUME NEW w, NEW m, NEW A, Follows(w, m, A)
  PROVE  InSequence(w, <<m>>, A)
<1>1. DOMAIN <<m>> = 1..1 /\ <<m>>[1] = m
  OBVIOUS
<1>2. \A k \in DOMAIN <<m>> : k = 1
  BY <1>1
<1>3. Follows(w, <<m>>[1], A \cup {<<m>>[i].change : i \in 1..(1 - 1)})
  BY <1>1, FollowsMono
<1>4. QED
  BY <1>2, <1>3 DEF InSequence

\* Appending a message that follows the whole queue.
LEMMA SequenceAppend ==
  ASSUME NEW w, NEW q \in Seq(Message(w)), NEW m \in Message(w), NEW A,
         InSequence(w, q, A), Follows(w, m, A \cup ChangesOf(q))
  PROVE  InSequence(w, Append(q, m), A)
<1> DEFINE r == Append(q, m)
           n == Len(q)
<1>1. n \in Nat /\ DOMAIN q = 1..n /\ DOMAIN r = 1..(n + 1)
  OBVIOUS
<1>2. \A i \in 1..n : r[i] = q[i]
  OBVIOUS
<1>3. r[n + 1] = m
  OBVIOUS
<1> HIDE DEF r, n
<1>4. ASSUME NEW k \in DOMAIN r
      PROVE  Follows(w, r[k], A \cup {r[i].change : i \in 1..(k - 1)})
  <2>1. CASE k = n + 1
    <3>1. {r[i].change : i \in 1..(k - 1)} = ChangesOf(q)
      BY <1>1, <1>2, <2>1 DEF ChangesOf
    <3>2. QED
      BY <1>3, <2>1, <3>1
  <2>2. CASE k \in 1..n
    <3>1. {r[i].change : i \in 1..(k - 1)} = {q[i].change : i \in 1..(k - 1)}
      BY <1>1, <1>2, <2>2
    <3>2. QED
      BY <1>1, <1>2, <2>2, <3>1 DEF InSequence
  <2>3. QED
    BY <1>1, <2>1, <2>2
<1>5. QED
  BY <1>4 DEF InSequence, r

\* Taking the head: it follows the base, and with it in the base the rest does.
LEMMA SequenceTail ==
  ASSUME NEW w, NEW q \in Seq(Message(w)), q # <<>>, NEW A, InSequence(w, q, A)
  PROVE  /\ Follows(w, Head(q), A)
         /\ InSequence(w, Tail(q), A \cup {Head(q).change})
         /\ ChangesOf(q) = ChangesOf(Tail(q)) \cup {Head(q).change}
         /\ Head(q) \in Message(w)
<1> DEFINE t == Tail(q)
           n == Len(q)
<1>1. n \in Nat \ {0} /\ DOMAIN q = 1..n /\ DOMAIN t = 1..(n - 1) /\ Head(q) = q[1]
  OBVIOUS
<1>2. \A i \in 1..(n - 1) : t[i] = q[i + 1]
  OBVIOUS
<1> HIDE DEF t, n
<1>3. Follows(w, q[1], A)
  <2>1. Follows(w, q[1], A \cup {q[i].change : i \in 1..(1 - 1)})
    BY <1>1 DEF InSequence
  <2>2. A \cup {q[i].change : i \in 1..(1 - 1)} \subseteq A
    OBVIOUS
  <2>3. QED
    BY <2>1, <2>2, FollowsMono
<1>4. ASSUME NEW k \in 1..(n - 1)
      PROVE  {q[1].change} \cup {t[i].change : i \in 1..(k - 1)} = {q[i].change : i \in 1..k}
  <2>1. ASSUME NEW i \in 1..(k - 1) PROVE t[i].change \in {q[j].change : j \in 1..k}
    <3>1. i + 1 \in 1..k /\ t[i] = q[i + 1]
      BY <1>1, <1>2, <1>4, <2>1
    <3>2. QED
      BY <3>1
  <2>2. ASSUME NEW j \in 1..k, j # 1
        PROVE  q[j].change \in {t[i].change : i \in 1..(k - 1)}
    <3>1. j - 1 \in 1..(k - 1) /\ t[j - 1] = q[j]
      BY <1>1, <1>2, <1>4, <2>2
    <3>2. QED
      BY <3>1
  <2>3. 1 \in 1..k
    BY <1>1, <1>4
  <2>4. QED
    BY <2>1, <2>2, <2>3
<1>5. ASSUME NEW k \in DOMAIN t
      PROVE  Follows(w, t[k], (A \cup {q[1].change}) \cup {t[i].change : i \in 1..(k - 1)})
  <2>1. k \in 1..(n - 1) /\ k + 1 \in DOMAIN q /\ t[k] = q[k + 1] /\ (k + 1) - 1 = k
    BY <1>1, <1>2
  <2>2. Follows(w, q[k + 1], A \cup {q[i].change : i \in 1..k})
    BY <2>1 DEF InSequence
  <2>3. A \cup {q[i].change : i \in 1..k}
          = (A \cup {q[1].change}) \cup {t[i].change : i \in 1..(k - 1)}
    BY <1>4, <2>1
  <2>4. QED
    BY <2>1, <2>2, <2>3
<1>6. InSequence(w, t, A \cup {q[1].change})
  BY <1>5 DEF InSequence
<1>7. ChangesOf(q) = ChangesOf(t) \cup {q[1].change}
  <2>1. ASSUME NEW i \in 1..n, i # 1 PROVE q[i].change \in ChangesOf(t)
    <3>1. i - 1 \in 1..(n - 1) /\ t[i - 1] = q[i]
      BY <1>1, <1>2, <2>1
    <3>2. QED
      BY <1>1, <3>1 DEF ChangesOf
  <2>2. ASSUME NEW i \in 1..(n - 1) PROVE t[i].change \in ChangesOf(q)
    <3>1. i + 1 \in 1..n
      BY <1>1
    <3>2. QED
      BY <1>1, <1>2, <3>1 DEF ChangesOf
  <2>3. ASSUME NEW a \in ChangesOf(q) PROVE a \in ChangesOf(t) \cup {q[1].change}
    BY <1>1, <2>1 DEF ChangesOf
  <2>4. ASSUME NEW a \in ChangesOf(t) PROVE a \in ChangesOf(q)
    BY <1>1, <2>2 DEF ChangesOf
  <2>5. q[1].change \in ChangesOf(q)
    BY <1>1 DEF ChangesOf
  <2>6. QED
    BY <2>3, <2>4, <2>5
<1>8. Head(q) \in Message(w)
  OBVIOUS
<1>9. QED
  BY <1>1, <1>3, <1>6, <1>7, <1>8 DEF t

-----------------------------------------------------------------------------
(* OrderInv is inductive. *)

\* The initial states satisfy OrderInv.
LEMMA InitOrder == Init => OrderInv
<1> SUFFICES ASSUME Init PROVE OrderInv
  OBVIOUS
<1>1. InSequence(wal, messageCH, Seen) /\ InSequence(wal, outbox, SeenInChannel)
  BY SequenceEmpty DEF Init
<1>2. ChangesOf(unacked) = {}
  BY QueueEmpty DEF Init
<1>3. QED
  BY <1>1, <1>2 DEF Init, OrderInv

\* A step that touches neither the consumer nor the channel.
LEMMA OrderOutbox ==
  ASSUME OrderInv, UNCHANGED <<wal, messageCH, unacked, delivered, processed>>,
         outbox' = outbox \/ InSequence(wal, outbox', SeenInChannel),
         phase' = "streaming" => BuffersInOrder'
  PROVE  OrderInv'
<1>1. Seen' = Seen /\ SeenInChannel' = SeenInChannel
  BY DEF Seen, SeenInChannel
<1>2. InSequence(wal, outbox', SeenInChannel)
  BY DEF OrderInv
<1>3. QED
  BY <1>1, <1>2 DEF OrderInv

\* A step that leaves the sink's buffers and the walsender alone.
LEMMA BuffersInOrderKept ==
  ASSUME BuffersInOrder, UNCHANGED <<wal, walsender, buffers>>
  PROVE  BuffersInOrder'
BY DEF BuffersInOrder, walsender, buffers

\* The steps that move no message and leave the buffers alone, or give up what
\* could not be sent.
LEMMA QuietOrder ==
  ASSUME OrderInv,
         \/ Disconnect \/ ReconnectFails \/ CancelContext \/ Close \/ PgRestart
         \/ Keepalive \/ SendStandbyStatusUpdate \/ SlotAdvance \/ UNCHANGED vars
         \/ DropMessage
  PROVE  OrderInv'
<1> USE DEF server, walsender, buffers, pipeline, replay, consumer, control
<1>1. /\ UNCHANGED <<wal, messageCH, unacked, delivered, processed>>
      /\ outbox' = outbox \/ outbox' = <<>>
  BY DEF Disconnect, ReconnectFails, CancelContext, Close, PgRestart, Keepalive,
         SendStandbyStatusUpdate, SlotAdvance, vars, DropMessage
<1>2. phase' = "streaming" =>
        phase = "streaming" /\ UNCHANGED <<wal, walsender, buffers>>
  BY DEF Disconnect, ReconnectFails, CancelContext, Close, PgRestart, Keepalive,
         Receive, SendStandbyStatusUpdate, SlotAdvance, vars, DropMessage
<1>3. phase' = "streaming" => BuffersInOrder'
  BY <1>2, BuffersInOrderKept DEF OrderInv
<1>4. QED
  BY <1>1, <1>3, SequenceEmpty, OrderOutbox

\* Open, Reconnect and Crash leave empty buffers behind.
LEMMA FreshOrder ==
  ASSUME ContextInv, OrderInv, Open \/ Reconnect \/ Crash
  PROVE  OrderInv'
<1> USE DEF server, walsender, buffers, pipeline, replay, consumer, control
<1>1. txns' = EmptyTxns /\ (phase' = "streaming" => mode' = "idle" /\ sent' = {})
  BY DEF ContextInv, Open, Reconnect, Crash, FreshBuffers, StartReplication
<1>2. phase' = "streaming" => BuffersInOrder'
  BY <1>1 DEF BuffersInOrder, EmptyTxns, Increasing
<1>3. CASE Crash
  <2>1. /\ outbox' = <<>> /\ messageCH' = <<>> /\ unacked' = <<>> /\ delivered' = {}
    BY <1>3 DEF Crash
  <2>2. InSequence(wal', messageCH', Seen') /\ InSequence(wal', outbox', SeenInChannel')
    BY <2>1, SequenceEmpty
  <2>3. ChangesOf(unacked') = {}
    BY <2>1, QueueEmpty
  <2>4. QED
    BY <1>2, <2>1, <2>2, <2>3 DEF OrderInv
<1>4. CASE Open \/ Reconnect
  BY <1>2, <1>4, OrderOutbox DEF Open, Reconnect
<1>5. QED
  BY <1>3, <1>4

\* The records that send nothing, BEGIN, and the bounds of a chunk.
LEMMA RecordOrder ==
  ASSUME OrderInv, DecodeSilently \/ SinkBegin \/ SinkStreamStart \/ SinkStreamStop
  PROVE  OrderInv'
<1> USE DEF server, walsender, buffers, pipeline, replay, consumer, control
<1>1. /\ phase = "streaming"
      /\ UNCHANGED <<wal, messageCH, unacked, delivered, processed, outbox, sent, txns>>
  BY DEF DecodeSilently, SinkBegin, SinkStreamStart, SinkStreamStop, Receive
<1>2. /\ mode' = "txn" => pending' = NoMessage
      /\ mode' = "chunk" => todo' = ChangesBefore(wal, activeXid', sndPos') \ sent
  BY DEF DecodeSilently, SinkBegin, SinkStreamStart, SinkStreamStop, AtRecord
<1>3. BuffersInOrder'
  BY <1>1, <1>2 DEF OrderInv, BuffersInOrder
<1>4. QED
  BY <1>1, <1>3, OrderOutbox

\* STREAM ABORT empties a buffer.
LEMMA StreamAbortOrder ==
  ASSUME TypeOK, OrderInv, SinkStreamAbort
  PROVE  OrderInv'
<1> USE DEF server, walsender, buffers, pipeline, replay, consumer, control
<1>1. /\ phase = "streaming" /\ mode = "idle"
      /\ txns' = [txns EXCEPT ![wal[sndPos].xid] = <<>>]
      /\ UNCHANGED <<wal, messageCH, unacked, delivered, processed, outbox, sent, mode>>
  BY DEF SinkStreamAbort, AtRecord, Receive, DiscardTx
<1>2. \A x \in Xids : txns'[x] \in {<<>>, txns[x]}
  BY <1>1 DEF TypeOK, BufferTypes
<1>3. BuffersInOrder'
  BY <1>1, <1>2 DEF OrderInv, BuffersInOrder, Increasing
<1>4. QED
  BY <1>1, <1>3, OrderOutbox

\* The process goroutine takes the next message: for the listener, or the
\* connector's own heartbeat.
LEMMA ProcessOrder ==
  ASSUME TypeOK, OrderInv, ProcessMessage \/ ProcessHeartbeat
  PROVE  OrderInv'
<1> USE DEF server, walsender, buffers, pipeline, replay, consumer, control
<1> DEFINE m == Head(messageCH)
<1>1. /\ messageCH # <<>> /\ messageCH' = Tail(messageCH)
      /\ UNCHANGED <<wal, outbox, phase, walsender, buffers>>
  BY DEF ProcessMessage, ProcessHeartbeat, Take
<1>2. \/ /\ unacked' = Append(unacked, m) /\ delivered' = delivered \cup {m.change}
         /\ UNCHANGED processed
      \/ UNCHANGED <<unacked, delivered>> /\ processed' = processed \cup {m.change}
  BY DEF ProcessMessage, ProcessHeartbeat
<1>3. messageCH \in Seq(Message(wal)) /\ unacked \in Seq(Message(wal))
  BY DEF TypeOK, QueueTypes
<1>4. /\ Follows(wal, m, Seen)
      /\ InSequence(wal, Tail(messageCH), Seen \cup {m.change})
      /\ ChangesOf(messageCH) = ChangesOf(Tail(messageCH)) \cup {m.change}
      /\ m \in Message(wal)
  BY <1>1, <1>3, SequenceTail DEF OrderInv
<1> HIDE DEF m
<1>5. Seen' = Seen \cup {m.change}
  BY <1>2 DEF Seen
<1>6. SeenInChannel' = SeenInChannel
  BY <1>1, <1>4, <1>5 DEF SeenInChannel
<1>7. \A l \in delivered' : InOrder(wal, l, Seen')
  <2>1. \A l \in delivered \cup {m.change} : InOrder(wal, l, Seen)
    BY <1>4 DEF OrderInv, Follows
  <2>2. QED
    BY <1>2, <1>5, <2>1, InOrderMono
<1>8. /\ ChangesOf(unacked') \subseteq delivered'
      /\ \A i \in DOMAIN unacked' : WholeIfLast(wal, unacked'[i], Seen')
  <2>1. \A i \in DOMAIN unacked : WholeIfLast(wal, unacked[i], Seen')
    BY <1>5, FollowsMono DEF OrderInv
  <2>2. WholeIfLast(wal, m, Seen')
    BY <1>4, <1>5, FollowsMono DEF Follows
  <2>3. /\ DOMAIN Append(unacked, m) = 1..(Len(unacked) + 1)
        /\ DOMAIN unacked = 1..Len(unacked) /\ Len(unacked) \in Nat
        /\ \A i \in 1..Len(unacked) : Append(unacked, m)[i] = unacked[i]
        /\ Append(unacked, m)[Len(unacked) + 1] = m
    BY <1>3, <1>4
  <2>4. ChangesOf(Append(unacked, m)) = ChangesOf(unacked) \cup {m.change}
    BY <2>3 DEF ChangesOf
  <2>5. ASSUME NEW i \in DOMAIN Append(unacked, m)
        PROVE  WholeIfLast(wal, Append(unacked, m)[i], Seen')
    <3>1. i \in 1..Len(unacked) \/ i = Len(unacked) + 1
      BY <2>3
    <3>2. QED
      BY <2>1, <2>2, <2>3, <3>1
  <2>6. CASE unacked' = Append(unacked, m) /\ delivered' = delivered \cup {m.change}
    <3>1. ChangesOf(unacked) \subseteq delivered
      BY DEF OrderInv
    <3>2. QED
      BY <2>4, <2>5, <2>6, <3>1
  <2>7. CASE UNCHANGED <<unacked, delivered>>
    BY <2>1, <2>7 DEF OrderInv
  <2>8. QED
    BY <1>2, <2>6, <2>7
<1>9. phase' = "streaming" => BuffersInOrder'
  BY <1>1, BuffersInOrderKept DEF OrderInv
<1>10. QED
  BY <1>1, <1>4, <1>5, <1>6, <1>7, <1>8, <1>9 DEF OrderInv

\* The listener acks what it was handed, so that nothing new has been seen.
LEMMA AckOrder ==
  ASSUME TypeOK, OrderInv, Ack
  PROVE  OrderInv' /\ (\E S \in SUBSET delivered : processed' = processed \cup S)
<1> USE DEF server, walsender, buffers, pipeline, replay, consumer, control
<1>1. PICK k \in 1..Len(unacked) : Ack!2!(k)
  BY DEF Ack
<1>2. UNCHANGED <<wal, outbox, messageCH, delivered, phase, walsender, buffers>>
  BY DEF Ack
<1> DEFINE S == {unacked[i].change : i \in 1..k}
           r == SubSeq(unacked, k + 1, Len(unacked))
<1>3. unacked' = r /\ processed' = processed \cup S
  BY <1>1
<1>4. unacked \in Seq(Message(wal)) /\ DOMAIN unacked = 1..Len(unacked) /\ Len(unacked) \in Nat
  BY DEF TypeOK, QueueTypes
<1>5. DOMAIN r = 1..(Len(unacked) - k) /\ \A i \in DOMAIN r : r[i] = unacked[i + k]
  BY <1>4
<1>6. \A i \in DOMAIN r : i + k \in DOMAIN unacked
  BY <1>4, <1>5
<1>7. S \subseteq delivered
  BY <1>4 DEF OrderInv, ChangesOf
<1> HIDE DEF r, S
<1>8. Seen' = Seen /\ SeenInChannel' = SeenInChannel
  BY <1>2, <1>3, <1>7 DEF Seen, SeenInChannel
<1>9. ChangesOf(r) \subseteq ChangesOf(unacked)
  BY <1>5, <1>6 DEF ChangesOf
<1>10. \A i \in DOMAIN r : WholeIfLast(wal, r[i], Seen)
  BY <1>5, <1>6 DEF OrderInv
<1>11. phase' = "streaming" => BuffersInOrder'
  BY <1>2, BuffersInOrderKept DEF OrderInv
<1>12. OrderInv'
  BY <1>2, <1>3, <1>8, <1>9, <1>10, <1>11 DEF OrderInv
<1>13. QED
  BY <1>3, <1>7, <1>12

\* The blocking send moves the head of the outbox to the end of the channel.
LEMMA SendOrder ==
  ASSUME TypeOK, OrderInv, SendMessage
  PROVE  OrderInv'
<1> USE DEF server, walsender, buffers, pipeline, replay, consumer, control
<1> DEFINE m == Head(outbox)
<1>1. /\ outbox # <<>> /\ outbox' = Tail(outbox) /\ messageCH' = Append(messageCH, m)
      /\ UNCHANGED <<wal, phase, walsender, buffers, unacked, delivered, processed>>
  BY DEF SendMessage
<1>2. messageCH \in Seq(Message(wal)) /\ outbox \in Seq(Message(wal))
  BY DEF TypeOK, QueueTypes
<1>3. /\ Follows(wal, m, SeenInChannel)
      /\ InSequence(wal, Tail(outbox), SeenInChannel \cup {m.change})
      /\ m \in Message(wal)
  BY <1>1, <1>2, SequenceTail DEF OrderInv
<1> HIDE DEF m
<1>4. Seen' = Seen
  BY <1>1 DEF Seen
<1>5. InSequence(wal, messageCH', Seen)
  <2>1. SeenInChannel = Seen \cup ChangesOf(messageCH)
    BY DEF SeenInChannel
  <2>2. InSequence(wal, messageCH, Seen)
    BY DEF OrderInv
  <2>3. QED
    BY <1>1, <1>2, <1>3, <2>1, <2>2, SequenceAppend
<1>6. ChangesOf(messageCH') = ChangesOf(messageCH) \cup {m.change}
  <2>1. /\ DOMAIN Append(messageCH, m) = 1..(Len(messageCH) + 1)
        /\ DOMAIN messageCH = 1..Len(messageCH) /\ Len(messageCH) \in Nat
        /\ \A i \in 1..Len(messageCH) : Append(messageCH, m)[i] = messageCH[i]
        /\ Append(messageCH, m)[Len(messageCH) + 1] = m
    BY <1>2, <1>3
  <2>2. QED
    BY <1>1, <2>1 DEF ChangesOf
<1>7. SeenInChannel' = SeenInChannel \cup {m.change}
  BY <1>4, <1>6 DEF SeenInChannel
<1>8. phase' = "streaming" => BuffersInOrder'
  BY <1>1, BuffersInOrderKept DEF OrderInv
<1>9. QED
  BY <1>1, <1>3, <1>4, <1>5, <1>7, <1>8 DEF OrderInv

\* What is in the pipeline has been seen or is in the channel, when the sink is
\* not blocked sending.
LEMMA PipelineSeen ==
  ASSUME OrderInv, outbox = <<>>
  PROVE  InPipeline \subseteq SeenInChannel
<1>1. ChangesOf(outbox) = {}
  BY QueueEmpty
<1>2. ChangesOf(unacked) \subseteq delivered
  BY DEF OrderInv
<1>3. QED
  BY <1>1, <1>2 DEF InPipeline, InChannel, InHand, SeenInChannel, Seen

\* The pending message comes in order: what precedes it in its transaction has
\* left the sink, as has every transaction that committed before.
LEMMA PendingFollows ==
  ASSUME DeliveryInv, ContextInv, OrderInv, phase = "streaming", mode = "txn",
         outbox = <<>>, pending # NoMessage
  PROVE  /\ InOrder(wal, pending.change, SeenInChannel)
         /\ todo = {} => Changes(wal, sndPos) \subseteq SeenInChannel \cup {pending.change}
         /\ sndPos \in Commits(wal) /\ pending.change \in Changes(wal, sndPos)
         /\ pending \in Message(wal) /\ ~pending.last
<1>1. WalsenderInv /\ BuffersBelong /\ BuffersInOrder /\ TypeOK
  BY DEF DeliveryInv, ContextInv, OrderInv
<1>2. /\ sndPos \in Commits(wal) /\ pending.change \in Changes(wal, sndPos) /\ ~pending.last
      /\ pending \in Message(wal)
  BY <1>1 DEF BuffersBelong, Belongs, TypeOK, BufferTypes
<1>3. InPipeline \subseteq SeenInChannel
  BY PipelineSeen
<1>4. Changes(wal, sndPos) \subseteq SeenInChannel \cup {pending.change} \cup todo
  BY <1>1, <1>3 DEF WalsenderInv
<1>5. \A k \in todo : pending.change < k
  BY <1>1 DEF BuffersInOrder
<1>6. Changes(wal, sndPos) \subseteq Nat
  BY <1>1, WalFacts DEF TypeOK, ServerTypes, Changes, ChangesBefore
<1>7. {k \in Changes(wal, sndPos) : k < pending.change} \subseteq SeenInChannel
  <2>1. SUFFICES ASSUME NEW k \in Changes(wal, sndPos), k < pending.change
                 PROVE  k \in SeenInChannel
    OBVIOUS
  <2>2. k # pending.change /\ ~(pending.change < k)
    BY <1>2, <1>6, <2>1
  <2>3. QED
    BY <1>4, <1>5, <2>2
<1>8. Covered(wal, sndPos, SeenInChannel)
  BY <1>1, <1>3, CoveredMono DEF WalsenderInv
<1>9. QED
  BY <1>2, <1>4, <1>7, <1>8 DEF InOrder

\* COMMIT sends the pending message as the last one of its transaction.
LEMMA CommitSinkOrder ==
  ASSUME DeliveryInv, ContextInv, OrderInv, SinkCommit
  PROVE  OrderInv'
<1> USE DEF server, walsender, buffers, pipeline, replay, consumer, control
<1>1. /\ phase = "streaming" /\ mode = "txn" /\ todo = {} /\ outbox = <<>>
      /\ mode' = "idle"
      /\ outbox' = IF pending = NoMessage THEN <<>>
                   ELSE <<AsLast(pending, EndLSN(sndPos))>>
      /\ UNCHANGED <<wal, messageCH, unacked, delivered, processed, sent, txns>>
  BY DEF SinkCommit, Receive
<1>2. BuffersInOrder'
  BY <1>1 DEF OrderInv, BuffersInOrder
<1>3. InSequence(wal, outbox', SeenInChannel)
  <2>1. CASE pending = NoMessage
    BY <1>1, <2>1, SequenceEmpty
  <2>2. CASE pending # NoMessage
    <3> DEFINE m == AsLast(pending, EndLSN(sndPos))
    <3>1. /\ InOrder(wal, pending.change, SeenInChannel)
          /\ Changes(wal, sndPos) \subseteq SeenInChannel \cup {pending.change}
          /\ sndPos \in Commits(wal) /\ pending.change \in Changes(wal, sndPos)
          /\ pending \in Message(wal)
      BY <1>1, <2>2, PendingFollows
    <3>2. EndLSN(sndPos) \in Nat
      BY DEF DeliveryInv, TypeOK, ServerTypes, EndLSN
    <3>3. m.change = pending.change
      BY <3>1, <3>2, AsLastFacts
    <3> HIDE DEF m
    <3>4. Follows(wal, m, SeenInChannel)
      BY <3>1, <3>3 DEF Follows, WholeIfLast
    <3>5. outbox' = <<m>>
      BY <1>1, <2>2 DEF m
    <3>6. QED
      BY <3>4, <3>5, SequenceOne
  <2>3. QED
    BY <2>1, <2>2
<1>4. QED
  BY <1>1, <1>2, <1>3, OrderOutbox

\* A change outside a chunk sends the one held back, which precedes it.
LEMMA ChangeTxnOrder ==
  ASSUME DeliveryInv, ContextInv, OrderInv, SinkChange, mode # "chunk"
  PROVE  OrderInv'
<1> USE DEF server, walsender, buffers, pipeline, replay, consumer, control
<1>1. PICK l \in todo : SinkChange!(l)
  BY DEF SinkChange
<1>2. phase = "streaming" /\ outbox = <<>> /\ IsFirst(l, todo)
  BY <1>1 DEF Receive
<1>3. TypeOK /\ BuffersBelong
  BY <1>2 DEF ContextInv
<1>4. mode = "txn" /\ ~streaming
  BY <1>3 DEF BuffersBelong, TypeOK, ServerTypes
<1> DEFINE m == [NoMessage EXCEPT !.change = l, !.walStart = l]
           sm == stampCommit(m, txCommit.lsn, txCommit.xid)
<1>5. /\ outbox' = IF pending = NoMessage THEN <<>> ELSE <<pending>>
      /\ pending' = sm /\ txns' = txns /\ todo' = todo \ {l} /\ sent' = sent
      /\ UNCHANGED <<wal, sndPos, mode, messageCH, unacked, delivered, processed>>
  BY <1>1, <1>4 DEF BufferMessage
<1>6. todo \subseteq Nat /\ l \in DOMAIN wal /\ l \in Nat
  BY <1>3, WalFacts DEF TypeOK, ServerTypes
<1>7. m \in Message(wal) /\ m.change = l
  BY <1>6 DEF Message, NoMessage
<1>8. txCommit.lsn \in Nat /\ txCommit.xid \in Xids \cup {0}
  BY <1>3 DEF TypeOK, BufferTypes
<1> HIDE DEF m
<1>9. sm.change = l
  BY <1>7, <1>8, StampFacts
<1> HIDE DEF sm
<1>10. \A k \in todo' : l < k
  BY <1>2, <1>5, <1>6 DEF IsFirst
<1>11. BuffersInOrder'
  BY <1>2, <1>4, <1>5, <1>9, <1>10 DEF OrderInv, BuffersInOrder
<1>12. InSequence(wal, outbox', SeenInChannel)
  <2>1. CASE pending = NoMessage
    BY <1>5, <2>1, SequenceEmpty
  <2>2. CASE pending # NoMessage
    <3>1. Follows(wal, pending, SeenInChannel)
      BY <1>2, <1>4, <2>2, PendingFollows DEF Follows, WholeIfLast
    <3>2. QED
      BY <1>5, <2>2, <3>1, SequenceOne
  <2>3. QED
    BY <2>1, <2>2
<1>13. QED
  BY <1>5, <1>11, <1>12, OrderOutbox

\* A change inside a chunk comes after all that is buffered of its transaction.
LEMMA ChangeChunkOrder ==
  ASSUME SafeSetting, DeliveryInv, ContextInv, OrderInv, SinkChange, mode = "chunk"
  PROVE  OrderInv'
<1> USE DEF server, walsender, buffers, pipeline, replay, consumer, control
<1>1. PICK l \in todo : SinkChange!(l)
  BY DEF SinkChange
<1>2. phase = "streaming" /\ outbox = <<>> /\ IsFirst(l, todo)
  BY <1>1 DEF Receive
<1>3. TypeOK /\ BuffersBelong /\ BuffersInOrder /\ WalsenderInv
  BY <1>2 DEF ContextInv, OrderInv, DeliveryInv
<1>4. /\ streaming /\ activeXid \in Xids
      /\ todo = ChangesBefore(wal, activeXid, sndPos) \ sent
  BY <1>3 DEF BuffersBelong, BuffersInOrder
<1> DEFINE m == [NoMessage EXCEPT !.change = l, !.walStart = l]
           q == txns[activeXid]
<1>5. /\ txns' = [txns EXCEPT ![activeXid] = Append(@, m)]
      /\ todo' = todo \ {l} /\ sent' = sent \cup {l}
      /\ UNCHANGED <<wal, sndPos, mode, activeXid, outbox, messageCH, unacked,
                     delivered, processed>>
  BY <1>1, <1>4 DEF AppendMessage
<1>6. m.change = l
  BY DEF NoMessage
<1> HIDE DEF m
<1>7. txns \in [Xids -> Seq(Message(wal))] /\ q \in Seq(Message(wal))
  BY <1>3, <1>4 DEF TypeOK, BufferTypes
<1>8. /\ txns'[activeXid] = Append(q, m)
      /\ \A x \in Xids \ {activeXid} : txns'[x] = txns[x]
  BY <1>4, <1>5, <1>7
<1>9. \A i \in DOMAIN q : q[i].change \in ChangesBefore(wal, activeXid, sndPos) \cap sent
  BY <1>3, <1>4 DEF BuffersBelong, TxnsBelong
<1>10. Increasing(q)
  BY <1>3, <1>4 DEF BuffersInOrder
<1> HIDE DEF q
<1>11. /\ DOMAIN Append(q, m) = 1..(Len(q) + 1) /\ DOMAIN q = 1..Len(q)
       /\ Len(q) \in Nat
       /\ \A i \in 1..Len(q) : Append(q, m)[i] = q[i]
       /\ Append(q, m)[Len(q) + 1] = m
  BY <1>7
<1>12. DOMAIN wal \subseteq Nat
  BY <1>3, WalFacts DEF TypeOK, ServerTypes
<1>13. /\ l \in DOMAIN wal /\ l \notin sent /\ l < sndPos
       /\ wal[l].type = "change" /\ wal[l].xid = activeXid
  BY <1>4 DEF ChangesBefore
<1>14. \A i \in DOMAIN q : q[i].change < l
  <2>1. SUFFICES ASSUME NEW i \in DOMAIN q PROVE q[i].change < l
    OBVIOUS
  <2>2. /\ q[i].change \in sent /\ q[i].change \in DOMAIN wal
        /\ wal[q[i].change].xid = activeXid
    BY <1>9 DEF ChangesBefore
  <2>3. ~(l < q[i].change)
    BY <1>3, <1>13, <2>2 DEF BuffersInOrder
  <2>4. QED
    BY <1>12, <1>13, <2>2, <2>3
<1>15. Increasing(Append(q, m))
  <2>1. SUFFICES ASSUME NEW i \in DOMAIN Append(q, m), NEW j \in DOMAIN Append(q, m), i < j
                 PROVE  Append(q, m)[i].change < Append(q, m)[j].change
    BY DEF Increasing
  <2>2. i \in DOMAIN q /\ (j \in DOMAIN q \/ j = Len(q) + 1)
    BY <1>11, <2>1
  <2>3. CASE j \in DOMAIN q
    BY <1>10, <1>11, <2>1, <2>2, <2>3 DEF Increasing
  <2>4. CASE j = Len(q) + 1
    BY <1>6, <1>11, <1>14, <2>2, <2>4
  <2>5. QED
    BY <2>2, <2>3, <2>4
<1>16. \A k \in DOMAIN wal : wal[k].type = "change" /\ wal[k].xid = activeXid /\ k < l => k \in sent
  <2>1. SUFFICES ASSUME NEW k \in DOMAIN wal, wal[k].type = "change",
                        wal[k].xid = activeXid, k < l, k \notin sent
                 PROVE  FALSE
    OBVIOUS
  <2>2. Streaming /\ wal \in Wals
    BY <1>3 DEF WalsenderInv, TypeOK, ServerTypes
  <2>3. ~RolledBack(wal, k, sndPos)
    BY <2>2 DEF SafeSetting, RolledBack
  <2>4. k < sndPos
    BY <1>3, <1>12, <1>13, <2>1 DEF TypeOK, ServerTypes
  <2>5. k \in todo
    BY <1>4, <2>1, <2>3, <2>4 DEF ChangesBefore
  <2>6. QED
    BY <1>2, <1>12, <1>13, <2>1, <2>5 DEF IsFirst
<1>17. \A x \in Xids : Increasing(txns'[x])
  BY <1>3, <1>8, <1>15 DEF BuffersInOrder
<1>18. \A j \in sent', k \in DOMAIN wal :
         wal[k].type = "change" /\ wal[k].xid = wal[j].xid /\ k < j => k \in sent'
  BY <1>3, <1>5, <1>13, <1>16 DEF BuffersInOrder
<1>19. todo' = ChangesBefore(wal, activeXid, sndPos) \ sent'
  BY <1>4, <1>5
<1>20. BuffersInOrder'
  BY <1>5, <1>17, <1>18, <1>19 DEF BuffersInOrder
<1>21. QED
  BY <1>5, <1>20, OrderOutbox

\* STREAM COMMIT sends the whole transaction in the order of its changes.
LEMMA StreamCommitOrder ==
  ASSUME DeliveryInv, ContextInv, OrderInv, SinkStreamCommit
  PROVE  OrderInv'
<1> USE DEF server, walsender, buffers, pipeline, replay, consumer, control
<1> DEFINE y == wal[sndPos].xid
           q == txns[y]
           F == FlushTx(y, sndPos)
<1>1. /\ phase = "streaming" /\ mode = "idle" /\ sndPos \in Commits(wal)
      /\ sndPos \in DOMAIN wal /\ outbox = <<>> /\ Changes(wal, sndPos) \subseteq sent
      /\ outbox' = F /\ txns' = [txns EXCEPT ![y] = <<>>]
      /\ UNCHANGED <<wal, sent, mode, messageCH, unacked, delivered, processed>>
  BY DEF SinkStreamCommit, AtRecord, Receive, Commits
<1>2. TypeOK /\ BuffersBelong /\ BuffersInOrder /\ WalsenderInv
  BY <1>1 DEF ContextInv, OrderInv, DeliveryInv
<1>3. y \in Xids /\ sndPos \in Nat /\ txns \in [Xids -> Seq(Message(wal))] /\ WellFormed(wal)
      /\ DOMAIN wal \subseteq Nat
  BY <1>1, <1>2, WalFacts DEF TypeOK, ServerTypes, BufferTypes
<1>4. \A x \in Xids : txns'[x] \in {<<>>, txns[x]}
  BY <1>1, <1>3
<1>5. BuffersInOrder'
  BY <1>1, <1>2, <1>4 DEF BuffersInOrder, Increasing
<1>6. q \in Seq(Message(wal)) /\ DOMAIN q = 1..Len(q) /\ Len(q) \in Nat
  BY <1>3
<1>7. \A i \in DOMAIN q : q[i].change \in Changes(wal, sndPos) /\ ~q[i].last
  BY <1>2, <1>3 DEF BuffersBelong, TxnsBelong, Changes
<1>8. \A i \in DOMAIN q : F[i].last => i = Len(q)
  BY <1>1, <1>3, <1>6, <1>7, FlushBelongs
<1>9. DOMAIN F = DOMAIN q /\ \A i \in DOMAIN q : F[i].change = q[i].change
  BY <1>3, <1>6, FlushFacts
<1>10. ~Ended(y, sndPos)
  BY <1>1, <1>3 DEF Ended, WellFormed
<1>11. Changes(wal, sndPos) \subseteq ChangesOf(q)
  BY <1>1, <1>2, <1>3, <1>10 DEF WalsenderInv, Changes, ChangesBefore
<1>12. Covered(wal, sndPos, SeenInChannel)
  BY <1>1, <1>2, PipelineSeen, CoveredMono DEF WalsenderInv
<1>13. Increasing(q)
  BY <1>2, <1>3 DEF BuffersInOrder
<1>14. Changes(wal, sndPos) \subseteq Nat
  BY <1>3 DEF Changes, ChangesBefore
<1> HIDE DEF q, F, y
<1>15. ASSUME NEW k \in DOMAIN F
       PROVE  Follows(wal, F[k], SeenInChannel \cup {F[i].change : i \in 1..(k - 1)})
  <2> DEFINE D == {F[i].change : i \in 1..(k - 1)}
  <2>1. k \in DOMAIN q /\ k \in 1..Len(q) /\ F[k].change = q[k].change
        /\ q[k].change \in Changes(wal, sndPos)
    BY <1>6, <1>7, <1>9
  <2>2. \A i \in DOMAIN q : i < k => q[i].change \in D
    <3>1. SUFFICES ASSUME NEW i \in DOMAIN q, i < k PROVE q[i].change \in D
      OBVIOUS
    <3>2. i \in 1..(k - 1) /\ F[i].change = q[i].change
      BY <1>6, <1>9, <2>1, <3>1
    <3>3. QED
      BY <3>2
  <2> HIDE DEF D
  <2>3. {j \in Changes(wal, sndPos) : j < F[k].change} \subseteq D
    <3>1. SUFFICES ASSUME NEW j \in Changes(wal, sndPos), j < q[k].change PROVE j \in D
      BY <2>1
    <3>2. PICK i \in DOMAIN q : q[i].change = j
      BY <1>11 DEF ChangesOf
    <3>3. ~(q[k].change < j) /\ j # q[k].change
      BY <1>14, <2>1, <3>1
    <3>4. i # k /\ ~(k < i)
      BY <1>13, <2>1, <3>2, <3>3 DEF Increasing
    <3>5. i < k
      BY <1>6, <2>1, <3>2, <3>4
    <3>6. QED
      BY <2>2, <3>2, <3>5
  <2>4. Covered(wal, sndPos, SeenInChannel \cup D)
    BY <1>12, CoveredMono
  <2>5. InOrder(wal, F[k].change, SeenInChannel \cup D)
    BY <1>1, <2>1, <2>3, <2>4 DEF InOrder
  <2>6. F[k].last => Changes(wal, sndPos) \subseteq D \cup {F[k].change}
    <3>1. SUFFICES ASSUME F[k].last, NEW j \in Changes(wal, sndPos), j # F[k].change
                   PROVE  j \in D
      OBVIOUS
    <3>2. PICK i \in DOMAIN q : q[i].change = j
      BY <1>11 DEF ChangesOf
    <3>3. k = Len(q)
      BY <1>8, <2>1, <3>1
    <3>4. i < k
      BY <1>6, <2>1, <3>1, <3>2, <3>3
    <3>5. QED
      BY <2>2, <3>2, <3>4
  <2>7. WholeIfLast(wal, F[k], SeenInChannel \cup D)
    BY <1>1, <2>1, <2>6 DEF WholeIfLast
  <2>8. QED
    BY <2>5, <2>7 DEF Follows, D
<1>16. InSequence(wal, outbox', SeenInChannel)
  BY <1>1, <1>15 DEF InSequence
<1>17. QED
  BY <1>1, <1>5, <1>16, OrderOutbox

\* OrderInv is inductive in a safe setting, given the other two invariants.
LEMMA NextOrder ==
  ASSUME SafeSetting, DeliveryInv, ContextInv, OrderInv, [Next]_vars
  PROVE  OrderInv'
<1>0. TypeOK
  BY DEF ContextInv
<1>1. CASE SinkChange
  BY <1>1, ChangeTxnOrder, ChangeChunkOrder
<1>2. CASE SinkCommit \/ SinkStreamCommit \/ SinkStreamAbort \/ SendMessage
  BY <1>0, <1>2, CommitSinkOrder, StreamCommitOrder, StreamAbortOrder, SendOrder
<1>3. CASE \/ Open \/ Reconnect \/ Crash
           \/ DecodeSilently \/ SinkBegin \/ SinkStreamStart \/ SinkStreamStop
  BY <1>3, FreshOrder, RecordOrder
<1>4. CASE ProcessHeartbeat \/ ProcessMessage \/ Ack
  BY <1>0, <1>4, ProcessOrder, AckOrder
<1>5. CASE \/ Disconnect \/ ReconnectFails \/ CancelContext \/ Close \/ PgRestart
           \/ Keepalive \/ SendStandbyStatusUpdate \/ SlotAdvance \/ UNCHANGED vars
           \/ DropMessage
  BY <1>5, QuietOrder
<1>6. QED
  BY <1>1, <1>2, <1>3, <1>4, <1>5 DEF Next, Sink

-----------------------------------------------------------------------------
(* What follows: the refinement, and the invariants of the runs. *)

\* The terms of the contract mean what they mean here.
LEMMA ContractTerms ==
  /\ \A w, c : Contract!Changes(w, c) = Changes(w, c)
  /\ \A w : Contract!Commits(w) = Commits(w)
  /\ \A w, p, S : Contract!Covered(w, p, S) = Covered(w, p, S)
  /\ \A w, p : Contract!CommittedBelow(w, p) = CommittedBelow(w, p)
  /\ Contract!Seen = Seen
<1>1. \A w, c : Contract!Changes(w, c) = Changes(w, c)
  BY DEF Contract!Changes, Changes, Contract!ChangesBefore, ChangesBefore,
         Contract!RolledBack, RolledBack
<1>2. \A w : Contract!Commits(w) = Commits(w)
  BY DEF Contract!Commits, Commits
<1>3. \A w, p, S : Contract!Covered(w, p, S) = Covered(w, p, S)
  BY <1>1, <1>2 DEF Contract!Covered, Covered
<1>4. \A w, p : Contract!CommittedBelow(w, p) = CommittedBelow(w, p)
  BY <1>1, <1>2 DEF Contract!CommittedBelow, CommittedBelow
<1>5. Contract!Seen = Seen
  BY DEF Contract!Seen, Seen
<1>6. QED
  BY <1>1, <1>2, <1>3, <1>4, <1>5

\* A message that comes in order here does so for the contract.
LEMMA ContractInOrder ==
  ASSUME NEW l, InOrder(wal, l, Seen)
  PROVE  Contract!InOrder(l)
BY ContractTerms DEF InOrder, Covered, Contract!InOrder

\* Every step of the stream is a step of the contract, or leaves what the
\* consumer and the slot can tell unchanged.
LEMMA NextContract ==
  ASSUME SafeSetting, DeliveryInv, ContextInv, OrderInv, [Next]_vars
  PROVE  [Contract!Next]_(Contract!vars)
<1> USE DEF server, walsender, buffers, pipeline, replay, consumer, control
<1>1. TypeOK
  BY DEF ContextInv
<1>2. CASE \/ Open \/ Disconnect \/ ReconnectFails \/ Reconnect \/ CancelContext
           \/ Close \/ DecodeSilently \/ Sink \/ SendStandbyStatusUpdate
           \/ UNCHANGED vars
  <2>1. UNCHANGED <<wal, confirmedFlush, delivered, processed>>
    BY <1>2 DEF Open, Disconnect, ReconnectFails, Reconnect, CancelContext,
       Close, DecodeSilently, Sink, SinkBegin, SinkCommit, SinkChange,
       SinkStreamStart, SinkStreamStop, SinkStreamCommit, SinkStreamAbort,
       SendMessage, DropMessage, Keepalive, SendStandbyStatusUpdate, vars
  <2>2. QED
    BY <2>1 DEF Contract!vars
<1>3. CASE Crash
  <2>1. Contract!StartOver
    BY <1>3 DEF Crash, Contract!StartOver
  <2>2. QED
    BY <2>1 DEF Contract!Next
<1>4. CASE PgRestart
  <2>1. Contract!FallBack
    BY <1>4 DEF PgRestart, Contract!FallBack
  <2>2. QED
    BY <2>1 DEF Contract!Next
<1>5. CASE SlotAdvance
  <2>1. /\ confirmedFlush' = Larger(confirmedFlush, inflight)
        /\ UNCHANGED <<wal, delivered, processed>>
    BY <1>5 DEF SlotAdvance
  <2>2. confirmedFlush \in Nat /\ inflight \in Nat
    BY <1>1 DEF TypeOK, ServerTypes
  <2>3. Covered(wal, inflight, processed)
    BY DEF DeliveryInv, PositionsCovered
  <2>4. CASE confirmedFlush' = confirmedFlush
    BY <2>1, <2>4 DEF Contract!vars
  <2>5. CASE confirmedFlush' = inflight /\ inflight > confirmedFlush
    <3>1. Contract!Covered(wal, confirmedFlush', processed)
      BY <2>3, <2>5, ContractTerms
    <3>2. Contract!Release
      BY <2>1, <2>2, <2>5, <3>1 DEF Contract!Release
    <3>3. QED
      BY <3>2 DEF Contract!Next
  <2>6. QED
    BY <2>1, <2>2, <2>4, <2>5 DEF Larger
<1>6. CASE ProcessHeartbeat \/ ProcessMessage
  <2> DEFINE m == Head(messageCH)
  <2>1. messageCH # <<>> /\ messageCH \in Seq(Message(wal))
    BY <1>1, <1>6 DEF ProcessHeartbeat, ProcessMessage, Take, TypeOK, QueueTypes
  <2>2. Follows(wal, m, Seen) /\ m \in Message(wal)
    BY <2>1, SequenceTail DEF OrderInv
  <2>3. Contract!InOrder(m.change) /\ m.change \in DOMAIN wal
    BY <2>2, ContractInOrder DEF Follows, Message
  <2>4. CASE ProcessHeartbeat
    <3>1. Contract!ConsumeHeartbeat
      BY <2>3, <2>4 DEF ProcessHeartbeat, isHeartbeatMessage, Contract!ConsumeHeartbeat
    <3>2. QED
      BY <3>1 DEF Contract!Next
  <2>5. CASE ProcessMessage
    <3>1. Contract!HandOver
      BY <2>3, <2>5 DEF ProcessMessage, Contract!HandOver
    <3>2. QED
      BY <3>1 DEF Contract!Next
  <2>6. QED
    BY <1>6, <2>4, <2>5
<1>7. CASE Ack
  <2>1. \E S \in SUBSET delivered : processed' = processed \cup S
    BY <1>1, <1>7, AckOrder
  <2>2. UNCHANGED <<wal, confirmedFlush, delivered>>
    BY <1>7 DEF Ack
  <2>3. Contract!Consume
    BY <2>1, <2>2 DEF Contract!Consume
  <2>4. QED
    BY <2>3 DEF Contract!Next
<1>8. QED
  BY <1>2, <1>3, <1>4, <1>5, <1>6, <1>7 DEF Next

\* An initial state of the stream is one of the contract.
LEMMA InitContract == Init => Contract!Init
BY ContractTerms DEF Init, Contract!Init

\* In a safe setting the invariant holds in every state.
THEOREM OrderInvariant == SafeSetting => (Spec => [](DeliveryInv /\ ContextInv /\ OrderInv))
<1>1. SUFFICES ASSUME SafeSetting
               PROVE  Spec => [](DeliveryInv /\ ContextInv /\ OrderInv)
  OBVIOUS
<1>2. Init => OrderInv
  BY InitOrder
<1>3. DeliveryInv /\ ContextInv /\ OrderInv /\ [Next]_vars => OrderInv'
  BY <1>1, NextOrder
<1>4. Spec => []DeliveryInv
  BY <1>1, DeliveryInvariant
<1>5. QED
  BY <1>2, <1>3, <1>4, ContextInvariant, PTL DEF Spec

\* The stream implements its contract: for every WAL, channel capacity and
\* number of faults, every step hands over the next change in commit order,
\* consumes, releases WAL that is covered, starts over, or is not noticed.
THEOREM StreamHonoursContract == SafeSetting => (Spec => HonoursContract)
<1>1. SUFFICES ASSUME SafeSetting
               PROVE  Spec => HonoursContract
  OBVIOUS
<1>2. Spec => [](DeliveryInv /\ ContextInv /\ OrderInv)
  BY <1>1, OrderInvariant
<1>3. DeliveryInv /\ ContextInv /\ OrderInv /\ [Next]_vars => [Contract!Next]_(Contract!vars)
  BY <1>1, NextContract
<1>4. QED
  BY <1>2, <1>3, InitContract, PTL DEF Spec, HonoursContract, Contract!Spec

\* A change belongs to the transaction of one commit record only.
LEMMA OneCommit ==
  ASSUME TypeOK, NEW c \in Commits(wal), NEW d \in Commits(wal), NEW l,
         l \in Changes(wal, c), l \in Changes(wal, d)
  PROVE  c = d
<1>1. WellFormed(wal) /\ DOMAIN wal \subseteq Nat
  BY WalFacts DEF TypeOK, ServerTypes
<1>2. wal[c].xid = wal[d].xid /\ c \in DOMAIN wal /\ d \in DOMAIN wal
      /\ wal[c].type = "commit" /\ wal[d].type = "commit"
  BY DEF Commits, Changes, ChangesBefore
<1>3. ~(c < d) /\ ~(d < c)
  BY <1>1, <1>2 DEF WellFormed
<1>4. QED
  BY <1>1, <1>2, <1>3

\* Transactions reach the listener in commit order, across reconnects, replays
\* and restarts of either side.
THEOREM DeliveryInCommitOrder == SafeSetting => (Spec => []CommitOrder)
<1>1. ContextInv /\ OrderInv => CommitOrder
  <2>1. SUFFICES ASSUME ContextInv, OrderInv, NEW c \in Commits(wal), NEW d \in Commits(wal),
                        d < c, NEW l \in Changes(wal, c) \cap delivered
                 PROVE  Changes(wal, d) \subseteq delivered \cup processed
    BY DEF CommitOrder
  <2>2. PICK b \in Commits(wal) : l \in Changes(wal, b) /\ Covered(wal, b, Seen)
    BY <2>1 DEF OrderInv, InOrder
  <2>3. b = c
    BY <2>1, <2>2, OneCommit DEF ContextInv
  <2>4. QED
    BY <2>1, <2>2, <2>3 DEF Covered, Seen
<1>2. QED
  BY <1>1, OrderInvariant, PTL

\* A message marked last in its transaction is the last that was missing.
THEOREM LastIsLast == SafeSetting => (Spec => []LastMeansComplete)
<1>1. OrderInv => LastMeansComplete
  <2>1. SUFFICES ASSUME OrderInv, NEW i \in DOMAIN unacked, unacked[i].last
                 PROVE  \E c \in Commits(wal) :
                          /\ unacked[i].change \in Changes(wal, c)
                          /\ Changes(wal, c) \subseteq delivered \cup processed
    BY DEF LastMeansComplete
  <2>2. unacked[i].change \in delivered
    BY <2>1 DEF OrderInv, ChangesOf
  <2>3. QED
    BY <2>1, <2>2 DEF OrderInv, WholeIfLast, Seen
<1>2. QED
  BY <1>1, OrderInvariant, PTL
=============================================================================
