------------------------- MODULE ReplicationStream -------------------------
(***************************************************************************)
(* The replication stream of pq/replication/stream.go: the sink goroutine  *)
(* that reads pgoutput messages, the look-ahead buffer and the per-xid     *)
(* buffer of streamed transactions, the channel to the process goroutine,  *)
(* the listener and its acknowledgements, the standby status updates, the  *)
(* in-process reconnect and the restart of the process.                    *)
(*                                                                         *)
(* PostgreSQL is external: its WAL is that of PgWal, the walsender and the *)
(* slot are modelled by what the sink sees of them.  One WAL is chosen     *)
(* initially: a record the walsender has not read yet may as well not be   *)
(* written.                                                                *)
(***************************************************************************)
EXTENDS PgWal

CONSTANTS
  Wals,          \* the WAL contents considered
  Streaming,     \* config.Slot.Streaming with proto_version 2
  ChanCap,       \* capacity of messageCH (1000 in NewStream)
  MaxUnacked,    \* messages the listener may hold unacked: 1 is a listener
                 \*   that acks before it returns
  UseAckLSN,     \* the listener may call AckLSN with the commit LSN
  MayCancel,     \* the context given to Run may be done before Close is called
  SnapshotLSN,   \* LSN of a completed snapshot, 0 when none was taken
  MaxFaults      \* bound on disconnects, crashes and restarts

ASSUME WalAssumption ==
  \A w \in Wals : w \in Seq(Record) /\ WellFormed(w)

ASSUME ParameterAssumption ==
  /\ 0 \notin Xids
  /\ Streaming \in BOOLEAN
  /\ ChanCap \in Nat \ {0}
  /\ MaxUnacked \in Nat \ {0}
  /\ UseAckLSN \in BOOLEAN
  /\ MayCancel \in BOOLEAN
  /\ SnapshotLSN \in Nat
  /\ MaxFaults \in Nat

VARIABLES
  wal,                    \* the server's WAL
  confirmedFlush,         \* the slot's confirmed_flush_lsn
  inflight,               \* flush position of a status update on its way, 0: none
  startAt,                \* walsender: transactions committed below are skipped
  sndPos,                 \* walsender: the next record to decode
  sent,                   \* walsender: changes streamed before their commit
  mode,                   \* walsender: "idle", inside "txn" or inside "chunk"
  cur,                    \* walsender: the xid of the transmission
  todo,                   \* walsender: changes left in the transmission
  phase,                  \* "down", "streaming", "reconnecting", "closing"
  cancelled,              \* the stream's context is done
  openFromSnapshotLSN,    \* start the next setup at the snapshot LSN
  lastXLogPos,            \* highest position received
  txCommit,               \* commit context of the transaction being decoded
  pending,                \* messageBuffer.pending
  txns,                   \* streamTxBuffer.txns (<<>>: no entry)
  activeXid, streaming,   \* streamTxBuffer.activeXid, .streaming
  outbox,                 \* messages the sink is blocked sending
  messageCH,              \* the channel to the process goroutine
  confirmedXLogPos,       \* highest position acked
  deliveredHighWaterMark, \* highest position handed to the listener
  replayFloor,            \* deliveredHighWaterMark at the last reconnect
  unacked,                \* messages the listener holds without having acked
  delivered,              \* changes this process handed to the listener
  processed,              \* changes durably consumed: acked or in the snapshot
  faults                  \* faults so far

server    == <<wal, confirmedFlush, inflight>>
walsender == <<startAt, sndPos, sent, mode, cur, todo>>
buffers   == <<txCommit, pending, txns, activeXid, streaming>>
pipeline  == <<outbox, messageCH>>
replay    == <<deliveredHighWaterMark, replayFloor>>
consumer  == <<unacked, delivered, processed>>
control   == <<phase, cancelled, openFromSnapshotLSN, faults>>

vars == <<wal, confirmedFlush, inflight, startAt, sndPos, sent, mode, cur,
          todo, phase, cancelled, openFromSnapshotLSN, lastXLogPos, txCommit,
          pending, txns, activeXid, streaming, outbox, messageCH, confirmedXLogPos,
          deliveredHighWaterMark, replayFloor, unacked, delivered, processed,
          faults>>

Larger(a, b) == IF a < b THEN b ELSE a

(***************************************************************************)
(* Messages: what the sink puts on messageCH.                              *)
(***************************************************************************)
Message(w) == [change : DOMAIN w, walStart : Nat, commitLSN : Nat,
               xid : Xids \cup {0}, last : BOOLEAN]

NoMessage == [change |-> 0, walStart |-> 0, commitLSN |-> 0, xid |-> 0,
              last |-> FALSE]

NoCommit == [lsn |-> 0, xid |-> 0]

IsDML(m) == wal[m.change].kind # "truncate"

\* Mutant: the change's own position instead of its transaction's commit.
StampOwnPosition(m, lsn, xid) ==
  [m EXCEPT !.commitLSN = m.walStart, !.xid = xid]

\* stampCommit: only inserts, updates and deletes carry a commit context.
stampCommit(m, lsn, xid) ==
  IF IsDML(m) THEN [m EXCEPT !.commitLSN = lsn, !.xid = xid] ELSE m

\* Mutant: the last message keeps the position it was sent with.
LastKeepsPosition(m, end) == [m EXCEPT !.last = IsDML(m)]

\* markLastInTransaction, and the position of the last message is rewritten.
AsLast(m, end) ==
  [m EXCEPT !.last = IsDML(m), !.walStart = end]

isHeartbeatMessage(m) == wal[m.change].kind = "heartbeat"

EmptyTxns == [x \in Xids |-> <<>>]

(***************************************************************************)
(* Opening, closing and losing the connection.                             *)
(***************************************************************************)
\* A walsender started at lsn; 0 and what the slot has passed both mean the
\* slot's own position.
StartReplication(lsn) ==
  /\ startAt' = Larger(confirmedFlush, lsn)
  /\ sndPos' = 1
  /\ sent' = {}
  /\ mode' = "idle"
  /\ cur' = 0
  /\ todo' = {}
  /\ inflight' = 0

\* setup: the start position is lastXLogPos unless a snapshot was just taken.
SetupLSN == IF openFromSnapshotLSN THEN SnapshotLSN ELSE lastXLogPos

FreshBuffers ==
  /\ txCommit' = NoCommit
  /\ pending' = NoMessage
  /\ txns' = EmptyTxns
  /\ activeXid' = 0
  /\ streaming' = FALSE

Init ==
  /\ wal \in Wals
  /\ confirmedFlush = 1 /\ inflight = 0
  /\ startAt = 1 /\ sndPos = 1 /\ sent = {}
  /\ mode = "idle" /\ cur = 0 /\ todo = {}
  /\ phase = "down" /\ cancelled = FALSE
  /\ openFromSnapshotLSN = (SnapshotLSN > 0)
  /\ lastXLogPos = 0
  /\ txCommit = NoCommit /\ pending = NoMessage
  /\ txns = EmptyTxns /\ activeXid = 0 /\ streaming = FALSE
  /\ outbox = <<>> /\ messageCH = <<>>
  /\ confirmedXLogPos = 0
  /\ deliveredHighWaterMark = 0 /\ replayFloor = 0
  /\ unacked = <<>> /\ delivered = {}
  /\ processed = CommittedBelow(wal, SnapshotLSN)
  /\ faults = 0

\* Connect and Open of a new stream value.
Open ==
  /\ phase = "down"
  /\ phase' = "streaming"
  /\ StartReplication(SetupLSN)
  /\ UNCHANGED <<wal, confirmedFlush, cancelled, openFromSnapshotLSN, faults,
                 lastXLogPos, confirmedXLogPos, buffers, pipeline, replay,
                 consumer>>

\* sinkLoop returns corrupted: what was in the socket is gone.
Disconnect ==
  /\ phase = "streaming" /\ outbox = <<>>
  /\ faults < MaxFaults
  /\ faults' = faults + 1
  /\ phase' = "reconnecting"
  /\ UNCHANGED <<server, walsender, cancelled, openFromSnapshotLSN,
                 lastXLogPos, confirmedXLogPos, buffers, pipeline, replay,
                 consumer>>

\* Mutant: reconnect at the last position received.
ReconnectAtLastReceived ==
  /\ openFromSnapshotLSN' = FALSE
  /\ UNCHANGED lastXLogPos

\* resetForReconnect.
ResetForReconnect ==
  /\ openFromSnapshotLSN' = FALSE
  /\ lastXLogPos' = 0

\* An attempt that fails.  Once its context is done, reconnect gives up.
ReconnectFails ==
  /\ phase = "reconnecting" /\ ~cancelled
  /\ ResetForReconnect
  /\ txCommit' = NoCommit
  /\ UNCHANGED <<server, walsender, phase, cancelled, faults, confirmedXLogPos,
                 pending, txns, activeXid, streaming, pipeline, replay,
                 consumer>>

\* reconnect succeeds: setup runs after the reset, the loop of sink starts with
\* fresh buffers, and markReplayFloor notes what was delivered so far.
Reconnect ==
  /\ phase = "reconnecting" /\ ~cancelled
  /\ phase' = "streaming"
  /\ ResetForReconnect
  /\ StartReplication(SetupLSN')
  /\ FreshBuffers
  /\ replayFloor' = Larger(replayFloor, deliveredHighWaterMark)
  /\ UNCHANGED <<wal, confirmedFlush, cancelled, faults, confirmedXLogPos,
                 pipeline, deliveredHighWaterMark, consumer>>

\* The application ends the context it gave to Run: the goroutines notice it
\* each in its own time, and Close comes later.
CancelContext ==
  /\ MayCancel /\ ~cancelled
  /\ phase \in {"streaming", "reconnecting"}
  /\ cancelled' = TRUE
  /\ UNCHANGED <<server, walsender, phase, openFromSnapshotLSN, faults,
                 lastXLogPos, confirmedXLogPos, buffers, pipeline, replay,
                 consumer>>

\* Close: the final status update, the socket is closed, the context is ended.
\* The process goroutine may still be working on what it took from the channel.
Close ==
  /\ phase \in {"streaming", "reconnecting"}
  /\ cancelled \/ faults < MaxFaults
  /\ faults' = IF cancelled THEN faults ELSE faults + 1
  /\ phase' = "closing" /\ cancelled' = TRUE
  /\ inflight' = IF phase = "streaming" /\ confirmedXLogPos # 0
                   THEN confirmedXLogPos ELSE inflight
  /\ UNCHANGED <<wal, confirmedFlush, walsender, openFromSnapshotLSN,
                 lastXLogPos, confirmedXLogPos, buffers, pipeline, replay,
                 consumer>>

\* The process ends: by a crash, after Close, or because reconnect gave up.
\* Only the slot and what the consumer made durable survive.  NewStream then
\* builds a stream that does not start at a snapshot.
Crash ==
  /\ phase # "down"
  /\ phase = "closing" \/ faults < MaxFaults
  /\ faults' = IF phase = "closing" THEN faults ELSE faults + 1
  /\ phase' = "down" /\ cancelled' = FALSE
  /\ openFromSnapshotLSN' = FALSE
  /\ lastXLogPos' = 0 /\ confirmedXLogPos' = 0
  /\ FreshBuffers
  /\ outbox' = <<>> /\ messageCH' = <<>>
  /\ deliveredHighWaterMark' = 0 /\ replayFloor' = 0
  /\ unacked' = <<>> /\ delivered' = {}
  /\ UNCHANGED <<server, walsender, processed>>

\* PostgreSQL restarts: it persists confirmed_flush_lsn only now and then.
PgRestart ==
  /\ phase # "streaming"
  /\ faults < MaxFaults
  /\ faults' = faults + 1
  /\ inflight' = 0
  /\ \E p \in 1..confirmedFlush : confirmedFlush' = p
  /\ UNCHANGED <<wal, walsender, phase, cancelled, openFromSnapshotLSN,
                 lastXLogPos, confirmedXLogPos, buffers, pipeline, replay, consumer>>

(***************************************************************************)
(* The sink: one action per message it reads.                              *)
(***************************************************************************)
\* The sink is in ReceiveMessage, and UpdateXLogPos records the position.
Receive(lsn) ==
  /\ phase = "streaming"
  /\ outbox = <<>>
  /\ lastXLogPos' = Larger(lastXLogPos, lsn)

AtRecord(type) ==
  /\ mode = "idle"
  /\ sndPos \in DOMAIN wal
  /\ wal[sndPos].type = type

IsFirst(l, S) == l \in S /\ \A k \in S : l <= k

Streamed(x) == \E l \in sent : wal[l].xid = x

\* The walsender reads a record without sending anything.
DecodeSilently ==
  /\ phase = "streaming"
  /\ \/ AtRecord("change")
     \/ AtRecord("commit") /\ sndPos < startAt
     \/ AtRecord("abort") /\ ~Streamed(wal[sndPos].xid)
     \/ /\ AtRecord("subabort")
        /\ \A l \in sent : ~(wal[l].xid = wal[sndPos].xid
                               /\ wal[l].sub = wal[sndPos].sub)
  /\ sndPos' = sndPos + 1
  /\ UNCHANGED <<server, startAt, sent, mode, cur, todo, control, lastXLogPos,
                 confirmedXLogPos, buffers, pipeline, replay, consumer>>

\* BEGIN: remember the commit context, drop any pending message.
SinkBegin ==
  /\ AtRecord("commit") /\ sndPos >= startAt
  /\ ~Streamed(wal[sndPos].xid)
  /\ Receive(sndPos)
  /\ mode' = "txn" /\ cur' = wal[sndPos].xid /\ todo' = Changes(wal, sndPos)
  /\ txCommit' = [lsn |-> sndPos, xid |-> wal[sndPos].xid]
  /\ pending' = NoMessage
  /\ UNCHANGED <<server, startAt, sndPos, sent, control, confirmedXLogPos,
                 txns, activeXid, streaming, pipeline, replay, consumer>>

\* COMMIT: flushWithLSN emits the pending message as the last one.
SinkCommit ==
  /\ mode = "txn" /\ todo = {}
  /\ Receive(EndLSN(sndPos))
  /\ mode' = "idle" /\ cur' = 0 /\ sndPos' = sndPos + 1
  /\ outbox' = IF pending = NoMessage THEN <<>>
               ELSE <<AsLast(pending, EndLSN(sndPos))>>
  /\ pending' = NoMessage
  /\ UNCHANGED <<server, startAt, sent, todo, control, confirmedXLogPos,
                 txCommit, txns, activeXid, streaming, messageCH, replay,
                 consumer>>

\* Mutant: the pending message is sent without looking whether there is one.
BufferUnchecked(m) ==
  /\ outbox' = <<pending>>
  /\ pending' = m
  /\ UNCHANGED txns

\* Mutant: the pending message is overwritten.
BufferOverwrites(m) ==
  /\ pending' = m
  /\ UNCHANGED <<outbox, txns>>

\* messageBuffer.buffer: flush the pending message, hold this one back.
BufferMessage(m) ==
  /\ outbox' = IF pending = NoMessage THEN <<>> ELSE <<pending>>
  /\ pending' = m
  /\ UNCHANGED txns

\* streamTxBuffer.append.
AppendMessage(m) ==
  /\ txns' = [txns EXCEPT ![activeXid] = Append(@, m)]
  /\ UNCHANGED <<outbox, pending>>

\* A change: stamped now unless it is streamed, then buffered.
SinkChange ==
  \E l \in todo :
    /\ IsFirst(l, todo)
    /\ Receive(l)
    /\ todo' = todo \ {l}
    /\ sent' = IF mode = "chunk" THEN sent \cup {l} ELSE sent
    /\ LET m == [NoMessage EXCEPT !.change = l, !.walStart = l] IN
         IF streaming THEN AppendMessage(m)
         ELSE BufferMessage(stampCommit(m, txCommit.lsn, txCommit.xid))
    /\ UNCHANGED <<server, startAt, sndPos, mode, cur, control,
                   confirmedXLogPos, txCommit, activeXid, streaming,
                   messageCH, replay, consumer>>

\* STREAM START: the walsender sends what it holds of a transaction it has not
\* seen the end of; it may do so before any record it reads from startAt on.
SinkStreamStart ==
  /\ Streaming
  /\ mode = "idle" /\ sndPos >= startAt
  /\ \E x \in Xids :
       /\ ChangesBefore(wal, x, sndPos) \ sent # {}
       /\ \A e \in DOMAIN wal :
            e < sndPos /\ wal[e].xid = x => wal[e].type \notin {"commit", "abort"}
       /\ mode' = "chunk" /\ cur' = x
       /\ todo' = ChangesBefore(wal, x, sndPos) \ sent
       /\ activeXid' = x
       /\ \E l \in todo' : IsFirst(l, todo') /\ Receive(l)
  /\ streaming' = TRUE
  /\ UNCHANGED <<server, startAt, sndPos, sent, control, confirmedXLogPos,
                 txCommit, pending, txns, pipeline, replay, consumer>>

SinkStreamStop ==
  /\ mode = "chunk" /\ todo = {}
  /\ Receive(lastXLogPos)
  /\ mode' = "idle" /\ cur' = 0
  /\ streaming' = FALSE
  /\ UNCHANGED <<server, startAt, sndPos, sent, todo, control,
                 confirmedXLogPos, txCommit, pending, txns, activeXid,
                 pipeline, replay, consumer>>

\* Mutant: every message of a streamed transaction is marked as the last.
FlushTxAllLast(x, c) ==
  [i \in DOMAIN txns[x] |-> AsLast(stampCommit(txns[x][i], c, x), EndLSN(c))]

\* Mutant: an off-by-one, the last message of the transaction is not sent.
FlushTxDropsLast(x, c) ==
  [i \in 1..Len(txns[x]) - 1 |-> stampCommit(txns[x][i], c, x)]

\* flushTx: every message stamped, the last one marked.
FlushTx(x, c) ==
  LET n == Len(txns[x]) IN
  [i \in 1..n |->
     LET m == stampCommit(txns[x][i], c, x) IN
     IF i = n THEN AsLast(m, EndLSN(c)) ELSE m]

SinkStreamCommit ==
  /\ AtRecord("commit")
  /\ Streamed(wal[sndPos].xid)
  /\ Changes(wal, sndPos) \subseteq sent
  /\ Receive(EndLSN(sndPos))
  /\ sndPos' = sndPos + 1
  /\ streaming' = FALSE
  /\ outbox' = FlushTx(wal[sndPos].xid, sndPos)
  /\ txns' = [txns EXCEPT ![wal[sndPos].xid] = <<>>]
  /\ UNCHANGED <<server, startAt, sent, mode, cur, todo, control,
                 confirmedXLogPos, txCommit, pending, activeXid, messageCH,
                 replay, consumer>>

\* STREAM ABORT carries the top-level xid and the xid that is rolled back;
\* dispatchMessage discards the top-level one in either case.
DiscardTx(x) ==
  /\ streaming' = FALSE
  /\ txns' = [txns EXCEPT ![x] = <<>>]

SinkStreamAbort ==
  /\ \/ AtRecord("abort") /\ Streamed(wal[sndPos].xid)
     \/ /\ AtRecord("subabort")
        /\ \E l \in sent : wal[l].xid = wal[sndPos].xid
                             /\ wal[l].sub = wal[sndPos].sub
  /\ Receive(sndPos)
  /\ sndPos' = sndPos + 1
  /\ DiscardTx(wal[sndPos].xid)
  /\ UNCHANGED <<server, startAt, sent, mode, cur, todo, control,
                 confirmedXLogPos, txCommit, pending, activeXid, pipeline,
                 replay, consumer>>

\* The blocking send on messageCH.
SendMessage ==
  /\ phase # "down"
  /\ outbox # <<>>
  /\ Len(messageCH) < ChanCap
  /\ messageCH' = Append(messageCH, Head(outbox))
  /\ outbox' = Tail(outbox)
  /\ UNCHANGED <<server, walsender, control, lastXLogPos, confirmedXLogPos,
                 buffers, replay, consumer>>

\* The select of the send takes ctx.Done instead: messageBuffer gives up the
\* message, flushTx the rest of its transaction.  The sink reads on.
DropMessage ==
  /\ cancelled
  /\ outbox # <<>>
  /\ outbox' = <<>>
  /\ UNCHANGED <<server, walsender, control, lastXLogPos, confirmedXLogPos,
                 buffers, messageCH, replay, consumer>>

\* handleKeepalive, with or without a reply requested.
Keepalive ==
  /\ Receive(sndPos)
  /\ \/ UNCHANGED inflight
     \/ inflight' = confirmedXLogPos
  /\ UNCHANGED <<wal, confirmedFlush, walsender, control, confirmedXLogPos,
                 buffers, pipeline, replay, consumer>>

(***************************************************************************)
(* The process goroutine, the listener and the status updates.             *)
(***************************************************************************)
\* Mutant: an ack confirms everything received so far.
ConfirmReceived(lsn) ==
  confirmedXLogPos' = Larger(confirmedXLogPos, lastXLogPos)

Confirm(lsn) == confirmedXLogPos' = Larger(confirmedXLogPos, lsn)

\* process takes a message: the listener before it has returned.
Take ==
  /\ phase # "down"
  /\ messageCH # <<>>
  /\ Len(unacked) < MaxUnacked
  /\ messageCH' = Tail(messageCH)

ProcessHeartbeat ==
  /\ Take
  /\ LET m == Head(messageCH) IN
    /\ isHeartbeatMessage(m)
    /\ Confirm(m.walStart)
    /\ processed' = processed \cup {m.change}
    /\ UNCHANGED <<server, walsender, control, lastXLogPos, buffers, outbox,
                   replay, unacked, delivered>>

ProcessMessage ==
  /\ Take
  /\ LET m == Head(messageCH) IN
    /\ ~isHeartbeatMessage(m)
    /\ deliveredHighWaterMark' = Larger(deliveredHighWaterMark, m.walStart)
    /\ unacked' = Append(unacked, m)
    /\ delivered' = delivered \cup {m.change}
    /\ UNCHANGED <<server, walsender, control, lastXLogPos, confirmedXLogPos,
                   buffers, outbox, replayFloor, processed>>

\* The listener has consumed its messages up to the k-th and acks that one:
\* Ack confirms its position, AckLSN the commit LSN it carries.
Ack ==
  /\ phase # "down"
  /\ \E k \in 1..Len(unacked) :
       /\ \/ Confirm(unacked[k].walStart)
          \/ UseAckLSN /\ Confirm(unacked[k].commitLSN)
       /\ processed' = processed \cup {unacked[i].change : i \in 1..k}
       /\ unacked' = SubSeq(unacked, k + 1, Len(unacked))
  /\ UNCHANGED <<server, walsender, control, lastXLogPos, buffers, pipeline,
                 replay, delivered>>

\* flushTicker and the idle timeout of sinkLoop.
SendStandbyStatusUpdate ==
  /\ phase = "streaming"
  /\ lastXLogPos > 0
  /\ inflight' = confirmedXLogPos
  /\ UNCHANGED <<wal, confirmedFlush, walsender, control, lastXLogPos,
                 confirmedXLogPos, buffers, pipeline, replay, consumer>>

\* The server applies a status update; the slot never moves backwards.
SlotAdvance ==
  /\ inflight # 0
  /\ confirmedFlush' = Larger(confirmedFlush, inflight)
  /\ inflight' = 0
  /\ UNCHANGED <<wal, walsender, control, lastXLogPos, confirmedXLogPos,
                 buffers, pipeline, replay, consumer>>

Sink ==
  \/ SinkBegin \/ SinkCommit \/ SinkChange
  \/ SinkStreamStart \/ SinkStreamStop \/ SinkStreamCommit \/ SinkStreamAbort
  \/ SendMessage \/ DropMessage \/ Keepalive

Next ==
  \/ Open \/ Disconnect \/ ReconnectFails \/ Reconnect \/ CancelContext
  \/ Close \/ Crash \/ PgRestart \/ DecodeSilently \/ Sink
  \/ ProcessHeartbeat \/ ProcessMessage \/ Ack
  \/ SendStandbyStatusUpdate \/ SlotAdvance

Spec == Init /\ [][Next]_vars

(***************************************************************************)
(* Fairness: the goroutines run, the server sends and applies what it got, *)
(* the listener goes on acking, and connection attempts finally succeed.   *)
(* Faults are bounded, so they stop.                                       *)
(***************************************************************************)
Deliver == DecodeSilently \/ SinkBegin \/ SinkCommit \/ SinkChange
             \/ SinkStreamStop \/ SinkStreamCommit \/ SinkStreamAbort

\* Before its STREAM COMMIT the rest of a streamed transaction is streamed.
StreamRest ==
  /\ AtRecord("commit") /\ Streamed(wal[sndPos].xid)
  /\ SinkStreamStart /\ cur' = wal[sndPos].xid

Fairness ==
  /\ WF_vars(Open) /\ WF_vars(Reconnect)
  /\ WF_vars(phase = "closing" /\ Crash)
  /\ WF_vars(Deliver) /\ WF_vars(SendMessage)
  /\ WF_vars(StreamRest)
  /\ WF_vars(ProcessHeartbeat) /\ WF_vars(ProcessMessage) /\ WF_vars(Ack)
  /\ WF_vars(SendStandbyStatusUpdate) /\ WF_vars(SlotAdvance)

FairSpec == Spec /\ Fairness

(***************************************************************************)
(* Properties.                                                             *)
(***************************************************************************)
ServerTypes ==
  /\ wal \in Wals
  /\ confirmedFlush \in Nat \ {0} /\ inflight \in Nat
  /\ startAt \in Nat \ {0} /\ sndPos \in 1..Len(wal) + 1
  /\ sent \subseteq DOMAIN wal /\ todo \subseteq DOMAIN wal
  /\ mode \in {"idle", "txn", "chunk"} /\ cur \in Xids \cup {0}
  /\ mode = "txn" => sndPos \in DOMAIN wal

PositionTypes ==
  /\ phase \in {"down", "streaming", "reconnecting", "closing"}
  /\ cancelled \in BOOLEAN /\ openFromSnapshotLSN \in BOOLEAN
  /\ lastXLogPos \in Nat /\ confirmedXLogPos \in Nat
  /\ deliveredHighWaterMark \in Nat /\ replayFloor \in Nat
  /\ delivered \subseteq DOMAIN wal /\ processed \subseteq DOMAIN wal
  /\ faults \in Nat

BufferTypes ==
  /\ txCommit \in [lsn : Nat, xid : Xids \cup {0}]
  /\ pending \in Message(wal) \cup {NoMessage}
  /\ txns \in [Xids -> Seq(Message(wal))]
  /\ activeXid \in Xids \cup {0} /\ streaming \in BOOLEAN

QueueTypes ==
  /\ outbox \in Seq(Message(wal))
  /\ messageCH \in Seq(Message(wal))
  /\ unacked \in Seq(Message(wal))

\* Every variable has its type, and every change named in a buffer, a queue or
\* the consumer's state is a record of the WAL.
TypeOK == ServerTypes /\ PositionTypes /\ BufferTypes /\ QueueTypes

\* At-least-once delivery (README, "Delivery Guarantees"): once the slot has
\* passed a commit, so that PostgreSQL will never send the transaction again,
\* the consumer has durably processed every one of its changes.
AtLeastOnce == Covered(wal, confirmedFlush, processed)

\* A change that was rolled back, by ROLLBACK or to a savepoint, is never
\* handed to the listener, although the server may have streamed it.
OnlyCommittedDelivered ==
  \A l \in delivered : \E c \in Commits(wal) : l \in Changes(wal, c)

\* A delivered row carries the commit LSN and the xid of its own transaction,
\* also when transactions interleave or the stream was reopened in between;
\* consumers deduplicate by these.
CommitContext ==
  \A i \in DOMAIN unacked :
    LET m == unacked[i] IN
    IsDML(m) => \E c \in Commits(wal) : /\ m.change \in Changes(wal, c)
                                   /\ m.commitLSN = c
                                   /\ m.xid = wal[c].xid

\* When the listener gets a message marked last in its transaction, it has
\* been handed (or the connector has auto-acked) every other change of it.
LastMeansComplete ==
  \A i \in DOMAIN unacked :
    unacked[i].last =>
      \E c \in Commits(wal) : /\ unacked[i].change \in Changes(wal, c)
                         /\ Changes(wal, c) \subseteq delivered \cup processed

\* The first delivery of transactions follows commit order, across reconnects
\* and restarts: when any change of a transaction has been delivered, every
\* earlier transaction has been delivered whole.
CommitOrder ==
  \A c, d \in Commits(wal) :
    d < c /\ Changes(wal, c) \cap delivered # {} =>
      Changes(wal, d) \subseteq delivered \cup processed

\* The stream, with everything it takes, implements the contract of
\* DeliveryContract: each of its steps hands over one change in commit order,
\* consumes, releases WAL that is covered, starts over, or changes nothing
\* that the consumer or the slot can tell.
Contract == INSTANCE DeliveryContract WITH
  wal <- wal, confirmedFlush <- confirmedFlush,
  delivered <- delivered, processed <- processed

HonoursContract == Contract!Spec

\* replayFloor (comment on the field): "Every delivered message with walStart
\* <= replayFloor was already delivered before the disconnect, i.e. it's a
\* replay, not new data."  Stated of the next message process will take.
ReplayIsNotNew ==
  messageCH # <<>> /\ ~isHeartbeatMessage(Head(messageCH))
    /\ Head(messageCH).walStart <= replayFloor
    => Head(messageCH).change \in delivered

\* Every committed change is finally processed by the consumer, although the
\* connection is lost, the process restarts or the server forgets positions.
EverythingProcessed == <>[](CommittedBelow(wal, Len(wal) + 1) \subseteq processed)

\* The acknowledgements take effect: the slot finally passes every commit that
\* has changes, so the server can recycle its WAL.
SlotCatchesUp ==
  <>[](\A c \in Commits(wal) : Changes(wal, c) # {} => c < confirmedFlush)

(***************************************************************************)
(* The inductive invariant behind AtLeastOnce.  It needs a setting in which*)
(* the code keeps its promise: a context that outlives the stream; a       *)
(* listener that acks before it returns, or no heartbeats; and no          *)
(* savepoint rolled back in a streamed transaction.                        *)
(***************************************************************************)
SafeSetting ==
  /\ ~MayCancel
  /\ MaxUnacked = 1 \/ \A w \in Wals : \A l \in DOMAIN w : w[l].kind # "heartbeat"
  /\ Streaming => \A w \in Wals : \A l \in DOMAIN w : w[l].type # "subabort"

ChangesOf(q) == {q[i].change : i \in DOMAIN q}

\* Acking any message of q is safe once base and q up to it are processed.
QueueSafe(w, q, base) ==
  \A k \in DOMAIN q :
    \A p \in {q[k].walStart, q[k].commitLSN} :
      Covered(w, p, base \cup {q[i].change : i \in 1..k})

\* Messages move from the outbox through the channel to the listener.
InHand == processed \cup ChangesOf(unacked)
InChannel == InHand \cup ChangesOf(messageCH)
InPipeline == InChannel \cup ChangesOf(outbox)

QueuesSafe ==
  /\ QueueSafe(wal, unacked, processed)
  /\ QueueSafe(wal, messageCH, InHand)
  /\ QueueSafe(wal, outbox, InChannel)

\* Every position that can become the slot's or a start position is covered.
PositionsCovered ==
  /\ Covered(wal, confirmedFlush, processed)
  /\ Covered(wal, inflight, processed)
  /\ Covered(wal, confirmedXLogPos, processed)
  /\ Covered(wal, SnapshotLSN, processed)

\* A message still in a buffer has its own position and no later one.
Buffered(m, x, p) ==
  /\ m.change < p
  /\ m.walStart = m.change
  /\ wal[m.change].type = "change" /\ wal[m.change].xid = x

Ended(x, p) == \E e \in DOMAIN wal : /\ e < p /\ wal[e].xid = x
                                     /\ wal[e].type \in {"commit", "abort"}

\* What the walsender has sent is in the pipeline or still buffered.
WalsenderInv ==
  /\ Covered(wal, startAt, processed)
  /\ Covered(wal, sndPos, InPipeline)
  /\ streaming = (mode = "chunk")
  /\ mode = "idle" => todo = {}
  /\ mode # "txn" => pending = NoMessage
  /\ mode = "txn" =>
       /\ sndPos \in Commits(wal)
       /\ txCommit.lsn = sndPos
       /\ todo \subseteq Changes(wal, sndPos)
       /\ Changes(wal, sndPos) \subseteq InPipeline \cup {pending.change} \cup todo
       /\ pending # NoMessage =>
            /\ Buffered(pending, wal[sndPos].xid, sndPos)
            /\ pending.commitLSN \in {0, sndPos}
  /\ mode = "chunk" =>
       /\ activeXid \in Xids
       /\ todo \subseteq ChangesBefore(wal, activeXid, sndPos)
  /\ ~Streaming => sent = {} /\ mode # "chunk"
  /\ \A x \in Xids :
       /\ \A i \in DOMAIN txns[x] : /\ Buffered(txns[x][i], x, sndPos)
                                    /\ txns[x][i].commitLSN = 0
       /\ ~Ended(x, sndPos) =>
            \A l \in sent : wal[l].xid = x => l \in ChangesOf(txns[x])

\* A stream that has not been opened yet.
FreshStream ==
  /\ lastXLogPos = 0
  /\ pending = NoMessage /\ txns = EmptyTxns /\ streaming = FALSE

\* The inductive invariant: type correctness, safe queues, covered positions,
\* and nothing lost between the walsender and the pipeline while streaming.
DeliveryInv ==
  /\ TypeOK
  /\ QueuesSafe
  /\ PositionsCovered
  /\ phase = "streaming" => WalsenderInv
  /\ phase = "down" => FreshStream
  /\ cancelled => phase = "closing"
=============================================================================
