------------------------- MODULE ConnectorLifecycle -------------------------
(***************************************************************************)
(* A connector (connector.go) around its stream, slot and heartbeat, and   *)
(* Supervise (supervise.go) around the connector: Run, Close, WaitUntil-   *)
(* Ready, the background goroutines, signals and the caller's context.     *)
(*                                                                         *)
(* A supervised connector is closed after its Run has returned, and a new  *)
(* one is built when the error is worth a retry.  Otherwise the application*)
(* runs one connector itself and may close it at any time.                 *)
(***************************************************************************)
EXTENDS StreamLifecycle

VARIABLES
  run,          \* where Run is
  result,       \* what Run or NewConnector returned
  consumed,     \* c.consumed
  fromSnapshot, \* s.openFromSnapshotLSN
  jobDone,      \* the snapshot job of the slot is completed
  cancelCh,     \* c.cancelCh: "empty", "signal" or "closed"
  notify,       \* cancelCh is registered with signal.Notify
  signals,      \* signals sent to the process
  ready,        \* readyCh is closed, the background goroutines run
  closedCh,     \* closedCh is closed
  fatal,        \* a recovered panic is waiting in c.fatalCh
  closer,       \* where Connector.Close is
  slotConn,     \* connection of the slot
  slotClosed,   \* slot.closed
  hbConn,       \* connection of the heartbeat
  hbClosed,     \* heartbeat.closed
  supervisor,   \* where Supervise is
  orphans,      \* open connections of connectors that were given up
  crashed       \* the Go runtime has ended the process

snapshot   == <<fromSnapshot, jobDone>>
bootstrap  == <<run, result, consumed, snapshot>>
signalling == <<cancelCh, notify, signals>>
latches    == <<ready, closedCh, fatal>>
helpers    == <<slotConn, slotClosed, hbConn, hbClosed>>
callers    == <<closer, supervisor, orphans, crashed>>

vars == <<streamVars, bootstrap, signalling, latches, helpers, callers>>

\* TimescaleDB opens its connection in NewConnector; nothing closes it.
Timescale == IF config.timescale /\ run # "idle" THEN 1 ELSE 0

\* The connections a connector leaves behind.
OpenConnections ==
  (IF conn = "closed" THEN 0 ELSE 1) + (IF slotConn THEN 1 ELSE 0)
    + (IF hbConn THEN 1 ELSE 0) + Timescale

\* What NewConnector returns, apart from the stream.
NewConnector ==
  /\ run' = "idle" /\ result' = "none" /\ consumed' = FALSE
  /\ fromSnapshot' = FALSE
  /\ cancelCh' = "empty" /\ notify' = FALSE
  /\ ready' = FALSE /\ closedCh' = FALSE /\ fatal' = FALSE
  /\ slotConn' = FALSE /\ slotClosed' = FALSE
  /\ hbConn' = FALSE /\ hbClosed' = FALSE
  /\ closer' = "none"

Init ==
  /\ StreamInit
  /\ run = "idle" /\ result = "none" /\ consumed = FALSE
  /\ fromSnapshot = FALSE /\ jobDone = FALSE
  /\ cancelCh = "empty" /\ notify = FALSE /\ signals = 0
  /\ ready = FALSE /\ closedCh = FALSE /\ fatal = FALSE
  /\ slotConn = FALSE /\ slotClosed = FALSE
  /\ hbConn = FALSE /\ hbClosed = FALSE
  /\ closer = "none"
  /\ supervisor = IF config.supervised THEN "build" ELSE "running"
  /\ orphans = 0 /\ crashed = FALSE

(***************************************************************************)
(* Run.                                                                    *)
(***************************************************************************)
RunStep(from, to) == run = from /\ run' = to

\* Run is one-shot.
Run ==
  /\ supervisor = "running"
  /\ RunStep("idle", IF consumed THEN "returned" ELSE "create")
  /\ result' = IF consumed THEN "consumed" ELSE result
  /\ consumed' = TRUE
  /\ UNCHANGED <<streamVars, snapshot, signalling, latches, helpers, callers>>

\* slot.Create, which closes its connections again, after the snapshot if the
\* job is not completed yet.  Execute may succeed without completing it: chunks
\* are in the hands of others, or were given up.
SlotCreate ==
  /\ RunStep("create", "connect") /\ ~ctxDone
  /\ slotConn' = FALSE
  /\ fromSnapshot' = (config.snapshot /\ ~jobDone)
  /\ jobDone' \in IF fromSnapshot' THEN BOOLEAN ELSE {jobDone}
  /\ UNCHANGED <<streamVars, result, consumed, signalling, latches,
                 slotClosed, hbConn, hbClosed, callers>>

SlotConnect ==
  /\ RunStep("connect", "capture") /\ ~ctxDone
  /\ slotConn' = TRUE
  /\ UNCHANGED <<streamVars, result, consumed, snapshot, signalling, latches,
                 slotClosed, hbConn, hbClosed, callers>>

\* CaptureSlot ends when the slot is idle, and also when it is closed.
CaptureSlot ==
  /\ RunStep("capture", "stream") /\ ~ctxDone
  /\ slotClosed \/ ~SlotActive
  /\ slotConn' = (slotConn \/ ~slotClosed)
  /\ UNCHANGED <<streamVars, result, consumed, snapshot, signalling, latches,
                 slotClosed, hbConn, hbClosed, callers>>

\* stream.Connect keeps a connection that is still open.
StreamConnect ==
  /\ RunStep("stream", "open") /\ ~ctxDone
  /\ conn' = "open"
  /\ UNCHANGED <<config, faults, contexts, server, closing, goroutines, channel,
                 result, consumed, snapshot, signalling, latches, helpers, callers>>

\* setup, of a stream that starts at the snapshot's LSN.
OpenFetches ==
  /\ RunStep("open", "fetch")
  /\ conn = "open" /\ fromSnapshot
  /\ UNCHANGED <<streamVars, result, consumed, snapshot, signalling, latches,
                 helpers, callers>>

\* fetchSnapshotLSN tries again until the job is completed.  The retries have
\* no context of their own: with ctx done every attempt fails, and none is the
\* last.
FetchSnapshotLSN ==
  /\ RunStep("fetch", "start") /\ ~ctxDone
  /\ jobDone
  /\ UNCHANGED <<streamVars, result, consumed, snapshot, signalling, latches,
                 helpers, callers>>

\* setup is at START_REPLICATION.
Starting == run = "start" \/ (run = "open" /\ ~fromSnapshot)

\* stream.Open, until START_REPLICATION is answered.
OpenSetup ==
  /\ Starting /\ run' = "mark" /\ ~ctxDone
  /\ conn = "open" /\ ~held /\ ~other
  /\ conn' = "streaming"
  /\ UNCHANGED <<config, faults, contexts, server, closing, goroutines, channel,
                 result, consumed, snapshot, signalling, latches, helpers, callers>>

\* ErrorSlotInUse: back to CaptureSlot, the connection stays open.
OpenSlotInUse ==
  /\ Starting /\ run' = "capture" /\ ~ctxDone
  /\ conn = "open" /\ (held \/ other)
  /\ UNCHANGED <<streamVars, result, consumed, snapshot, signalling, latches, helpers, callers>>

\* stream.Open: what Close will wait for ...
OpenMarks ==
  /\ RunStep("mark", "launch")
  /\ started' = {"sink", "process"}
  /\ UNCHANGED <<config, faults, contexts, conn, server, closing, sink,
                 corrupted, process, ticker, ended, channel, result, consumed, snapshot,
                 signalling, latches, helpers, callers>>

\* ... and then the context and the goroutines.
OpenLaunches ==
  /\ RunStep("launch", "background")
  /\ hasCancel' = TRUE
  /\ sink' = "loop" /\ process' = "select" /\ ticker' = "select"
  /\ started' = started \cup {"ticker"}
  /\ UNCHANGED <<config, faults, ctxDone, cancelled, conn, server, closing,
                 corrupted, ended, channel, result, consumed, snapshot, signalling,
                 latches, helpers, callers>>

\* The background goroutines, of which ready is the sign, the signals and
\* readyCh.
BecomeReady ==
  /\ RunStep("background", "wait")
  /\ notify' = TRUE
  /\ ready' = TRUE
  /\ UNCHANGED <<streamVars, result, consumed, snapshot, cancelCh, signals, closedCh,
                 fatal, helpers, callers>>

Return(r) == run' = "returned" /\ result' = r

\* A step of the bootstrap fails.  A failing stream.Connect closes its
\* connection, a failing Open leaves it open.
BootstrapFails ==
  /\ run \in {"create", "connect", "stream"} \/ Starting
  /\ ~ctxDone
  /\ Fault
  /\ \E r \in {"transient", "permanent"} : Return(r)
  /\ conn' = IF run = "stream" THEN "closed" ELSE conn
  /\ UNCHANGED <<config, contexts, server, closing, goroutines, channel,
                 consumed, snapshot, signalling, latches, helpers, callers>>

\* The row of the job is gone: an error that is not worth a retry.
FetchFails ==
  /\ run = "fetch" /\ ~ctxDone
  /\ Fault
  /\ Return("permanent")
  /\ UNCHANGED <<config, contexts, conn, server, closing, goroutines, channel,
                 consumed, snapshot, signalling, latches, helpers, callers>>

\* Open finds the connection closed: ErrorNotConnected, or an error of Start.
OpenNotConnected ==
  /\ run \in {"open", "start"} /\ conn = "closed"
  /\ Return("permanent")
  /\ UNCHANGED <<streamVars, consumed, snapshot, signalling, latches, helpers, callers>>

\* After a refused START_REPLICATION the old connection is used again, with
\* an answer still unread: IDENTIFY_SYSTEM may fail, and Connect closes it.
ReusedConnectionFails ==
  /\ run = "stream" /\ conn = "open" /\ ~ctxDone
  /\ Return("permanent")
  /\ conn' = "closed"
  /\ UNCHANGED <<config, faults, contexts, server, closing, goroutines, channel,
                 consumed, snapshot, signalling, latches, helpers, callers>>

BootstrapCancelled ==
  /\ run \in {"create", "connect", "capture", "stream"} \/ Starting
  /\ ctxDone
  /\ Return("ctx")
  /\ conn' \in IF run = "stream" THEN {conn, "closed"} ELSE {conn}
  /\ UNCHANGED <<config, faults, contexts, server, closing, goroutines, channel,
                 consumed, snapshot, signalling, latches, helpers, callers>>

\* Mutant: the case of the caller's context is missing.
WaitIgnoresContext ==
  /\ run = "wait"
  /\ \/ /\ cancelCh # "empty"
        /\ Return("nil")
        /\ cancelCh' = IF cancelCh = "signal" THEN "empty" ELSE cancelCh
        /\ UNCHANGED <<fatal, streamErr>>
     \/ /\ fatal
        /\ Return("panic")
        /\ fatal' = FALSE
        /\ UNCHANGED <<cancelCh, streamErr>>
     \/ /\ streamErr
        /\ Return("corrupted")
        /\ streamErr' = FALSE
        /\ UNCHANGED <<cancelCh, fatal>>
  /\ UNCHANGED <<config, faults, contexts, conn, server, closed, closeAt,
                 goroutines, channel, consumed, snapshot, notify, signals, ready,
                 closedCh, helpers, callers>>

\* waitForShutdownOrFatal: one select over four channels.
WaitEnds ==
  /\ run = "wait"
  /\ \/ /\ cancelCh # "empty"
        /\ Return("nil")
        /\ cancelCh' = IF cancelCh = "signal" THEN "empty" ELSE cancelCh
        /\ UNCHANGED <<fatal, streamErr>>
     \/ /\ fatal
        /\ Return("panic")
        /\ fatal' = FALSE
        /\ UNCHANGED <<cancelCh, streamErr>>
     \/ /\ streamErr
        /\ Return("corrupted")
        /\ streamErr' = FALSE
        /\ UNCHANGED <<cancelCh, fatal>>
     \/ /\ ctxDone
        /\ Return("ctx")
        /\ UNCHANGED <<cancelCh, fatal, streamErr>>
  /\ UNCHANGED <<config, faults, contexts, conn, server, closed, closeAt,
                 goroutines, channel, consumed, snapshot, notify, signals, ready,
                 closedCh, helpers, callers>>

(***************************************************************************)
(* The background goroutines and GET /slot.                                *)
(***************************************************************************)
\* Mutant: the slot dials without looking at closed.
InfoUnchecked ==
  /\ run # "idle"
  /\ slotConn' = TRUE
  /\ UNCHANGED <<streamVars, bootstrap, signalling, latches,
                 slotClosed, hbConn, hbClosed, callers>>

\* slot.Info, called by Metrics or by the HTTP server: closed is looked at
\* under the lock under which it dials.
SlotInfo ==
  /\ run # "idle"
  /\ ~slotClosed
  /\ slotConn' = TRUE
  /\ UNCHANGED <<streamVars, bootstrap, signalling, latches,
                 slotClosed, hbConn, hbClosed, callers>>

\* Mutant: the heartbeat dials without looking at closed.
ExecuteUnchecked ==
  /\ config.heartbeat /\ ready /\ ~ctxDone
  /\ hbConn' \in BOOLEAN
  /\ UNCHANGED <<streamVars, bootstrap, signalling, latches,
                 slotConn, slotClosed, hbClosed, callers>>

\* heartbeat.execute: dials if need be, and drops the connection on an error.
HeartbeatExecute ==
  /\ config.heartbeat /\ ready /\ ~ctxDone
  /\ ~hbClosed
  /\ hbConn' \in BOOLEAN
  /\ UNCHANGED <<streamVars, bootstrap, signalling, latches,
                 slotConn, slotClosed, hbClosed, callers>>

\* runGuarded: a panic ends the goroutine and is reported to Run.
BackgroundPanics ==
  /\ run # "idle" /\ Fault
  /\ fatal' = TRUE
  /\ UNCHANGED <<config, contexts, conn, server, closing, goroutines, channel,
                 bootstrap, signalling, ready, closedCh, helpers, callers>>

(***************************************************************************)
(* Close, once.                                                            *)
(***************************************************************************)
CloserStep(from, to) == closer = from /\ closer' = to

\* Mutants: Close does not stop the signals; Close does not close closedCh.
CloseWithoutStop ==
  /\ CloserStep("none", "slot")
  /\ run = "returned" \/ ~config.supervised
  /\ consumed' = TRUE
  /\ cancelCh' = IF cancelCh = "empty" THEN "closed" ELSE "empty"
  /\ closedCh' = TRUE
  /\ UNCHANGED <<streamVars, run, result, snapshot, notify, signals, ready, fatal, helpers,
                 supervisor, orphans, crashed>>

CloseUnannounced ==
  /\ CloserStep("none", "slot")
  /\ run = "returned" \/ ~config.supervised
  /\ consumed' = TRUE
  /\ notify' = FALSE
  /\ cancelCh' = IF cancelCh = "empty" THEN "closed" ELSE "empty"
  /\ UNCHANGED <<streamVars, run, result, snapshot, signals, latches, helpers,
                 supervisor, orphans, crashed>>

\* signal.Stop, then isClosed looks by receiving: a signal that waits in
\* cancelCh is taken, and cancelCh then counts as closed.
CloseSignals ==
  /\ CloserStep("none", "slot")
  /\ run = "returned" \/ ~config.supervised
  /\ consumed' = TRUE
  /\ notify' = FALSE
  /\ cancelCh' = IF cancelCh = "empty" THEN "closed" ELSE "empty"
  /\ closedCh' = TRUE
  /\ UNCHANGED <<streamVars, run, result, snapshot, signals, ready, fatal, helpers,
                 supervisor, orphans, crashed>>

\* slot.Close.
CloseSlot ==
  /\ CloserStep("slot", "heartbeat")
  /\ slotClosed' = TRUE /\ slotConn' = FALSE
  /\ UNCHANGED <<streamVars, bootstrap, signalling, latches,
                 hbConn, hbClosed, supervisor, orphans, crashed>>

\* heartbeat.Close.
CloseHeartbeat ==
  /\ CloserStep("heartbeat", "stream")
  /\ hbClosed' = TRUE /\ hbConn' = FALSE
  /\ UNCHANGED <<streamVars, bootstrap, signalling, latches,
                 slotConn, slotClosed, supervisor, orphans, crashed>>

\* stream.Close is the application's: it starts here and ends in CloseDone.
CloseStream ==
  /\ CloserStep("stream", "waiting")
  /\ CloseClaims("app")
  /\ UNCHANGED <<bootstrap, signalling, latches, helpers, supervisor,
                 orphans, crashed>>

CloseDone ==
  /\ CloserStep("waiting", "done")
  /\ closeAt["app"] = "done"
  /\ UNCHANGED <<streamVars, bootstrap, signalling, latches, helpers, supervisor, orphans, crashed>>

(***************************************************************************)
(* The caller: signals, the context, WaitUntilReady and Supervise.         *)
(***************************************************************************)
\* Another instance completes the snapshot job (external).
OtherCompletes ==
  /\ config.snapshot /\ ~jobDone
  /\ jobDone' = TRUE
  /\ UNCHANGED <<streamVars, run, result, consumed, fromSnapshot, signalling,
                 latches, helpers, callers>>

MaxSignals == 1

\* The runtime sends to every registered channel, and drops the signal when
\* it is full; a closed channel makes it panic.
Signal ==
  /\ notify /\ signals < MaxSignals
  /\ signals' = signals + 1
  /\ cancelCh' = IF cancelCh = "empty" THEN "signal" ELSE cancelCh
  /\ crashed' = (cancelCh = "closed")
  /\ UNCHANGED <<streamVars, bootstrap, notify, latches, helpers, closer, supervisor, orphans>>

CancelContext ==
  /\ ~ctxDone
  /\ ctxDone' = TRUE
  /\ UNCHANGED <<config, faults, hasCancel, cancelled, conn, server, closing,
                 goroutines, channel, bootstrap, signalling, latches, helpers,
                 callers>>

\* WaitUntilReady changes nothing: it returns when one of the three channels
\* is closed.  In Supervise, OnReady follows if it was readyCh.
WaitUntilReadyReturns == ready \/ closedCh \/ ctxDone

\* IsRetryableStartupError.
IsRetryable(r) == r = "transient"

SupervisorStep(from, to) == supervisor = from /\ supervisor' = to

\* supervise, after the attempt and its deferred Close.
AttemptEnds ==
  /\ config.supervised /\ run = "returned" /\ closer = "done"
  /\ SupervisorStep("running",
       IF ~ctxDone /\ IsRetryable(result) THEN "backoff" ELSE "returned")
  /\ UNCHANGED <<streamVars, bootstrap, signalling, latches, helpers, closer, orphans, crashed>>

BackoffEnds ==
  /\ SupervisorStep("backoff", IF ctxDone THEN "returned" ELSE "build")
  /\ UNCHANGED <<streamVars, bootstrap, signalling, latches, helpers, closer, orphans, crashed>>

\* A fresh connector.  The connections of an old one are out of reach.
BuildConnector ==
  /\ SupervisorStep("build", "running")
  /\ orphans' = orphans + OpenConnections
  /\ held' = (held \/ conn = "streaming")
  /\ NewStream /\ NewConnector
  /\ UNCHANGED <<config, faults, ctxDone, other, signals, crashed, jobDone>>

\* NewConnector fails, as it does with its context done: no Close follows.
BuildFails ==
  /\ Fault \/ (ctxDone /\ UNCHANGED faults)
  /\ \E r \in {"transient", "permanent"} :
       /\ result' = r
       /\ SupervisorStep("build",
            IF ~ctxDone /\ IsRetryable(r) THEN "backoff" ELSE "returned")
  /\ UNCHANGED <<config, contexts, conn, server, closing, goroutines, channel,
                 run, consumed, snapshot, signalling, latches, helpers, closer, orphans,
                 crashed>>

Bootstrap ==
  \/ Run \/ SlotCreate \/ SlotConnect \/ CaptureSlot \/ StreamConnect
  \/ OpenFetches \/ FetchSnapshotLSN \/ FetchFails
  \/ OpenSetup \/ OpenSlotInUse \/ OpenMarks \/ OpenLaunches \/ BecomeReady
  \/ BootstrapFails \/ OpenNotConnected \/ ReusedConnectionFails
  \/ BootstrapCancelled \/ WaitEnds

Background ==
  SlotInfo \/ HeartbeatExecute \/ BackgroundPanics

ConnectorClose ==
  CloseSignals \/ CloseSlot \/ CloseHeartbeat \/ CloseStream \/ CloseDone

Supervise == AttemptEnds \/ BackoffEnds \/ BuildConnector \/ BuildFails

OtherVars == <<bootstrap, signalling, latches, helpers, callers>>

Next ==
  /\ ~crashed
  /\ \/ StreamNext /\ UNCHANGED OtherVars
     \/ Bootstrap \/ Background \/ ConnectorClose
     \/ Signal \/ CancelContext \/ OtherCompletes \/ Supervise

(***************************************************************************)
(* Every goroutine that can go on goes on.  Nothing forces a message to    *)
(* arrive, the stream to be idle, a caller to send a signal, to cancel or  *)
(* to close, another process to let go of the slot, or a failure.  That    *)
(* the listener returns is the application's part of the bargain; that     *)
(* PostgreSQL ends the walsender of a lost connection is wal_sender_timeout*)
(* (external).                                                             *)
(*                                                                         *)
(* streamShutdownTimeout is only counted on where the sink may reconnect:  *)
(* a stream that does not must come to its end without it.                 *)
(***************************************************************************)
SinkGoroutine ==
  \/ SinkSend \/ SinkReadFails \/ StatusUpdateFails \/ SinkBroken
  \/ ReconnectAttempt \/ ReconnectDials \/ ReconnectSucceeds
  \/ ReconnectSlotInUse \/ ReconnectCancelled
  \/ SinkFinish \/ SinkDecides \/ SinkCloses \/ Close("sink") \/ SinkReports

ProcessGoroutine == ProcessTake \/ ListenerReturns \/ ProcessEnds

RunGoroutine ==
  \/ Run \/ SlotCreate \/ SlotConnect \/ CaptureSlot \/ StreamConnect
  \/ OpenFetches \/ FetchSnapshotLSN
  \/ OpenSetup \/ OpenSlotInUse \/ OpenMarks \/ OpenLaunches \/ BecomeReady
  \/ OpenNotConnected \/ BootstrapCancelled \/ WaitEnds

CloseGoroutine ==
  \/ config.supervised /\ CloseSignals
  \/ CloseSlot \/ CloseHeartbeat \/ CloseStream \/ CloseDone

ShutdownTimeout ==
  /\ config.reconnect
  /\ \E c \in Closers, g \in {"sink", "process", "ticker"} : CloseTimesOut(c, g)

Fairness ==
  /\ WF_vars(SinkGoroutine /\ UNCHANGED OtherVars)
  /\ WF_vars(ProcessGoroutine /\ UNCHANGED OtherVars)
  /\ WF_vars(TickerEnds /\ UNCHANGED OtherVars)
  /\ WF_vars(Close("app") /\ UNCHANGED OtherVars)
  /\ WF_vars(ShutdownTimeout /\ UNCHANGED OtherVars)
  /\ WF_vars(WalsenderTimeout /\ UNCHANGED OtherVars)
  /\ WF_vars(~crashed /\ RunGoroutine)
  /\ WF_vars(CloseGoroutine)
  /\ WF_vars(AttemptEnds \/ BackoffEnds \/ BuildConnector)

Spec == Init /\ [][Next]_vars /\ Fairness

-----------------------------------------------------------------------------
Places == {"none", "conn", "cancel", "sink", "process", "ticker", "done"}

StreamFlags ==
  /\ ctxDone \in BOOLEAN /\ held \in BOOLEAN /\ other \in BOOLEAN
  /\ closed \in BOOLEAN /\ hasCancel \in BOOLEAN /\ cancelled \in BOOLEAN
  /\ corrupted \in BOOLEAN /\ chClosed \in BOOLEAN /\ streamErr \in BOOLEAN

StreamTypes ==
  /\ config \in Configs /\ faults \in 0..(config.maxFaults + 1)
  /\ conn \in {"closed", "open", "streaming", "lost"}
  /\ started \cup ended \subseteq {"sink", "process", "ticker"}
  /\ sink \in {"none", "loop", "sending", "broken", "attempt", "connect",
               "dialing", "finish", "decide", "closing", "done"}
  /\ process \in {"none", "select", "listener", "done"}
  /\ ticker \in {"none", "select", "done"}
  /\ messages \in 0..ChanCap
  /\ closeAt \in [Closers -> Places]

ConnectorFlags ==
  /\ consumed \in BOOLEAN /\ notify \in BOOLEAN /\ ready \in BOOLEAN
  /\ closedCh \in BOOLEAN /\ fatal \in BOOLEAN /\ crashed \in BOOLEAN
  /\ slotConn \in BOOLEAN /\ slotClosed \in BOOLEAN
  /\ hbConn \in BOOLEAN /\ hbClosed \in BOOLEAN

SnapshotFlags == fromSnapshot \in BOOLEAN /\ jobDone \in BOOLEAN

ConnectorTypes ==
  /\ run \in {"idle", "create", "connect", "capture", "stream", "open",
              "fetch", "start", "mark", "launch", "background", "wait", "returned"}
  /\ result \in {"none", "consumed", "transient", "permanent", "ctx", "nil",
                 "panic", "corrupted"}
  /\ cancelCh \in {"empty", "signal", "closed"} /\ signals \in 0..MaxSignals
  /\ closer \in {"none", "slot", "heartbeat", "stream", "waiting", "done"}
  /\ supervisor \in {"running", "backoff", "build", "returned"}
  /\ orphans \in Nat

\* The places of every goroutine and caller, and the states of what they share.
TypeOK ==
  StreamFlags /\ StreamTypes /\ ConnectorFlags /\ SnapshotFlags /\ ConnectorTypes

\* Once Close of a supervised connector is through, none of the connections it
\* manages is left open, whatever its background goroutines were doing: what
\* Supervise needs before it builds the next one.  Two exceptions: the sink may
\* be about to close the stream itself, and a reconnect may be under way when a
\* signal or a panic ends Run (see NothingLeaks).
NoConnectionLeft ==
  config.supervised /\ closer = "done"
    /\ closeAt["sink"] # "conn"
    /\ ~(config.reconnect /\ result \in {"nil", "panic"})
  => conn = "closed" /\ ~slotConn /\ ~hbConn

\* The same with no exception, and the connections of earlier attempts too.
NothingLeaks ==
  config.supervised /\ closer = "done" /\ closeAt["sink"] # "conn"
    => OpenConnections + orphans = 0

\* Err() reports a stream that broke, never one that was closed in good health:
\* while nothing has failed it stays silent, whatever the status update of a
\* sink that lost its connection to Close says.
NoFalseAlarm == streamErr => faults > 0

\* No order of Run, Close and signals ends a supervised process: Notify and
\* Stop of the signals are never the wrong way round.
NoCrash == config.supervised => ~crashed

\* The same for an application that calls Run and Close itself.
NeverCrashes == ~crashed

Returned == run = "returned" \/ supervisor = "returned" \/ crashed

\* Run waits for ever in fetchSnapshotLSN: the job is never completed, or the
\* context was done before it was.
FetchesForever == <>[](run = "fetch" /\ (ctxDone \/ ~jobDone))

\* Run returns once its context is done, the stream or a background goroutine
\* has failed, or a signal was delivered, unless it waits for the snapshot job
\* for ever.  Closed from another goroutine it returns too, unless Close took a
\* signal for a closed channel.  While another process keeps the slot only the
\* context is looked at.
RunReturns ==
  \/ FetchesForever
  \/ /\ ctxDone \/ streamErr \/ (cancelCh = "signal" /\ config.supervised) ~> Returned
     /\ fatal \/ (closedCh /\ signals = 0) ~> Returned \/ other

\* A done context ends Run without exception, also while it waits for the
\* snapshot job: "ctx cancellation ... always ends the loop cleanly" (Supervise).
ContextEndsRun == ctxDone ~> Returned

\* A supervised connector that is being closed is closed in the end.  Without
\* reconnect no wait of stream.Close needs its timeout: sink, process and
\* flushTicker all come to their end and report it.
CloseReturns == config.supervised /\ closer # "none" ~> closer = "done"

\* A caller of WaitUntilReady that waits on a supervised connector is released,
\* whichever of readyCh, closedCh and its context comes first, as long as no
\* other process keeps the slot and the snapshot job is completed in the end.
WaiterReleased ==
  \/ FetchesForever
  \/ config.supervised /\ supervisor = "running" ~> WaitUntilReadyReturns \/ other

\* Supervise ends, or the stream it looks after streams: no failure leaves it
\* between the two, except while another process keeps the slot or a snapshot
\* job that nobody completes is waited for.
Settles ==
  \/ FetchesForever
  \/ <>[](config.supervised =>
            \/ supervisor = "returned"
            \/ run = "wait" /\ conn = "streaming"
            \/ other)

\* A supervised stream that may reconnect and has lost its connection streams
\* again when that is all that fails, unless the process was asked to stop.
Recovers ==
  conn = "lost" ~> conn = "streaming" \/ ctxDone \/ signals > 0 \/ faults > 1
=============================================================================
