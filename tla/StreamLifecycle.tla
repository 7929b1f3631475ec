-------------------------- MODULE StreamLifecycle --------------------------
(***************************************************************************)
(* The goroutines of a stream (pq/replication/stream.go) from Open to      *)
(* Close: sink, process and flushTicker, the in-process reconnect, and the *)
(* two callers of Close, the application and the sink itself.  What the    *)
(* messages carry is the business of ReplicationStream; here a message is  *)
(* only a place in messageCH.                                              *)
(*                                                                         *)
(* connMu is held over one read or one write, each of which is one action, *)
(* or over one reconnect attempt, which is where sink is "dialing": the    *)
(* lock itself needs no variable.                                          *)
(***************************************************************************)
EXTENDS Integers, Sequences

CONSTANTS
  Configs,       \* the configurations considered
  ChanCap        \* capacity of messageCH

\* reconnect.enabled, heartbeat, extensionSupport.enableTimescaleDB and
\* snapshot.enabled (mode initial) of the configuration, whether Supervise runs the connector or the application does,
\* and a bound on the failures of connections, servers and goroutines, beyond
\* which one attempt to reconnect may still fail.
ASSUME LifecycleAssumption ==
  /\ ChanCap \in Nat \ {0}
  /\ Configs \subseteq [reconnect : BOOLEAN, heartbeat : BOOLEAN, timescale : BOOLEAN,
                        snapshot : BOOLEAN, supervised : BOOLEAN, maxFaults : Nat]

VARIABLES
  config,        \* the configuration
  faults,        \* failures so far
  ctxDone,       \* the context given to Run is done
  conn,          \* s.conn: "closed", "open", "streaming" or "lost"
  held,          \* the server has not noticed yet that a walsender is gone
  other,         \* another process reads from the slot
  closed,        \* s.closed
  hasCancel,     \* s.cancel is set
  cancelled,     \* s.cancel was called
  started,       \* the goroutines Close waits for
  ended,         \* goroutines whose end Close has not received yet
  sink,          \* where the sink goroutine is
  corrupted,     \* the local variable of sink
  process,       \* where the process goroutine is
  ticker,        \* where the flushTicker goroutine is
  messages,      \* messages in messageCH
  chClosed,      \* messageCH is closed
  closeAt,       \* where each caller of Close is
  streamErr      \* an error is waiting in s.fatalCh

goroutines == <<sink, corrupted, process, ticker, started, ended>>
channel    == <<messages, chClosed>>
server     == <<held, other>>
contexts   == <<ctxDone, hasCancel, cancelled>>
closing    == <<closed, closeAt, streamErr>>
streamVars == <<config, faults, contexts, conn, server, closing, goroutines, channel>>

Closers == {"sink", "app"}

\* The context of the goroutines is derived from the one given to Run.
RunCtxDone == ctxDone \/ cancelled

\* pg_replication_slots.active.
SlotActive == held \/ other \/ conn = "streaming"

Fault == faults < config.maxFaults /\ faults' = faults + 1

\* A stream as NewStream returns it.
NewStream ==
  /\ conn' = "closed"
  /\ closed' = FALSE /\ hasCancel' = FALSE /\ cancelled' = FALSE
  /\ started' = {} /\ ended' = {}
  /\ sink' = "none" /\ process' = "none" /\ ticker' = "none"
  /\ corrupted' = FALSE
  /\ messages' = 0 /\ chClosed' = FALSE
  /\ closeAt' = [c \in Closers |-> "none"]
  /\ streamErr' = FALSE

StreamInit ==
  /\ config \in Configs
  /\ faults = 0 /\ ctxDone = FALSE
  /\ conn = "closed" /\ held = FALSE /\ other \in BOOLEAN
  /\ closed = FALSE /\ hasCancel = FALSE /\ cancelled = FALSE
  /\ started = {} /\ ended = {}
  /\ sink = "none" /\ process = "none" /\ ticker = "none"
  /\ corrupted = FALSE
  /\ messages = 0 /\ chClosed = FALSE
  /\ closeAt = [c \in Closers |-> "none"]
  /\ streamErr = FALSE

(***************************************************************************)
(* The server and the network (external).                                  *)
(***************************************************************************)
\* The connection breaks.  The server may take a while to notice.
ConnectionLost ==
  /\ conn = "streaming"
  /\ Fault
  /\ conn' = "lost"
  /\ held' \in {held, TRUE}
  /\ UNCHANGED <<config, contexts, other, closing, goroutines, channel>>

\* wal_sender_timeout ends the walsender of a connection that is gone.
WalsenderTimeout ==
  /\ held
  /\ held' = FALSE
  /\ UNCHANGED <<config, faults, contexts, conn, other, closing, goroutines, channel>>

OtherReleases ==
  /\ other
  /\ other' = FALSE
  /\ UNCHANGED <<config, faults, contexts, conn, held, closing, goroutines, channel>>

OtherCaptures ==
  /\ ~SlotActive
  /\ Fault
  /\ other' = TRUE
  /\ UNCHANGED <<config, contexts, conn, held, closing, goroutines, channel>>

(***************************************************************************)
(* sinkLoop and sink.                                                      *)
(***************************************************************************)
\* A data message arrives, and the sink goes on to send it to messageCH.
SinkRead ==
  /\ sink = "loop" /\ conn = "streaming"
  /\ sink' = "sending"
  /\ UNCHANGED <<config, faults, contexts, conn, server, closing, corrupted,
                 process, ticker, started, ended, channel>>

\* Mutant: the channel is taken for an unbounded queue.
SendUnbounded ==
  /\ sink = "sending"
  /\ messages' = messages + 1
  /\ sink' = "loop"
  /\ UNCHANGED <<config, faults, contexts, conn, server, closing, corrupted,
                 process, ticker, started, ended, chClosed>>

\* The select of messageBuffer.send: room in the channel, or ctx.Done.
SinkSend ==
  /\ sink = "sending"
  /\ \/ messages < ChanCap /\ messages' = messages + 1
     \/ RunCtxDone /\ UNCHANGED messages
  /\ sink' = "loop"
  /\ UNCHANGED <<config, faults, contexts, conn, server, closing, corrupted,
                 process, ticker, started, ended, chClosed>>

\* The read times out, the only time a healthy sinkLoop looks at closed; if
\* the stream is not closed it sends a status update and reads on.
SinkIdle ==
  /\ sink = "loop" /\ conn \in {"open", "streaming"}
  /\ closed
  /\ sink' = "finish" /\ corrupted' = FALSE
  /\ UNCHANGED <<config, faults, contexts, conn, server, closing, process,
                 ticker, started, ended, channel>>

\* The read fails: a deliberate Close, or a corrupted stream.
SinkReadFails ==
  /\ sink = "loop" /\ conn \in {"closed", "lost"}
  /\ conn' = "closed"
  /\ corrupted' = ~closed
  /\ sink' = IF closed THEN "finish" ELSE "broken"
  /\ UNCHANGED <<config, faults, contexts, server, closing, process, ticker,
                 started, ended, channel>>

\* A status update fails, after an idle read or in answer to a keepalive: the
\* stream counts as corrupted, whoever closed the connection.
StatusUpdateFails ==
  /\ sink = "loop" /\ conn \in {"closed", "lost"}
  /\ conn' = "closed"
  /\ corrupted' = TRUE /\ sink' = "broken"
  /\ UNCHANGED <<config, faults, contexts, server, closing, process, ticker,
                 started, ended, channel>>

\* sink: reconnect, unless the stream was closed or may not reconnect.
SinkBroken ==
  /\ sink = "broken"
  /\ sink' = IF closed \/ ~config.reconnect THEN "finish" ELSE "attempt"
  /\ UNCHANGED <<config, faults, contexts, conn, server, closing, corrupted,
                 process, ticker, started, ended, channel>>

\* reconnect: an attempt starts by looking at closed, before it takes connMu.
ReconnectAttempt ==
  /\ sink = "attempt"
  /\ sink' = IF closed THEN "finish" ELSE "connect"
  /\ UNCHANGED <<config, faults, contexts, conn, server, closing, corrupted,
                 process, ticker, started, ended, channel>>

\* It takes connMu and closes the old connection.  With its context done the
\* attempt fails, and there is no other.
ReconnectDials ==
  /\ sink = "connect"
  /\ conn' = "closed"
  /\ sink' = IF RunCtxDone THEN "finish" ELSE "dialing"
  /\ UNCHANGED <<config, faults, contexts, server, closing, corrupted, process,
                 ticker, started, ended, channel>>

\* Connect and setup succeed, and connMu is released.
ReconnectSucceeds ==
  /\ sink = "dialing"
  /\ ~held /\ ~other
  /\ conn' = "streaming"
  /\ sink' = "loop"
  /\ UNCHANGED <<config, faults, contexts, server, closing, corrupted, process,
                 ticker, started, ended, channel>>

\* The slot is in use: 55006 is not among the errors worth a retry.
ReconnectSlotInUse ==
  /\ sink = "dialing"
  /\ held \/ other
  /\ conn' = "open"
  /\ sink' = "finish"
  /\ UNCHANGED <<config, faults, contexts, server, closing, corrupted, process,
                 ticker, started, ended, channel>>

\* Connect fails, or setup does and leaves the connection open: another attempt
\* after a delay, or none when the error is permanent or the budget is used up.
ReconnectFails ==
  /\ sink = "dialing"
  /\ faults <= config.maxFaults
  /\ faults' = faults + 1
  /\ conn' \in {"closed", "open"}
  /\ sink' \in {"attempt", "finish"}
  /\ UNCHANGED <<config, contexts, server, closing, corrupted, process, ticker,
                 started, ended, channel>>

\* The context ends during an attempt or between two.
ReconnectCancelled ==
  /\ sink \in {"attempt", "dialing"} /\ RunCtxDone
  /\ conn' \in IF sink = "dialing" THEN {"closed", "open"} ELSE {conn}
  /\ sink' = "finish"
  /\ UNCHANGED <<config, faults, contexts, server, closing, corrupted, process,
                 ticker, started, ended, channel>>

\* messageCH is closed and sinkEnd is sent.
SinkFinish ==
  /\ sink = "finish"
  /\ chClosed' = TRUE
  /\ ended' = ended \cup {"sink"}
  /\ sink' = "decide"
  /\ UNCHANGED <<config, faults, contexts, conn, server, closing, corrupted,
                 process, ticker, started, messages>>

\* Mutant: the sink closes the stream and reports, whoever closed it first.
DecidesUnchecked ==
  /\ sink = "decide"
  /\ sink' = "closing"
  /\ UNCHANGED <<config, faults, contexts, conn, server, closing, corrupted,
                 process, ticker, started, ended, channel>>

\* If nobody has closed the stream yet, the sink does.
SinkDecides ==
  /\ sink = "decide"
  /\ sink' = IF closed THEN "done" ELSE "closing"
  /\ UNCHANGED <<config, faults, contexts, conn, server, closing, corrupted,
                 process, ticker, started, ended, channel>>

\* Mutant: nothing is sent on Err().
ReportsNothing ==
  /\ sink = "closing" /\ closeAt["sink"] = "done"
  /\ sink' = "done"
  /\ UNCHANGED <<config, faults, contexts, conn, server, closing, corrupted,
                 process, ticker, started, ended, channel>>

\* Its Close has returned: a corrupted stream is reported on Err().
SinkReports ==
  /\ sink = "closing" /\ closeAt["sink"] = "done"
  /\ streamErr' = corrupted
  /\ sink' = "done"
  /\ UNCHANGED <<config, faults, contexts, conn, server, closed, closeAt,
                 corrupted, process, ticker, started, ended, channel>>

(***************************************************************************)
(* process and flushTicker.                                                *)
(***************************************************************************)
ProcessTake ==
  /\ process = "select" /\ messages > 0
  /\ messages' = messages - 1
  /\ process' = "listener"
  /\ UNCHANGED <<config, faults, contexts, conn, server, closing, sink,
                 corrupted, ticker, started, ended, chClosed>>

ListenerReturns ==
  /\ process = "listener"
  /\ process' = "select"
  /\ UNCHANGED <<config, faults, contexts, conn, server, closing, sink,
                 corrupted, ticker, started, ended, channel>>

ProcessEnds ==
  /\ process = "select"
  /\ RunCtxDone \/ (chClosed /\ messages = 0)
  /\ process' = "done"
  /\ ended' = ended \cup {"process"}
  /\ UNCHANGED <<config, faults, contexts, conn, server, closing, sink,
                 corrupted, ticker, started, channel>>

TickerEnds ==
  /\ ticker = "select" /\ RunCtxDone
  /\ ticker' = "done"
  /\ ended' = ended \cup {"ticker"}
  /\ UNCHANGED <<config, faults, contexts, conn, server, closing, sink,
                 corrupted, process, started, channel>>

(***************************************************************************)
(* Close, called by c.                                                     *)
(***************************************************************************)
CloseStep(c, from, to) ==
  /\ closeAt[c] = from
  /\ closeAt' = [closeAt EXCEPT ![c] = to]

\* The compare-and-swap on closed: the second caller returns at once.
CloseClaims(c) ==
  /\ CloseStep(c, "none", IF closed THEN "done" ELSE "conn")
  /\ closed' = TRUE
  /\ UNCHANGED <<config, faults, contexts, conn, server, streamErr, goroutines, channel>>

SinkCloses == sink = "closing" /\ CloseClaims("sink")

\* Under connMu, and before anything is waited for.
CloseConnection(c) ==
  /\ CloseStep(c, "conn", "cancel")
  /\ sink # "dialing"
  /\ conn' = "closed"
  /\ UNCHANGED <<config, faults, contexts, server, closed, streamErr, goroutines, channel>>

CloseCancels(c) ==
  /\ CloseStep(c, "cancel", "sink")
  /\ cancelled' = hasCancel
  /\ UNCHANGED <<config, faults, ctxDone, hasCancel, conn, server, closed,
                 streamErr, goroutines, channel>>

AfterWait(g) == CASE g = "sink" -> "process" [] g = "process" -> "ticker"
                  [] g = "ticker" -> "done"

\* Mutant: Close takes the end of whichever goroutine comes first.
WaitsForAny(c, g) ==
  /\ CloseStep(c, g, AfterWait(g))
  /\ g \notin started \/ ended # {}
  /\ ended' = {}
  /\ UNCHANGED <<config, faults, contexts, conn, server, closed, streamErr,
                 sink, corrupted, process, ticker, started, channel>>

\* Close waits for each goroutine that was started.
CloseWaits(c, g) ==
  /\ CloseStep(c, g, AfterWait(g))
  /\ g \notin started \/ g \in ended
  /\ ended' = ended \ {g}
  /\ UNCHANGED <<config, faults, contexts, conn, server, closed, streamErr,
                 sink, corrupted, process, ticker, started, channel>>

\* streamShutdownTimeout.
CloseTimesOut(c, g) ==
  /\ CloseStep(c, g, AfterWait(g))
  /\ g \in started \ ended
  /\ UNCHANGED <<config, faults, contexts, conn, server, closed, streamErr,
                 goroutines, channel>>

Close(c) ==
  \/ CloseConnection(c) \/ CloseCancels(c)
  \/ \E g \in {"sink", "process", "ticker"} : CloseWaits(c, g)

Sink ==
  \/ SinkRead \/ SinkSend \/ SinkIdle \/ SinkReadFails \/ StatusUpdateFails
  \/ SinkBroken
  \/ ReconnectAttempt \/ ReconnectDials \/ ReconnectSucceeds \/ ReconnectSlotInUse
  \/ ReconnectFails \/ ReconnectCancelled
  \/ SinkFinish \/ SinkDecides \/ SinkCloses \/ SinkReports

Consumer == ProcessTake \/ ListenerReturns \/ ProcessEnds \/ TickerEnds

Environment ==
  ConnectionLost \/ WalsenderTimeout \/ OtherReleases \/ OtherCaptures

StreamNext ==
  \/ Environment \/ Sink \/ Consumer
  \/ \E c \in Closers : Close(c)
  \/ \E c \in Closers, g \in {"sink", "process", "ticker"} : CloseTimesOut(c, g)
=============================================================================
