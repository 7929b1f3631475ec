---------------------- MODULE ConnectorLifecycleProofs ----------------------
(***************************************************************************)
(* Proofs about ConnectorLifecycle, for every configuration, every channel *)
(* capacity and any number of failures.                                    *)
(***************************************************************************)
EXTENDS ConnectorLifecycle, TLAPS

-----------------------------------------------------------------------------
(* Type correctness. *)

\* The configuration is a record of flags and a bound.
LEMMA ConfigFacts ==
  ASSUME config \in Configs
  PROVE  /\ config.maxFaults \in Nat /\ config.reconnect \in BOOLEAN
         /\ config.supervised \in BOOLEAN /\ config.timescale \in BOOLEAN
         /\ config.heartbeat \in BOOLEAN
BY LifecycleAssumption DEF LifecycleAssumption

\* The initial states are well typed.
LEMMA InitTypeOK == Init => TypeOK
<1> SUFFICES ASSUME Init PROVE TypeOK
  OBVIOUS
<1>1. config.maxFaults \in Nat /\ ChanCap \in Nat
  BY ConfigFacts, LifecycleAssumption DEF Init, StreamInit, LifecycleAssumption
<1>2. StreamFlags
  BY Zenon DEF Init, StreamInit, StreamFlags
<1>3. StreamTypes
  BY <1>1 DEF Init, StreamInit, StreamTypes, Places
<1>4. ConnectorFlags /\ SnapshotFlags
  BY Zenon DEF Init, ConnectorFlags, SnapshotFlags
<1>5. ConnectorTypes
  BY DEF Init, ConnectorTypes, MaxSignals
<1>6. QED
  BY <1>2, <1>3, <1>4, <1>5 DEF TypeOK


\* The steps of the stream keep the places of its goroutines and callers.
LEMMA StreamTypesKept ==
  ASSUME StreamTypes, StreamNext
  PROVE  StreamTypes'
<1> USE DEF contexts, server, closing, goroutines, channel
<1>1. config.maxFaults \in Nat /\ ChanCap \in Nat
  BY ConfigFacts, LifecycleAssumption DEF StreamTypes, LifecycleAssumption
<1>2. CASE Environment
  <2>1. \/ faults' = faults \/ (faults < config.maxFaults /\ faults' = faults + 1)
    BY <1>2 DEF Environment, ConnectionLost, WalsenderTimeout, OtherReleases,
       OtherCaptures, Fault
  <2>2. /\ conn' \in {conn, "lost"}
        /\ UNCHANGED <<config, closeAt, goroutines, messages>>
    BY <1>2 DEF Environment, ConnectionLost, WalsenderTimeout, OtherReleases,
       OtherCaptures
  <2>3. QED
    BY <1>1, <2>1, <2>2 DEF StreamTypes
<1>3. CASE \/ SinkRead \/ SinkSend \/ SinkIdle \/ SinkReadFails \/ StatusUpdateFails
           \/ SinkBroken
  BY <1>1, <1>3 DEF SinkRead, SinkSend, SinkIdle, SinkReadFails, StatusUpdateFails,
     SinkBroken, StreamTypes
<1>4. CASE \/ ReconnectAttempt \/ ReconnectDials \/ ReconnectSucceeds
           \/ ReconnectSlotInUse \/ ReconnectFails \/ ReconnectCancelled
  BY <1>1, <1>4 DEF ReconnectAttempt, ReconnectDials, ReconnectSucceeds,
     ReconnectSlotInUse, ReconnectFails, ReconnectCancelled, StreamTypes
<1>5. CASE SinkFinish \/ SinkDecides \/ SinkReports
  BY <1>1, <1>5 DEF SinkFinish, SinkDecides, SinkReports, StreamTypes
<1>6. CASE Consumer
  BY <1>1, <1>6 DEF Consumer, ProcessTake, ListenerReturns, ProcessEnds, TickerEnds,
     StreamTypes
<1>7. ASSUME NEW c \in Closers, CloseClaims(c) PROVE StreamTypes'
  BY <1>1, <1>7 DEF CloseClaims, CloseStep, StreamTypes, Places
<1>8. ASSUME NEW c \in Closers, Close(c) PROVE StreamTypes'
  BY <1>1, <1>8 DEF Close, CloseConnection, CloseCancels, CloseWaits, CloseStep,
     AfterWait, StreamTypes, Places
<1>9. ASSUME NEW c \in Closers, NEW g \in {"sink", "process", "ticker"}, CloseTimesOut(c, g)
      PROVE  StreamTypes'
  BY <1>1, <1>9 DEF CloseTimesOut, CloseStep, AfterWait, StreamTypes, Places
<1>10. CASE SinkCloses
  BY <1>7, <1>10 DEF SinkCloses, Closers
<1>11. QED
  BY <1>2, <1>3, <1>4, <1>5, <1>6, <1>8, <1>9, <1>10 DEF StreamNext, Sink

\* The steps of the stream keep its flags Boolean.
LEMMA StreamFlagsKept ==
  ASSUME StreamFlags, StreamNext
  PROVE  StreamFlags'
<1> USE DEF contexts, server, closing, goroutines, channel
<1>1. CASE Environment
  BY Zenon, <1>1 DEF Environment, ConnectionLost, WalsenderTimeout, OtherReleases,
     OtherCaptures, StreamFlags
<1>2. CASE \/ SinkRead \/ SinkSend \/ SinkIdle \/ SinkReadFails \/ StatusUpdateFails
           \/ SinkBroken
  BY Zenon, <1>2 DEF SinkRead, SinkSend, SinkIdle, SinkReadFails, StatusUpdateFails,
     SinkBroken, StreamFlags
<1>3. CASE \/ ReconnectAttempt \/ ReconnectDials \/ ReconnectSucceeds
           \/ ReconnectSlotInUse \/ ReconnectFails \/ ReconnectCancelled
  BY Zenon, <1>3 DEF ReconnectAttempt, ReconnectDials, ReconnectSucceeds,
     ReconnectSlotInUse, ReconnectFails, ReconnectCancelled, StreamFlags
<1>4. CASE SinkFinish \/ SinkDecides \/ SinkReports
  BY Zenon, <1>4 DEF SinkFinish, SinkDecides, SinkReports, StreamFlags
<1>5. CASE Consumer
  BY Zenon, <1>5 DEF Consumer, ProcessTake, ListenerReturns, ProcessEnds, TickerEnds,
     StreamFlags
<1>6. ASSUME NEW c \in Closers, CloseClaims(c) \/ Close(c) PROVE StreamFlags'
  BY Zenon, <1>6 DEF CloseClaims, Close, CloseConnection, CloseCancels, CloseWaits, StreamFlags
<1>7. ASSUME NEW c \in Closers, NEW g \in {"sink", "process", "ticker"}, CloseTimesOut(c, g)
      PROVE  StreamFlags'
  BY Zenon, <1>7 DEF CloseTimesOut, StreamFlags
<1>8. CASE SinkCloses
  BY <1>6, <1>8 DEF SinkCloses, Closers
<1>9. QED
  BY <1>1, <1>2, <1>3, <1>4, <1>5, <1>6, <1>7, <1>8 DEF StreamNext, Sink

\* The steps of Run, the background goroutines, Close and Supervise keep the
\* flags of the stream Boolean.
LEMMA StreamFlagsKeptByOthers ==
  ASSUME StreamFlags,
         Bootstrap \/ Background \/ ConnectorClose \/ Signal \/ CancelContext \/ OtherCompletes
         \/ Supervise
  PROVE  StreamFlags'
<1> USE DEF contexts, server, closing, goroutines, channel, streamVars, StreamFlags
<1>1. CASE Run \/ SlotCreate \/ SlotConnect \/ CaptureSlot \/ StreamConnect
  BY ZenonT(30), <1>1 DEF Run, SlotCreate, SlotConnect, CaptureSlot, StreamConnect
<1>2. CASE \/ OpenFetches \/ FetchSnapshotLSN \/ OpenSetup \/ OpenSlotInUse
           \/ OpenMarks \/ OpenLaunches \/ BecomeReady
  BY ZenonT(30), <1>2 DEF OpenFetches, FetchSnapshotLSN, Starting, OpenSetup,
     OpenSlotInUse, OpenMarks, OpenLaunches, BecomeReady
<1>3. CASE BootstrapFails \/ FetchFails \/ OpenNotConnected \/ ReusedConnectionFails \/ BootstrapCancelled
  BY ZenonT(30), <1>3 DEF BootstrapFails, FetchFails, Starting, OpenNotConnected, ReusedConnectionFails,
     BootstrapCancelled
<1>4. CASE WaitEnds
  BY ZenonT(30), <1>4 DEF WaitEnds
<1>5. CASE Background \/ CancelContext \/ OtherCompletes \/ Signal
  BY ZenonT(30), <1>5 DEF Background, SlotInfo, HeartbeatExecute, BackgroundPanics, OtherCompletes,
     CancelContext, Signal
<1>6. CASE ConnectorClose
  BY ZenonT(30), <1>6 DEF ConnectorClose, CloseSignals, CloseSlot, CloseHeartbeat,
     CloseStream, CloseClaims, CloseDone
<1>7. CASE AttemptEnds \/ BackoffEnds \/ BuildFails
  BY ZenonT(30), <1>7 DEF AttemptEnds, BackoffEnds, BuildFails
<1>8. CASE BuildConnector
  BY ZenonT(30), <1>8 DEF BuildConnector, NewStream, NewConnector
<1>9. QED
  BY <1>1, <1>2, <1>3, <1>4, <1>5, <1>6, <1>7, <1>8 DEF Bootstrap, Supervise

\* They keep the flags of the connector Boolean.
LEMMA ConnectorFlagsKept ==
  ASSUME ConnectorFlags,
         Bootstrap \/ Background \/ ConnectorClose \/ Signal \/ CancelContext \/ OtherCompletes
         \/ Supervise
  PROVE  ConnectorFlags'
<1> USE DEF bootstrap, snapshot, signalling, latches, helpers, callers, ConnectorFlags
<1>1. CASE Run \/ SlotCreate \/ SlotConnect \/ CaptureSlot \/ StreamConnect
  BY ZenonT(30), <1>1 DEF Run, SlotCreate, SlotConnect, CaptureSlot, StreamConnect
<1>2. CASE \/ OpenFetches \/ FetchSnapshotLSN \/ OpenSetup \/ OpenSlotInUse
           \/ OpenMarks \/ OpenLaunches \/ BecomeReady
  BY ZenonT(30), <1>2 DEF OpenFetches, FetchSnapshotLSN, Starting, OpenSetup,
     OpenSlotInUse, OpenMarks, OpenLaunches, BecomeReady
<1>3. CASE BootstrapFails \/ FetchFails \/ OpenNotConnected \/ ReusedConnectionFails \/ BootstrapCancelled
  BY ZenonT(30), <1>3 DEF BootstrapFails, FetchFails, Starting, OpenNotConnected, ReusedConnectionFails,
     BootstrapCancelled
<1>4. CASE WaitEnds
  BY ZenonT(30), <1>4 DEF WaitEnds
<1>5. CASE Background \/ CancelContext \/ OtherCompletes \/ Signal
  BY ZenonT(30), <1>5 DEF Background, SlotInfo, HeartbeatExecute, BackgroundPanics, OtherCompletes,
     CancelContext, Signal
<1>6. CASE ConnectorClose
  BY ZenonT(30), <1>6 DEF ConnectorClose, CloseSignals, CloseSlot, CloseHeartbeat,
     CloseStream, CloseClaims, CloseDone
<1>7. CASE AttemptEnds \/ BackoffEnds \/ BuildFails
  BY ZenonT(30), <1>7 DEF AttemptEnds, BackoffEnds, BuildFails
<1>8. CASE BuildConnector
  BY ZenonT(30), <1>8 DEF BuildConnector, NewStream, NewConnector
<1>9. QED
  BY <1>1, <1>2, <1>3, <1>4, <1>5, <1>6, <1>7, <1>8 DEF Bootstrap, Supervise

\* They keep what is known of the snapshot Boolean.
LEMMA SnapshotFlagsKept ==
  ASSUME SnapshotFlags,
         Bootstrap \/ Background \/ ConnectorClose \/ Signal \/ CancelContext \/ OtherCompletes
         \/ Supervise
  PROVE  SnapshotFlags'
<1> USE DEF snapshot, bootstrap, SnapshotFlags
<1>1. CASE SlotCreate
  BY Zenon, <1>1 DEF SlotCreate
<1>2. CASE OtherCompletes \/ BuildConnector
  BY Zenon, <1>2 DEF OtherCompletes, BuildConnector, NewConnector
<1>3. CASE Bootstrap /\ ~SlotCreate
  <2>1. UNCHANGED snapshot
    BY <1>3 DEF Bootstrap, Run, SlotConnect, CaptureSlot, StreamConnect, OpenFetches,
       FetchSnapshotLSN, FetchFails, OpenSetup, OpenSlotInUse, OpenMarks, OpenLaunches,
       BecomeReady, BootstrapFails, OpenNotConnected, ReusedConnectionFails,
       BootstrapCancelled, WaitEnds
  <2>2. QED
    BY Zenon, <2>1
<1>4. CASE Background \/ CancelContext \/ Signal \/ ConnectorClose \/ (Supervise /\ ~BuildConnector)
  <2>1. UNCHANGED snapshot
    BY <1>4 DEF Background, SlotInfo, HeartbeatExecute, BackgroundPanics, CancelContext,
       Signal, ConnectorClose, CloseSignals, CloseSlot, CloseHeartbeat, CloseStream,
       CloseDone, Supervise, AttemptEnds, BackoffEnds, BuildFails
  <2>2. QED
    BY Zenon, <2>1
<1>5. QED
  BY <1>1, <1>2, <1>3, <1>4

\* They keep the places of the stream's goroutines and callers.
LEMMA StreamTypesKeptByOthers ==
  ASSUME StreamTypes,
         Bootstrap \/ Background \/ ConnectorClose \/ Signal \/ CancelContext \/ OtherCompletes
         \/ Supervise
  PROVE  StreamTypes'
<1> USE DEF contexts, server, closing, goroutines, channel, streamVars, StreamTypes
<1>0. config.maxFaults \in Nat /\ ChanCap \in Nat
  BY ConfigFacts, LifecycleAssumption DEF LifecycleAssumption
<1>1. CASE Run \/ SlotCreate \/ SlotConnect \/ CaptureSlot \/ StreamConnect
  BY <1>1 DEF Run, SlotCreate, SlotConnect, CaptureSlot, StreamConnect
<1>2. CASE \/ OpenFetches \/ FetchSnapshotLSN \/ OpenSetup \/ OpenSlotInUse
           \/ OpenMarks \/ OpenLaunches \/ BecomeReady
  BY <1>2 DEF OpenFetches, FetchSnapshotLSN, Starting, OpenSetup,
     OpenSlotInUse, OpenMarks, OpenLaunches, BecomeReady
<1>3. CASE \/ BootstrapFails \/ FetchFails \/ OpenNotConnected \/ ReusedConnectionFails
           \/ BootstrapCancelled \/ WaitEnds
  <2>1. \/ faults' = faults \/ (faults < config.maxFaults /\ faults' = faults + 1)
    BY <1>3 DEF BootstrapFails, FetchFails, Starting, OpenNotConnected, ReusedConnectionFails,
       BootstrapCancelled, WaitEnds, Fault
  <2>2. conn' \in {conn, "closed"} /\ UNCHANGED <<config, closeAt, goroutines, messages>>
    BY <1>3 DEF BootstrapFails, FetchFails, Starting, OpenNotConnected, ReusedConnectionFails,
       BootstrapCancelled, WaitEnds
  <2>3. QED
    BY <1>0, <2>1, <2>2
<1>4. CASE Background \/ CancelContext \/ OtherCompletes \/ Signal
  <2>1. \/ faults' = faults \/ (faults < config.maxFaults /\ faults' = faults + 1)
    BY <1>4 DEF Background, SlotInfo, HeartbeatExecute, BackgroundPanics, OtherCompletes,
       CancelContext, Signal, Fault
  <2>2. UNCHANGED <<conn, config, closeAt, goroutines, messages>>
    BY <1>4 DEF Background, SlotInfo, HeartbeatExecute, BackgroundPanics, OtherCompletes,
       CancelContext, Signal
  <2>3. QED
    BY <1>0, <2>1, <2>2
<1>5. CASE CloseSignals \/ CloseSlot \/ CloseHeartbeat \/ CloseDone
  BY <1>5 DEF CloseSignals, CloseSlot, CloseHeartbeat, CloseDone
<1>6. CASE CloseStream
  BY <1>6 DEF CloseStream, CloseClaims, CloseStep, Closers, Places
<1>7. CASE AttemptEnds \/ BackoffEnds \/ BuildFails
  <2>1. \/ faults' = faults \/ (faults < config.maxFaults /\ faults' = faults + 1)
    BY <1>7 DEF AttemptEnds, BackoffEnds, BuildFails, Fault
  <2>2. UNCHANGED <<conn, config, closeAt, goroutines, messages>>
    BY <1>7 DEF AttemptEnds, BackoffEnds, BuildFails
  <2>3. QED
    BY <1>0, <2>1, <2>2
<1>8. CASE BuildConnector
  BY <1>0, <1>8 DEF BuildConnector, NewStream, Places
<1>9. QED
  BY <1>1, <1>2, <1>3, <1>4, <1>5, <1>6, <1>7, <1>8
  DEF Bootstrap, ConnectorClose, Supervise

\* They keep the places of Run, Close and Supervise.
LEMMA ConnectorTypesKept ==
  ASSUME ConnectorTypes, StreamTypes,
         Bootstrap \/ Background \/ ConnectorClose \/ Signal \/ CancelContext \/ OtherCompletes
         \/ Supervise
  PROVE  ConnectorTypes'
<1> USE DEF bootstrap, snapshot, signalling, latches, helpers, callers, ConnectorTypes,
        RunStep, CloserStep, SupervisorStep, Return
<1>1. CASE Run \/ SlotCreate \/ SlotConnect \/ CaptureSlot \/ StreamConnect
  BY <1>1 DEF Run, SlotCreate, SlotConnect, CaptureSlot, StreamConnect
<1>2. CASE \/ OpenFetches \/ FetchSnapshotLSN \/ OpenSetup \/ OpenSlotInUse
           \/ OpenMarks \/ OpenLaunches \/ BecomeReady
  BY <1>2 DEF OpenFetches, FetchSnapshotLSN, Starting, OpenSetup,
     OpenSlotInUse, OpenMarks, OpenLaunches, BecomeReady
<1>3. CASE \/ BootstrapFails \/ FetchFails \/ OpenNotConnected \/ ReusedConnectionFails
           \/ BootstrapCancelled \/ WaitEnds
  BY <1>3 DEF BootstrapFails, FetchFails, Starting, OpenNotConnected, ReusedConnectionFails,
     BootstrapCancelled, WaitEnds
<1>4. CASE Background \/ CancelContext \/ OtherCompletes
  BY <1>4 DEF Background, SlotInfo, HeartbeatExecute, BackgroundPanics, OtherCompletes, CancelContext
<1>5. CASE Signal
  BY <1>5 DEF Signal, MaxSignals
<1>6. CASE ConnectorClose
  BY <1>6 DEF ConnectorClose, CloseSignals, CloseSlot, CloseHeartbeat,
     CloseStream, CloseDone
<1>7. CASE AttemptEnds \/ BackoffEnds \/ BuildFails
  BY <1>7 DEF AttemptEnds, BackoffEnds, BuildFails
<1>8. CASE BuildConnector
  <2>1. OpenConnections \in Nat
    BY DEF OpenConnections, Timescale
  <2>2. QED
    BY <1>8, <2>1 DEF BuildConnector, NewConnector
<1>9. QED
  BY <1>1, <1>2, <1>3, <1>4, <1>5, <1>6, <1>7, <1>8 DEF Bootstrap, Supervise

\* Every step keeps every variable in its type.
LEMMA NextTypeOK == TypeOK /\ [Next]_vars => TypeOK'
<1> SUFFICES ASSUME TypeOK, [Next]_vars PROVE TypeOK'
  OBVIOUS
<1>1. CASE StreamNext /\ UNCHANGED OtherVars
  <2>1. ConnectorFlags' /\ SnapshotFlags' /\ ConnectorTypes'
    BY <1>1 DEF TypeOK, ConnectorFlags, SnapshotFlags, ConnectorTypes, OtherVars, bootstrap, snapshot,
       signalling, latches, helpers, callers
  <2>2. QED
    BY <1>1, <2>1, StreamTypesKept, StreamFlagsKept DEF TypeOK
<1>2. CASE Bootstrap \/ Background \/ ConnectorClose \/ Signal \/ CancelContext \/ OtherCompletes
         \/ Supervise
  BY <1>2, StreamFlagsKeptByOthers, ConnectorFlagsKept, SnapshotFlagsKept,
     StreamTypesKeptByOthers, ConnectorTypesKept DEF TypeOK
<1>3. CASE UNCHANGED vars
  BY <1>3 DEF TypeOK, StreamFlags, StreamTypes, ConnectorFlags, SnapshotFlags, ConnectorTypes, vars,
     streamVars, bootstrap, snapshot, signalling, latches, helpers, callers, contexts, server,
     closing, goroutines, channel
<1>4. QED
  BY <1>1, <1>2, <1>3 DEF Next

\* Type correctness holds in every reachable state.
THEOREM TypeCorrect == Spec => []TypeOK
<1>1. QED
  BY InitTypeOK, NextTypeOK, PTL DEF Spec

-----------------------------------------------------------------------------
(* The invariant behind NoCrash, NoFalseAlarm and NoConnectionLeft.        *)

\* Run has not launched the goroutines of the stream.
BeforeLaunch == {"idle", "create", "connect", "capture", "stream", "open",
                 "fetch", "start", "mark", "launch"}

\* Supervise closes a connector only after its Run has returned, and Close
\* stops the signals before it closes their channel.
SignalInv ==
  /\ config.supervised /\ closer # "none" => run = "returned" /\ ~notify
  /\ closer = "none" => cancelCh # "closed"
  /\ config.supervised => ~crashed

\* Who has closed the stream: the application, through Connector.Close, or the
\* sink itself at its end.
CloseInv ==
  /\ \A c \in Closers : closeAt[c] # "none" => closed
  /\ closeAt["app"] # "none" => closer \in {"waiting", "done"}
  /\ closer = "done" => closeAt["app"] = "done"
  /\ closed => closeAt["app"] # "none" \/ sink \in {"closing", "done"}

\* Where the sink can be: it runs only once Open has launched it, it reconnects
\* only when configured to, and it reports an error only when it is done.
SinkInv ==
  /\ run \in BeforeLaunch => sink = "none"
  /\ ~config.reconnect => sink \notin {"attempt", "connect", "dialing"}
  /\ streamErr => sink = "done"

\* A connection that is not streaming although nobody closed the stream has
\* failed; so has a stream that is corrupted although nobody closed it.
AlarmInv ==
  /\ streamErr => faults > 0
  /\ run \in {"mark", "launch"} /\ conn # "streaming" /\ ~closed => faults > 0
  /\ sink \in {"loop", "sending"} /\ conn \in {"closed", "lost"} /\ ~closed => faults > 0
  /\ corrupted /\ (~closed \/ sink = "closing") => faults > 0

\* What the result of Run says about the stream.
ResultInv ==
  /\ run = "returned" /\ result \in {"transient", "permanent"} => sink = "none"
  /\ run = "returned" /\ result = "corrupted" => sink = "done"
  /\ run = "returned" /\ result = "ctx" => ctxDone
  /\ run # "returned" /\ supervisor = "running" => result = "none"
  /\ config.supervised /\ run = "returned" => result \notin {"none", "consumed"}
  /\ config.supervised /\ run = "idle" => ~consumed
  /\ supervisor # "running" => run \in {"idle", "returned"}
  /\ supervisor \in {"backoff", "build"} /\ run = "returned" =>
       result \in {"transient", "permanent"}

\* The connections of slot and heartbeat, once Close took them down, stay down.
ShutInv ==
  /\ closer \in {"heartbeat", "stream", "waiting", "done"} =>
       slotClosed /\ (config.supervised => ~slotConn)
  /\ closer \in {"stream", "waiting", "done"} => hbClosed /\ ~hbConn

\* Nobody is about to take the connection of the closed stream down, and no
\* reconnect may be under way.
StreamShut ==
  /\ config.supervised /\ closed /\ \A c \in Closers : closeAt[c] # "conn"
  /\ ~(config.reconnect /\ result \in {"nil", "panic"})

\* The connection of the stream is down then, and stays down.
StreamShutInv == StreamShut => conn = "closed" /\ sink # "dialing"

LifecycleInv ==
  /\ TypeOK /\ SignalInv /\ CloseInv /\ SinkInv /\ AlarmInv /\ ResultInv
  /\ ShutInv /\ StreamShutInv

\* The initial states satisfy it: nothing runs and nothing is open.
LEMMA InitLifecycleInv == Init => LifecycleInv
<1> SUFFICES ASSUME Init PROVE LifecycleInv
  OBVIOUS
<1>1. TypeOK
  BY InitTypeOK
<1>2. SignalInv
  BY DEF Init, StreamInit, SignalInv
<1>3. CloseInv
  BY DEF Init, StreamInit, CloseInv, Closers
<1>4. SinkInv
  BY DEF Init, StreamInit, SinkInv
<1>5. AlarmInv
  BY DEF Init, StreamInit, AlarmInv
<1>6. ResultInv
  BY DEF Init, StreamInit, ResultInv
<1>7. ShutInv /\ StreamShutInv
  BY DEF Init, StreamInit, ShutInv, StreamShutInv
<1>8. QED
  BY <1>1, <1>2, <1>3, <1>4, <1>5, <1>6, <1>7 DEF LifecycleInv

\* The configuration is fixed, and failures are only counted up.
LEMMA FaultsGrow ==
  ASSUME TypeOK, [Next]_vars
  PROVE  config' = config /\ faults \in Nat /\ (faults' = faults \/ faults' = faults + 1)
<1> USE DEF streamVars
<1>1. faults \in Nat
  BY ConfigFacts DEF TypeOK, StreamTypes
<1>2. CASE Environment \/ Consumer
  BY <1>1, <1>2 DEF Environment, ConnectionLost, WalsenderTimeout, OtherReleases,
     OtherCaptures, Fault, Consumer, ProcessTake, ListenerReturns, ProcessEnds, TickerEnds
<1>3. CASE Sink
  BY <1>1, <1>3 DEF Sink, SinkRead, SinkSend, SinkIdle, SinkReadFails, StatusUpdateFails,
     SinkBroken, ReconnectAttempt, ReconnectDials, ReconnectSucceeds, ReconnectSlotInUse,
     ReconnectFails, ReconnectCancelled, SinkFinish, SinkDecides, SinkCloses, CloseClaims,
     SinkReports
<1>4. CASE \E c \in Closers : \/ Close(c)
                              \/ \E g \in {"sink", "process", "ticker"} : CloseTimesOut(c, g)
  BY <1>1, <1>4 DEF Close, CloseConnection, CloseCancels, CloseWaits, CloseTimesOut
<1>5. CASE Bootstrap
  BY <1>1, <1>5 DEF Bootstrap, Run, SlotCreate, SlotConnect, CaptureSlot, StreamConnect,
     OpenFetches, FetchSnapshotLSN, Starting, OpenSetup,
     OpenSlotInUse, OpenMarks, OpenLaunches, BecomeReady, BootstrapFails, FetchFails, Starting, Fault,
     OpenNotConnected, ReusedConnectionFails, BootstrapCancelled, WaitEnds
<1>6. CASE Background \/ Signal \/ CancelContext \/ OtherCompletes
  BY <1>1, <1>6 DEF Background, SlotInfo, HeartbeatExecute, BackgroundPanics, OtherCompletes, Fault,
     Signal, CancelContext
<1>7. CASE ConnectorClose \/ Supervise
  BY <1>1, <1>7 DEF ConnectorClose, CloseSignals, CloseSlot, CloseHeartbeat, CloseStream,
     CloseClaims, CloseDone, Supervise, AttemptEnds, BackoffEnds, BuildConnector,
     BuildFails, Fault
<1>8. QED
  BY <1>1, <1>2, <1>3, <1>4, <1>5, <1>6, <1>7 DEF Next, StreamNext, vars

\* No step separates the signals from their channel: they are registered before
\* Run waits, and stopped, by Close, before the channel is closed.
LEMMA SignalInvKept ==
  ASSUME TypeOK, SignalInv, Next
  PROVE  SignalInv'
<1> USE DEF SignalInv, bootstrap, snapshot, signalling, latches, callers
<1>0. config' = config
  BY FaultsGrow
<1>1. CASE StreamNext /\ UNCHANGED OtherVars
  BY <1>0, <1>1 DEF OtherVars
<1>2. CASE Run \/ SlotCreate \/ SlotConnect \/ CaptureSlot \/ StreamConnect
  BY <1>0, <1>2 DEF RunStep, Run, SlotCreate, SlotConnect, CaptureSlot, StreamConnect
<1>3. CASE \/ OpenFetches \/ FetchSnapshotLSN \/ OpenSetup \/ OpenSlotInUse
           \/ OpenMarks \/ OpenLaunches \/ BecomeReady
  BY <1>0, <1>3 DEF RunStep, OpenFetches, FetchSnapshotLSN, Starting, OpenSetup,
     OpenSlotInUse, OpenMarks, OpenLaunches, BecomeReady
<1>4. CASE BootstrapFails \/ FetchFails \/ OpenNotConnected \/ ReusedConnectionFails \/ BootstrapCancelled
  BY <1>0, <1>4 DEF Return, BootstrapFails, FetchFails, Starting, OpenNotConnected, ReusedConnectionFails,
     BootstrapCancelled
<1>5. CASE WaitEnds
  BY <1>0, <1>5 DEF Return, WaitEnds
<1>6. CASE Background \/ CancelContext \/ OtherCompletes
  BY <1>0, <1>6 DEF Background, SlotInfo, HeartbeatExecute, BackgroundPanics, OtherCompletes, CancelContext
<1>7. CASE Signal
  BY <1>0, <1>7 DEF Signal
<1>8. CASE ConnectorClose
  BY <1>0, <1>8 DEF ConnectorClose, CloseSignals, CloseSlot, CloseHeartbeat, CloseStream,
     CloseDone, CloserStep
<1>9. CASE Supervise
  BY <1>0, <1>9 DEF Supervise, AttemptEnds, BackoffEnds, BuildConnector, BuildFails,
     NewConnector
<1>10. QED
  BY <1>1, <1>2, <1>3, <1>4, <1>5, <1>6, <1>7, <1>8, <1>9 DEF Next, Bootstrap

\* The steps of the stream leave it to its two closers to close it.
LEMMA CloseInvKeptByStream ==
  ASSUME TypeOK, CloseInv, StreamNext, UNCHANGED OtherVars
  PROVE  CloseInv'
<1> USE DEF CloseInv, OtherVars, callers, contexts, server, closing, goroutines, channel,
        Closers
<1>1. closer' = closer /\ closeAt \in [Closers -> Places]
  BY DEF TypeOK, StreamTypes
<1>2. CASE Environment \/ Consumer
  <2>1. UNCHANGED <<closed, closeAt, sink>>
    BY <1>2 DEF Environment, ConnectionLost, WalsenderTimeout, OtherReleases,
       OtherCaptures, Consumer, ProcessTake, ListenerReturns, ProcessEnds, TickerEnds
  <2>2. QED
    BY <1>1, <2>1
<1>3. CASE \/ SinkRead \/ SinkSend \/ SinkIdle \/ SinkReadFails \/ StatusUpdateFails
           \/ SinkBroken
  BY <1>1, <1>3 DEF SinkRead, SinkSend, SinkIdle, SinkReadFails, StatusUpdateFails, SinkBroken
<1>4. CASE \/ ReconnectAttempt \/ ReconnectDials \/ ReconnectSucceeds
           \/ ReconnectSlotInUse \/ ReconnectFails \/ ReconnectCancelled
  BY <1>1, <1>4 DEF ReconnectAttempt, ReconnectDials, ReconnectSucceeds,
     ReconnectSlotInUse, ReconnectFails, ReconnectCancelled
<1>5. CASE SinkFinish \/ SinkDecides \/ SinkReports
  BY <1>1, <1>5 DEF SinkFinish, SinkDecides, SinkReports
<1>6. CASE SinkCloses
  BY <1>1, <1>6 DEF SinkCloses, CloseClaims, CloseStep
<1>7. ASSUME NEW c \in Closers, NEW p \in Places \ {"none"},
             closeAt[c] \notin {"none", "done"}, closeAt' = [closeAt EXCEPT ![c] = p],
             closed' = closed, sink' = sink
      PROVE  CloseInv'
  BY <1>1, <1>7
<1>8. ASSUME NEW c \in Closers,
             \/ Close(c)
             \/ \E g \in {"sink", "process", "ticker"} : CloseTimesOut(c, g)
      PROVE  CloseInv'
  <2>1. PICK p \in Places \ {"none"} :
          closeAt[c] \notin {"none", "done"} /\ closeAt' = [closeAt EXCEPT ![c] = p]
    BY <1>8 DEF Close, CloseConnection, CloseCancels, CloseWaits, CloseTimesOut, CloseStep,
       AfterWait, Places
  <2>2. closed' = closed /\ sink' = sink
    BY <1>8 DEF Close, CloseConnection, CloseCancels, CloseWaits, CloseTimesOut
  <2>3. QED
    BY <1>7, <2>1, <2>2
<1>9. QED
  BY <1>2, <1>3, <1>4, <1>5, <1>6, <1>8 DEF StreamNext, Sink

\* So do all the other steps.
LEMMA CloseInvKept ==
  ASSUME TypeOK, CloseInv, SinkInv, Next
  PROVE  CloseInv'
<1> USE DEF CloseInv, streamVars, contexts, server, closing, goroutines, channel, callers,
        Closers
<1>1. CASE StreamNext /\ UNCHANGED OtherVars
  BY <1>1, CloseInvKeptByStream
<1>2. CASE Bootstrap /\ ~OpenLaunches
  BY <1>2 DEF Bootstrap, Run, SlotCreate, SlotConnect, CaptureSlot, StreamConnect,
     OpenFetches, FetchSnapshotLSN, Starting, OpenSetup,
     OpenSlotInUse, OpenMarks, BecomeReady, BootstrapFails, FetchFails,
     OpenNotConnected, ReusedConnectionFails, BootstrapCancelled, WaitEnds
<1>3. CASE OpenLaunches
  <2>1. sink = "none"
    BY <1>3 DEF OpenLaunches, RunStep, SinkInv, BeforeLaunch
  <2>2. QED
    BY <1>3, <2>1 DEF OpenLaunches
<1>4. CASE Background \/ Signal \/ CancelContext \/ OtherCompletes
  BY <1>4 DEF Background, SlotInfo, HeartbeatExecute, BackgroundPanics, OtherCompletes, Signal, CancelContext
<1>5. CASE CloseSignals \/ CloseSlot \/ CloseHeartbeat \/ CloseDone
  BY <1>5 DEF CloseSignals, CloseSlot, CloseHeartbeat, CloseDone, CloserStep
<1>6. CASE CloseStream
  BY <1>6 DEF TypeOK, StreamTypes, CloseStream, CloseClaims, CloseStep, CloserStep
<1>7. CASE AttemptEnds \/ BackoffEnds \/ BuildFails
  BY <1>7 DEF AttemptEnds, BackoffEnds, BuildFails
<1>8. CASE BuildConnector
  BY <1>8 DEF BuildConnector, NewStream, NewConnector
<1>9. QED
  BY <1>1, <1>2, <1>3, <1>4, <1>5, <1>6, <1>7, <1>8 DEF Next, ConnectorClose, Supervise

\* The sink moves only once it was launched.
LEMMA SinkInvKept ==
  ASSUME TypeOK, SinkInv, Next
  PROVE  SinkInv'
<1> USE DEF SinkInv, streamVars, bootstrap, snapshot, closing, goroutines
<1>0. config' = config
  BY FaultsGrow
<1>1. CASE StreamNext /\ UNCHANGED OtherVars
  <2>0. run' = run
    BY <1>1 DEF OtherVars
  <2>1. CASE Environment \/ Consumer
    <3>1. UNCHANGED <<sink, streamErr>>
      BY <2>1 DEF Environment, ConnectionLost, WalsenderTimeout, OtherReleases,
         OtherCaptures, Consumer, ProcessTake, ListenerReturns, ProcessEnds, TickerEnds
    <3>2. QED
      BY <1>0, <2>0, <3>1
  <2>2. CASE \/ SinkRead \/ SinkSend \/ SinkIdle \/ SinkReadFails \/ StatusUpdateFails
             \/ SinkBroken
    BY <1>0, <2>0, <2>2 DEF SinkRead, SinkSend, SinkIdle, SinkReadFails, StatusUpdateFails,
       SinkBroken
  <2>3. CASE \/ ReconnectAttempt \/ ReconnectDials \/ ReconnectSucceeds
             \/ ReconnectSlotInUse \/ ReconnectFails \/ ReconnectCancelled
    BY <1>0, <2>0, <2>3 DEF ReconnectAttempt, ReconnectDials, ReconnectSucceeds,
       ReconnectSlotInUse, ReconnectFails, ReconnectCancelled
  <2>4. CASE SinkFinish \/ SinkDecides \/ SinkReports \/ SinkCloses
    BY <1>0, <2>0, <2>4 DEF SinkFinish, SinkDecides, SinkReports, SinkCloses, CloseClaims
  <2>5. CASE \E c \in Closers : \/ Close(c)
                                \/ \E g \in {"sink", "process", "ticker"} : CloseTimesOut(c, g)
    BY <1>0, <2>0, <2>5 DEF Close, CloseConnection, CloseCancels, CloseWaits, CloseTimesOut
  <2>6. QED
    BY <1>1, <2>1, <2>2, <2>3, <2>4, <2>5 DEF StreamNext, Sink
<1>2. CASE Run \/ SlotCreate \/ SlotConnect \/ CaptureSlot \/ StreamConnect
  BY <1>0, <1>2 DEF RunStep, BeforeLaunch, Run, SlotCreate, SlotConnect, CaptureSlot,
     StreamConnect
<1>3. CASE \/ OpenFetches \/ FetchSnapshotLSN \/ OpenSetup \/ OpenSlotInUse
           \/ OpenMarks \/ OpenLaunches \/ BecomeReady
  BY <1>0, <1>3 DEF RunStep, BeforeLaunch, OpenFetches, FetchSnapshotLSN, Starting, OpenSetup,
     OpenSlotInUse, OpenMarks,
     OpenLaunches, BecomeReady
<1>4. CASE BootstrapFails \/ FetchFails \/ OpenNotConnected \/ ReusedConnectionFails \/ BootstrapCancelled
  BY <1>0, <1>4 DEF Return, BeforeLaunch, BootstrapFails, FetchFails, Starting, OpenNotConnected,
     ReusedConnectionFails, BootstrapCancelled
<1>5. CASE WaitEnds
  BY <1>0, <1>5 DEF Return, BeforeLaunch, WaitEnds
<1>6. CASE Background \/ Signal \/ CancelContext \/ OtherCompletes
  BY <1>0, <1>6 DEF Background, SlotInfo, HeartbeatExecute, BackgroundPanics, OtherCompletes, Signal,
     CancelContext
<1>7. CASE ConnectorClose
  BY <1>0, <1>7 DEF ConnectorClose, CloseSignals, CloseSlot, CloseHeartbeat, CloseStream,
     CloseClaims, CloseDone
<1>8. CASE Supervise
  BY <1>0, <1>8 DEF Supervise, AttemptEnds, BackoffEnds, BuildConnector, BuildFails,
     NewStream
<1>9. QED
  BY <1>1, <1>2, <1>3, <1>4, <1>5, <1>6, <1>7, <1>8 DEF Next, Bootstrap

\* AlarmInv while nothing has failed.
Healthy ==
  /\ ~streamErr
  /\ run \in {"mark", "launch"} => conn = "streaming" \/ closed
  /\ sink \in {"loop", "sending"} => conn \notin {"closed", "lost"} \/ closed
  /\ corrupted => closed /\ sink # "closing"

\* Without a failure a stream in good health is closed before it is found broken.
LEMMA HealthyKeptByStream ==
  ASSUME CloseInv, SinkInv, Healthy, StreamNext, UNCHANGED run, faults' = faults,
         faults \in Nat
  PROVE  Healthy'
<1> USE DEF Healthy, closing, goroutines
<1>1. CASE Environment \/ Consumer
  <2>1. ~ConnectionLost
    <3>1. ConnectionLost => faults' = faults + 1
      BY Zenon DEF ConnectionLost, Fault
    <3>2. QED
      BY <3>1
  <2>2. UNCHANGED <<conn, sink, corrupted>>
    BY <1>1, <2>1 DEF Environment, WalsenderTimeout, OtherReleases,
       OtherCaptures, Consumer, ProcessTake, ListenerReturns, ProcessEnds, TickerEnds
  <2>3. UNCHANGED <<closed, streamErr>>
    BY <1>1, <2>1 DEF Environment, WalsenderTimeout, OtherReleases,
       OtherCaptures, Consumer, ProcessTake, ListenerReturns, ProcessEnds, TickerEnds
  <2>4. QED
    BY <2>2, <2>3
<1>2. CASE \/ SinkRead \/ SinkSend \/ SinkIdle \/ SinkReadFails \/ StatusUpdateFails
           \/ SinkBroken
  <2>1. run \notin BeforeLaunch
    BY <1>2 DEF SinkInv, SinkRead, SinkSend, SinkIdle, SinkReadFails, StatusUpdateFails,
       SinkBroken
  <2>2. QED
    BY <1>2, <2>1 DEF BeforeLaunch, SinkRead, SinkSend, SinkIdle, SinkReadFails,
       StatusUpdateFails, SinkBroken
<1>3. CASE \/ ReconnectAttempt \/ ReconnectDials \/ ReconnectSucceeds
           \/ ReconnectSlotInUse \/ ReconnectFails \/ ReconnectCancelled
  <2>1. run \notin BeforeLaunch
    BY <1>3 DEF SinkInv, ReconnectAttempt, ReconnectDials, ReconnectSucceeds,
       ReconnectSlotInUse, ReconnectFails, ReconnectCancelled
  <2>2. ~ReconnectFails
    BY DEF ReconnectFails
  <2>3. QED
    BY <1>3, <2>1, <2>2 DEF BeforeLaunch, ReconnectAttempt, ReconnectDials,
       ReconnectSucceeds, ReconnectSlotInUse, ReconnectCancelled
<1>4. CASE SinkFinish \/ SinkDecides \/ SinkReports \/ SinkCloses
  BY <1>4 DEF SinkFinish, SinkDecides, SinkReports, SinkCloses, CloseClaims
<1>5. CASE \E c \in Closers : \/ Close(c)
                              \/ \E g \in {"sink", "process", "ticker"} : CloseTimesOut(c, g)
  <2>1. UNCHANGED <<closed, streamErr, sink, corrupted>>
    BY <1>5 DEF Close, CloseConnection, CloseCancels, CloseWaits, CloseTimesOut
  <2>2. conn' = conn \/ closed
    BY <1>5 DEF CloseInv, Close, CloseConnection, CloseCancels, CloseWaits, CloseTimesOut,
       CloseStep
  <2>3. QED
    BY <2>1, <2>2
<1>6. QED
  BY <1>1, <1>2, <1>3, <1>4, <1>5 DEF StreamNext, Sink

\* Nor do Run, Close and Supervise raise the alarm without a failure.
LEMMA HealthyKept ==
  ASSUME TypeOK, CloseInv, SinkInv, Healthy, Next, faults' = faults
  PROVE  Healthy'
<1> USE DEF Healthy, streamVars, bootstrap, snapshot, closing, goroutines
<1>0. faults \in Nat
  BY FaultsGrow
<1>1. CASE StreamNext /\ UNCHANGED OtherVars
  BY <1>0, <1>1, HealthyKeptByStream DEF OtherVars
<1>2. CASE Run \/ SlotCreate \/ SlotConnect \/ CaptureSlot
  BY <1>2 DEF RunStep, Run, SlotCreate, SlotConnect, CaptureSlot
<1>3. CASE \/ StreamConnect \/ OpenFetches \/ FetchSnapshotLSN \/ OpenSetup
           \/ OpenSlotInUse \/ OpenMarks \/ OpenLaunches \/ BecomeReady
  BY <1>3 DEF SinkInv, BeforeLaunch, RunStep, StreamConnect, OpenFetches, FetchSnapshotLSN, Starting, OpenSetup,
     OpenSlotInUse,
     OpenMarks, OpenLaunches, BecomeReady
<1>4. CASE BootstrapFails \/ FetchFails \/ OpenNotConnected \/ ReusedConnectionFails \/ BootstrapCancelled
  <2>1. ~BootstrapFails /\ ~FetchFails
    BY <1>0 DEF BootstrapFails, FetchFails, Starting, Fault
  <2>2. sink = "none" /\ run' = "returned" /\ UNCHANGED <<closing, sink, corrupted>>
    BY <1>4, <2>1 DEF SinkInv, BeforeLaunch, Return, Starting,
       OpenNotConnected, ReusedConnectionFails, BootstrapCancelled
  <2>3. QED
    BY <2>2
<1>5. CASE WaitEnds
  BY <1>5 DEF Return, WaitEnds
<1>6. CASE Background \/ Signal \/ CancelContext \/ OtherCompletes
  BY <1>6 DEF Background, SlotInfo, HeartbeatExecute, BackgroundPanics, OtherCompletes, Signal, CancelContext
<1>7. CASE ConnectorClose
  BY <1>7 DEF ConnectorClose, CloseSignals, CloseSlot, CloseHeartbeat, CloseStream,
     CloseClaims, CloseDone
<1>8. CASE Supervise
  BY <1>8 DEF Supervise, AttemptEnds, BackoffEnds, BuildConnector, BuildFails,
     NewStream, NewConnector
<1>9. QED
  BY <1>1, <1>2, <1>3, <1>4, <1>5, <1>6, <1>7, <1>8 DEF Next, Bootstrap

\* So the alarm is raised only after a failure.
LEMMA AlarmInvKept ==
  ASSUME TypeOK, CloseInv, SinkInv, AlarmInv, Next
  PROVE  AlarmInv'
<1>1. CASE faults = 0 /\ faults' = faults
  <2>1. Healthy
    BY <1>1 DEF AlarmInv, Healthy
  <2>2. Healthy'
    BY <1>1, <2>1, HealthyKept
  <2>3. QED
    BY <2>2 DEF AlarmInv, Healthy
<1>2. CASE faults > 0 \/ faults' = faults + 1
  BY <1>2, FaultsGrow DEF AlarmInv
<1>3. QED
  BY <1>1, <1>2, FaultsGrow

\* A sink that was never launched stays away, and one that is done stays done.
LEMMA SinkSettles ==
  ASSUME StreamNext, sink \in {"none", "done"}
  PROVE  sink' = sink
<1> USE DEF goroutines
<1>1. CASE Environment \/ Consumer
  BY <1>1 DEF Environment, ConnectionLost, WalsenderTimeout, OtherReleases,
     OtherCaptures, Consumer, ProcessTake, ListenerReturns, ProcessEnds, TickerEnds
<1>2. ~Sink
  BY DEF Sink, SinkRead, SinkSend, SinkIdle, SinkReadFails, StatusUpdateFails,
     SinkBroken, ReconnectAttempt, ReconnectDials, ReconnectSucceeds, ReconnectSlotInUse,
     ReconnectFails, ReconnectCancelled, SinkFinish, SinkDecides, SinkCloses, SinkReports
<1>3. CASE \E c \in Closers : \/ Close(c)
                              \/ \E g \in {"sink", "process", "ticker"} : CloseTimesOut(c, g)
  BY <1>3 DEF Close, CloseConnection, CloseCancels, CloseWaits, CloseTimesOut
<1>4. QED
  BY <1>1, <1>2, <1>3 DEF StreamNext

\* No step of the stream touches the context of Run.
LEMMA StreamKeepsContext ==
  ASSUME StreamNext
  PROVE  ctxDone' = ctxDone
<1> USE DEF contexts
<1>1. CASE Environment \/ Consumer
  BY <1>1 DEF Environment, ConnectionLost, WalsenderTimeout, OtherReleases,
     OtherCaptures, Consumer, ProcessTake, ListenerReturns, ProcessEnds, TickerEnds
<1>2. CASE Sink
  BY <1>2 DEF Sink, SinkRead, SinkSend, SinkIdle, SinkReadFails, StatusUpdateFails,
     SinkBroken, ReconnectAttempt, ReconnectDials, ReconnectSucceeds, ReconnectSlotInUse,
     ReconnectFails, ReconnectCancelled, SinkFinish, SinkDecides, SinkCloses, CloseClaims,
     SinkReports
<1>3. CASE \E c \in Closers : \/ Close(c)
                              \/ \E g \in {"sink", "process", "ticker"} : CloseTimesOut(c, g)
  BY <1>3 DEF Close, CloseConnection, CloseCancels, CloseWaits, CloseTimesOut
<1>4. QED
  BY <1>1, <1>2, <1>3 DEF StreamNext

\* What Run returned stays true of the stream.
LEMMA ResultInvKept ==
  ASSUME TypeOK, SignalInv, SinkInv, ResultInv, Next
  PROVE  ResultInv'
<1> USE DEF ResultInv, streamVars, contexts, goroutines, bootstrap, snapshot, callers
<1>0. config' = config
  BY FaultsGrow
<1>1. CASE StreamNext /\ UNCHANGED OtherVars
  <2>1. UNCHANGED <<run, result, consumed, supervisor>>
    BY <1>1 DEF OtherVars
  <2>2. ctxDone' = ctxDone
    BY <1>1, StreamKeepsContext
  <2>3. sink \in {"none", "done"} => sink' = sink
    BY <1>1, SinkSettles
  <2>4. QED
    BY <1>0, <2>1, <2>2, <2>3
<1>2. CASE Run \/ SlotCreate \/ SlotConnect \/ CaptureSlot \/ StreamConnect
  BY <1>0, <1>2 DEF RunStep, Run, SlotCreate, SlotConnect, CaptureSlot, StreamConnect
<1>3. CASE \/ OpenFetches \/ FetchSnapshotLSN \/ OpenSetup \/ OpenSlotInUse
           \/ OpenMarks \/ OpenLaunches \/ BecomeReady
  BY <1>0, <1>3 DEF RunStep, OpenFetches, FetchSnapshotLSN, Starting, OpenSetup,
     OpenSlotInUse, OpenMarks, OpenLaunches, BecomeReady
<1>4. CASE BootstrapFails \/ FetchFails \/ OpenNotConnected \/ ReusedConnectionFails \/ BootstrapCancelled
  BY <1>0, <1>4 DEF SinkInv, BeforeLaunch, Return, BootstrapFails, FetchFails, Starting, OpenNotConnected,
     ReusedConnectionFails, BootstrapCancelled
<1>5. CASE WaitEnds
  BY <1>0, <1>5 DEF SinkInv, Return, WaitEnds
<1>6. CASE Background \/ Signal \/ CancelContext \/ OtherCompletes
  BY <1>0, <1>6 DEF Background, SlotInfo, HeartbeatExecute, BackgroundPanics, OtherCompletes, Signal,
     CancelContext
<1>7. CASE ConnectorClose
  BY <1>0, <1>7 DEF ConnectorClose, CloseSignals, CloseSlot, CloseHeartbeat, CloseStream,
     CloseClaims, CloseDone
<1>8. CASE AttemptEnds \/ BackoffEnds \/ BuildFails
  BY <1>0, <1>8 DEF AttemptEnds, BackoffEnds, BuildFails, SupervisorStep, IsRetryable
<1>9. CASE BuildConnector
  BY <1>0, <1>9 DEF BuildConnector, NewConnector, NewStream
<1>10. QED
  BY <1>1, <1>2, <1>3, <1>4, <1>5, <1>6, <1>7, <1>8, <1>9 DEF Next, Bootstrap, Supervise

\* The slot and the heartbeat dial no more once they are closed.
LEMMA ShutInvKept ==
  ASSUME TypeOK, SignalInv, ShutInv, Next
  PROVE  ShutInv'
<1> USE DEF ShutInv, helpers, callers
<1>0. config' = config
  BY FaultsGrow
<1>1. CASE StreamNext /\ UNCHANGED OtherVars
  BY <1>0, <1>1 DEF OtherVars
<1>2. CASE Run \/ SlotCreate \/ SlotConnect \/ CaptureSlot \/ StreamConnect
  BY <1>0, <1>2 DEF SignalInv, RunStep, Run, SlotCreate, SlotConnect, CaptureSlot,
     StreamConnect
<1>3. CASE \/ OpenFetches \/ FetchSnapshotLSN \/ OpenSetup \/ OpenSlotInUse
           \/ OpenMarks \/ OpenLaunches \/ BecomeReady
  BY <1>0, <1>3 DEF OpenFetches, FetchSnapshotLSN, Starting, OpenSetup,
     OpenSlotInUse, OpenMarks, OpenLaunches, BecomeReady
<1>4. CASE BootstrapFails \/ FetchFails \/ OpenNotConnected \/ ReusedConnectionFails \/ BootstrapCancelled
  BY <1>0, <1>4 DEF BootstrapFails, FetchFails, Starting, OpenNotConnected, ReusedConnectionFails,
     BootstrapCancelled
<1>5. CASE WaitEnds \/ Signal \/ CancelContext \/ OtherCompletes
  BY <1>0, <1>5 DEF WaitEnds, Signal, CancelContext, OtherCompletes
<1>6. CASE Background
  BY <1>0, <1>6 DEF Background, SlotInfo, HeartbeatExecute, BackgroundPanics
<1>7. CASE ConnectorClose
  BY <1>0, <1>7 DEF ConnectorClose, CloseSignals, CloseSlot, CloseHeartbeat, CloseStream,
     CloseDone, CloserStep
<1>8. CASE Supervise
  BY <1>0, <1>8 DEF Supervise, AttemptEnds, BackoffEnds, BuildConnector, BuildFails,
     NewConnector
<1>9. QED
  BY <1>1, <1>2, <1>3, <1>4, <1>5, <1>6, <1>7, <1>8 DEF Next, Bootstrap

\* A supervised stream is closed after Run has returned, or by its own sink.
LEMMA ClosedAfterLaunch ==
  ASSUME SignalInv, CloseInv, SinkInv, config.supervised, closed
  PROVE  /\ run \notin BeforeLaunch
         /\ sink \notin {"closing", "done"} => run = "returned"
BY DEF SignalInv, CloseInv, SinkInv, BeforeLaunch

\* A sink that still reconnects when the stream is closed finds its context done
\* before it dials, unless a signal or a panic made Run return.
LEMMA NoLateDial ==
  ASSUME TypeOK, SignalInv, CloseInv, SinkInv, ResultInv, StreamShut, sink = "connect"
  PROVE  RunCtxDone
<1>1. run = "returned" /\ config.reconnect
  BY ClosedAfterLaunch DEF StreamShut, SinkInv
<1>2. result = "ctx"
  BY <1>1 DEF ResultInv, StreamShut, TypeOK, ConnectorTypes
<1>3. QED
  BY <1>1, <1>2 DEF ResultInv, RunCtxDone

\* The steps of the stream do not open its connection again.
LEMMA StreamShutInvKeptByStream ==
  ASSUME TypeOK, SignalInv, CloseInv, SinkInv, ResultInv, StreamShutInv,
         StreamNext, UNCHANGED OtherVars, config' = config
  PROVE  StreamShutInv'
<1> USE DEF StreamShutInv, closing, goroutines, Closers
<1>0. closeAt \in [Closers -> Places] /\ result' = result
  BY DEF TypeOK, StreamTypes, OtherVars, bootstrap, snapshot
<1> SUFFICES ASSUME StreamShut' PROVE conn' = "closed" /\ sink' # "dialing"
  OBVIOUS
<1>1. CASE Environment \/ Consumer
  <2>1. UNCHANGED <<closed, closeAt, sink>>
    BY <1>1 DEF Environment, ConnectionLost, WalsenderTimeout, OtherReleases,
       OtherCaptures, Consumer, ProcessTake, ListenerReturns, ProcessEnds, TickerEnds
  <2>2. StreamShut
    BY <1>0, <2>1 DEF StreamShut
  <2>3. conn' = conn
    BY <1>1, <2>2 DEF Environment, ConnectionLost, WalsenderTimeout, OtherReleases,
       OtherCaptures, Consumer, ProcessTake, ListenerReturns, ProcessEnds, TickerEnds
  <2>4. QED
    BY <2>1, <2>2, <2>3
<1>2. CASE \/ SinkRead \/ SinkSend \/ SinkIdle \/ SinkReadFails \/ StatusUpdateFails
           \/ SinkBroken
  <2>1. StreamShut
    BY <1>0, <1>2 DEF StreamShut, SinkRead, SinkSend, SinkIdle, SinkReadFails,
       StatusUpdateFails, SinkBroken
  <2>2. QED
    BY <1>2, <2>1 DEF SinkRead, SinkSend, SinkIdle, SinkReadFails, StatusUpdateFails,
       SinkBroken
<1>3. CASE \/ ReconnectAttempt \/ ReconnectDials \/ ReconnectSucceeds
           \/ ReconnectSlotInUse \/ ReconnectFails \/ ReconnectCancelled
  <2>1. StreamShut
    BY <1>0, <1>3 DEF StreamShut, ReconnectAttempt, ReconnectDials, ReconnectSucceeds,
       ReconnectSlotInUse, ReconnectFails, ReconnectCancelled
  <2>2. sink = "connect" => RunCtxDone
    BY <2>1, NoLateDial
  <2>3. QED
    BY <1>3, <2>1, <2>2 DEF ReconnectAttempt, ReconnectDials, ReconnectSucceeds,
       ReconnectSlotInUse, ReconnectFails, ReconnectCancelled
<1>4. CASE SinkFinish \/ SinkDecides \/ SinkReports
  <2>1. StreamShut
    BY <1>0, <1>4 DEF StreamShut, SinkFinish, SinkDecides, SinkReports
  <2>2. QED
    BY <1>4, <2>1 DEF SinkFinish, SinkDecides, SinkReports
<1>5. CASE SinkCloses
  <2>1. closed
    BY <1>0, <1>5 DEF SinkCloses, CloseClaims, CloseStep, StreamShut
  <2>2. StreamShut
    BY <1>0, <1>5, <2>1 DEF SinkCloses, CloseClaims, CloseStep, StreamShut
  <2>3. QED
    BY <1>5, <2>2 DEF SinkCloses, CloseClaims
<1>6. ASSUME NEW c \in Closers, CloseConnection(c)
      PROVE  conn' = "closed" /\ sink' # "dialing"
  BY <1>6 DEF CloseConnection
<1>7. ASSUME NEW c \in Closers,
             \/ CloseCancels(c)
             \/ \E g \in {"sink", "process", "ticker"} : CloseWaits(c, g) \/ CloseTimesOut(c, g)
      PROVE  conn' = "closed" /\ sink' # "dialing"
  <2>1. UNCHANGED <<closed, conn, sink>>
    BY <1>7 DEF CloseCancels, CloseWaits, CloseTimesOut
  <2>2. PICK p \in Places :
          closeAt[c] # "conn" /\ closeAt' = [closeAt EXCEPT ![c] = p]
    BY <1>7 DEF CloseCancels, CloseWaits, CloseTimesOut, CloseStep, AfterWait, Places
  <2>3. StreamShut
    BY <1>0, <2>1, <2>2 DEF StreamShut
  <2>4. QED
    BY <2>1, <2>3
<1>8. QED
  BY <1>1, <1>2, <1>3, <1>4, <1>5, <1>6, <1>7 DEF StreamNext, Sink, Close

\* Neither do Run, Close and Supervise: a closed stream is never connected.
LEMMA StreamShutInvKept ==
  ASSUME TypeOK, SignalInv, CloseInv, SinkInv, ResultInv, StreamShutInv, Next
  PROVE  StreamShutInv'
<1> USE DEF StreamShutInv, streamVars, bootstrap, snapshot, closing, goroutines, Closers
<1>0. config' = config /\ closeAt \in [Closers -> Places]
  BY FaultsGrow DEF TypeOK, StreamTypes
<1>1. CASE StreamNext /\ UNCHANGED OtherVars
  BY <1>0, <1>1, StreamShutInvKeptByStream
<1> SUFFICES ASSUME StreamShut', ~(StreamNext /\ UNCHANGED OtherVars)
             PROVE  conn' = "closed" /\ sink' # "dialing"
  BY <1>1
<1>2. CASE Bootstrap /\ ~BecomeReady /\ ~WaitEnds
  <2>1. run \in BeforeLaunch
    BY <1>2 DEF Bootstrap, Run, SlotCreate, SlotConnect, CaptureSlot, StreamConnect,
       OpenFetches, FetchSnapshotLSN, Starting, OpenSetup,
     OpenSlotInUse, OpenMarks, OpenLaunches, BootstrapFails, FetchFails, Starting, OpenNotConnected,
       ReusedConnectionFails, BootstrapCancelled, RunStep, BeforeLaunch
  <2>2. closed' = closed
    BY <1>2 DEF Bootstrap, Run, SlotCreate, SlotConnect, CaptureSlot, StreamConnect,
       OpenFetches, FetchSnapshotLSN, Starting, OpenSetup,
     OpenSlotInUse, OpenMarks, OpenLaunches, BootstrapFails, FetchFails, Starting, OpenNotConnected,
       ReusedConnectionFails, BootstrapCancelled
  <2>3. QED
    BY <1>0, <2>1, <2>2, ClosedAfterLaunch DEF StreamShut
<1>3. CASE BecomeReady
  BY <1>0, <1>3 DEF BecomeReady, StreamShut
<1>4. CASE WaitEnds
  <2>1. result = "none"
    BY <1>4 DEF WaitEnds, ResultInv
  <2>2. UNCHANGED <<conn, sink, closed, closeAt>>
    BY <1>4 DEF WaitEnds
  <2>3. QED
    BY <1>0, <2>1, <2>2 DEF StreamShut
<1>5. CASE Background \/ Signal \/ CancelContext \/ OtherCompletes
  <2>1. UNCHANGED <<conn, sink, closed, closeAt, result>>
    BY <1>5 DEF Background, SlotInfo, HeartbeatExecute, BackgroundPanics, OtherCompletes, Signal,
       CancelContext
  <2>2. QED
    BY <1>0, <2>1 DEF StreamShut
<1>6. CASE CloseSignals \/ CloseSlot \/ CloseHeartbeat \/ CloseDone
  BY <1>0, <1>6 DEF CloseSignals, CloseSlot, CloseHeartbeat, CloseDone, StreamShut
<1>7. CASE CloseStream
  <2>1. closed
    BY <1>0, <1>7 DEF CloseStream, CloseClaims, CloseStep, StreamShut
  <2>2. StreamShut
    BY <1>0, <1>7, <2>1 DEF CloseStream, CloseClaims, CloseStep, StreamShut
  <2>3. QED
    BY <1>7, <2>2 DEF CloseStream, CloseClaims
<1>8. CASE AttemptEnds \/ BackoffEnds
  BY <1>0, <1>8 DEF AttemptEnds, BackoffEnds, StreamShut
<1>9. CASE BuildFails
  <2>1. UNCHANGED <<conn, sink, closed, closeAt>>
    BY <1>9 DEF BuildFails
  <2>2. run = "returned" /\ result \in {"transient", "permanent"}
    BY <1>0, <1>9, <2>1, ClosedAfterLaunch
    DEF StreamShut, BuildFails, SupervisorStep, ResultInv, BeforeLaunch
  <2>3. QED
    BY <1>0, <2>1, <2>2 DEF StreamShut
<1>10. CASE BuildConnector
  BY <1>10 DEF BuildConnector, NewStream, StreamShut
<1>11. QED
  BY <1>2, <1>3, <1>4, <1>5, <1>6, <1>7, <1>8, <1>9, <1>10
  DEF Next, Bootstrap, ConnectorClose, Supervise

\* LifecycleInv is inductive.
LEMMA NextLifecycleInv == LifecycleInv /\ [Next]_vars => LifecycleInv'
<1> SUFFICES ASSUME LifecycleInv, [Next]_vars PROVE LifecycleInv'
  OBVIOUS
<1>1. TypeOK'
  BY NextTypeOK DEF LifecycleInv
<1>2. CASE Next
  BY <1>1, <1>2, SignalInvKept, CloseInvKept, SinkInvKept, AlarmInvKept, ResultInvKept,
     ShutInvKept, StreamShutInvKept DEF LifecycleInv
<1>3. CASE UNCHANGED vars
  <2>1. UNCHANGED <<config, faults, ctxDone, conn, closing, sink, corrupted>>
    BY <1>3 DEF vars, streamVars, contexts, goroutines
  <2>2. UNCHANGED <<run, result, consumed, cancelCh, notify, helpers, callers>>
    BY <1>3 DEF vars, bootstrap, snapshot, signalling
  <2>3. QED
    BY <1>1, <2>1, <2>2 DEF LifecycleInv, SignalInv, CloseInv, SinkInv, AlarmInv,
       ResultInv, ShutInv, StreamShutInv, StreamShut, closing, helpers, callers
<1>4. QED
  BY <1>2, <1>3

\* The lifecycle invariant holds in every reachable state.
THEOREM LifecycleInvariant == Spec => []LifecycleInv
<1>1. QED
  BY InitLifecycleInv, NextLifecycleInv, PTL DEF Spec

\* No order of Run, Close, signals and retries makes the runtime send a signal to
\* the closed cancelCh of a supervised connector (Connector.Close stops the
\* signals before it closes the channel, and Supervise closes after Run).
THEOREM SupervisedNeverCrashes == Spec => []NoCrash
<1>1. LifecycleInv => NoCrash
  BY DEF LifecycleInv, SignalInv, NoCrash
<1>2. QED
  BY <1>1, LifecycleInvariant, PTL

\* The stream reports a corrupted stream on Err() only after something failed,
\* for any number of failures and reconnects: a Close of a healthy stream that
\* breaks the sink's status update is not reported.
THEOREM AlarmsAreReal == Spec => []NoFalseAlarm
<1>1. LifecycleInv => NoFalseAlarm
  BY DEF LifecycleInv, AlarmInv, NoFalseAlarm
<1>2. QED
  BY <1>1, LifecycleInvariant, PTL

\* When Close of a supervised connector is through, stream, slot and heartbeat
\* hold no connection, whatever the background goroutines and the sink were
\* doing, with the two exceptions NoConnectionLeft names.
THEOREM CloseLeavesNothing == Spec => []NoConnectionLeft
<1>1. LifecycleInv => NoConnectionLeft
  <2> SUFFICES ASSUME LifecycleInv, config.supervised, closer = "done",
                      closeAt["sink"] # "conn",
                      ~(config.reconnect /\ result \in {"nil", "panic"})
               PROVE  conn = "closed" /\ ~slotConn /\ ~hbConn
    BY DEF NoConnectionLeft
  <2>1. closeAt["app"] = "done" /\ closed
    BY DEF LifecycleInv, CloseInv, Closers
  <2>2. StreamShut
    BY <2>1 DEF StreamShut, Closers
  <2>3. QED
    BY <2>2 DEF LifecycleInv, ShutInv, StreamShutInv
<1>2. QED
  BY <1>1, LifecycleInvariant, PTL
=============================================================================
