------------------------ MODULE MCConnectorLifecycle ------------------------
(* Configurations for model-checking ConnectorLifecycle. *)
EXTENDS ConnectorLifecycle

Supervised == [reconnect : BOOLEAN, heartbeat : {FALSE}, timescale : {FALSE},
               snapshot : {FALSE}, supervised : {TRUE}, maxFaults : {1}]

Direct == [reconnect : {FALSE}, heartbeat : {FALSE}, timescale : {FALSE},
           snapshot : {FALSE}, supervised : {FALSE}, maxFaults : {0}]

\* A stream that starts at the LSN of a snapshot.
WithSnapshot ==
  {[c EXCEPT !.snapshot = TRUE] : c \in {d \in Supervised : ~d.reconnect}}

\* The heartbeat is on where nothing reconnects.
SupervisedAndDirect ==
  {[c EXCEPT !.heartbeat = ~c.reconnect] : c \in Supervised \cup Direct}
    \cup WithSnapshot

Reconnecting == {c \in Supervised : c.reconnect}

WithTimescale == {[c EXCEPT !.timescale = TRUE] : c \in Supervised}
=============================================================================
