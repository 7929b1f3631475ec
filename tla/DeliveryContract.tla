-------------------------- MODULE DeliveryContract --------------------------
(***************************************************************************)
(* What the replication stream promises to a consumer, without the         *)
(* goroutines, buffers, connections and positions that it takes: committed *)
(* changes are handed over in commit order, the consumer makes them        *)
(* durable, and the slot passes a commit only after that.  A new process   *)
(* starts over from the slot, and the slot itself may fall back.           *)
(***************************************************************************)
EXTENDS PgWal

CONSTANTS
  Wals,           \* the WAL contents considered
  SnapshotLSN     \* LSN of a completed snapshot, 0 when none was taken

VARIABLES
  wal,            \* the server's WAL
  confirmedFlush, \* what the server will not send again ends here
  delivered,      \* changes handed over since the process started
  processed       \* changes the consumer has made durable

vars == <<wal, confirmedFlush, delivered, processed>>

Seen == delivered \cup processed

\* Change l is the next of its transaction, and every transaction that
\* committed before has been handed over whole.
InOrder(l) ==
  \E c \in Commits(wal) :
    /\ l \in Changes(wal, c)
    /\ {k \in Changes(wal, c) : k < l} \subseteq Seen
    /\ \A d \in Commits(wal) : d < c => Changes(wal, d) \subseteq Seen

Init ==
  /\ wal \in Wals
  /\ confirmedFlush = 1
  /\ delivered = {}
  /\ processed = CommittedBelow(wal, SnapshotLSN)

\* A change is handed to the listener, possibly once more.
HandOver ==
  /\ \E l \in DOMAIN wal : InOrder(l) /\ delivered' = delivered \cup {l}
  /\ UNCHANGED <<wal, confirmedFlush, processed>>

\* The consumer makes some of what it was handed durable.
Consume ==
  /\ \E S \in SUBSET delivered : processed' = processed \cup S
  /\ UNCHANGED <<wal, confirmedFlush, delivered>>

\* The connector consumes its own heartbeat row.
ConsumeHeartbeat ==
  /\ \E l \in DOMAIN wal : /\ wal[l].kind = "heartbeat"
                           /\ InOrder(l)
                           /\ processed' = processed \cup {l}
  /\ UNCHANGED <<wal, confirmedFlush, delivered>>

\* The slot advances over what is durable, and over nothing else.
Release ==
  /\ confirmedFlush' > confirmedFlush
  /\ Covered(wal, confirmedFlush', processed)
  /\ UNCHANGED <<wal, delivered, processed>>

\* A new process has seen only what its predecessors made durable.
StartOver ==
  /\ delivered' = {}
  /\ UNCHANGED <<wal, confirmedFlush, processed>>

\* The server falls back to a position that it had persisted.
FallBack ==
  /\ confirmedFlush' \in 1..confirmedFlush
  /\ UNCHANGED <<wal, delivered, processed>>

Next ==
  HandOver \/ Consume \/ ConsumeHeartbeat \/ Release \/ StartOver \/ FallBack

Spec == Init /\ [][Next]_vars
=============================================================================
