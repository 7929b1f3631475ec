------------------------ MODULE MCReplicationStream ------------------------
(* Small WALs for model-checking ReplicationStream. *)
EXTENDS ReplicationStream, FiniteSets

Ch(x)      == [type |-> "change", xid |-> x, sub |-> 0, kind |-> "row"]
Sub(x)     == [type |-> "change", xid |-> x, sub |-> 1, kind |-> "row"]
Hb(x)      == [type |-> "change", xid |-> x, sub |-> 0, kind |-> "heartbeat"]
Tr(x)      == [type |-> "change", xid |-> x, sub |-> 0, kind |-> "truncate"]
Commit(x)  == [type |-> "commit", xid |-> x, sub |-> 0, kind |-> "row"]
Abort(x)   == [type |-> "abort", xid |-> x, sub |-> 0, kind |-> "row"]
SubAbort(x) == [type |-> "subabort", xid |-> x, sub |-> 1, kind |-> "row"]

TwoXids == {1, 2}

\* Two transactions: nested, interleaved, rolled back; with TRUNCATE last.
PlainWals ==
  { << Ch(1), Ch(2), Ch(1), Commit(2), Commit(1) >>,
    << Ch(1), Ch(2), Commit(1), Tr(2), Commit(2) >>,
    << Ch(1), Ch(2), Ch(2), Abort(1), Commit(2) >> }

\* Heartbeats between rows, and a transaction that goes on after another has
\* committed.  In the first one a row is part of a snapshot taken at LSN 3.
ListenerWals ==
  { << Ch(1), Commit(1), Hb(2), Commit(2) >>,
    << Hb(2), Ch(1), Commit(2), Ch(1), Commit(1) >>,
    << Ch(1), Ch(2), Commit(1), Ch(2), Commit(2) >> }

\* Rows, then a heartbeat.
HeartbeatAfterRow == { << Ch(1), Commit(1), Hb(2), Commit(2) >> }

\* A savepoint is rolled back in a transaction that commits.
SavepointWal ==
  { << Ch(1), Sub(1), SubAbort(1), Commit(1), Ch(2), Commit(2) >> }

CancelWals == PlainWals \cup SavepointWal

\* The second transaction commits inside the first.
NestedWal == { << Ch(1), Ch(2), Commit(2), Ch(1), Commit(1) >> }
=============================================================================
