------------------------------- MODULE PgWal -------------------------------
(***************************************************************************)
(* PostgreSQL's write-ahead log as logical decoding presents it (external: *)
(* what the connector relies on, not code of this repository).             *)
(*                                                                         *)
(* The record at index l of a WAL has LSN l, and a commit record at c ends *)
(* at c + 1.  A change is named by its LSN.  "sub" tells the changes made  *)
(* under a savepoint (1, 2, ...) from those of the top level (0), and a    *)
(* "subabort" record rolls the savepoint back.                             *)
(***************************************************************************)
EXTENDS Integers, Sequences

CONSTANT Xids          \* top-level transaction ids

Kinds == {"row", "heartbeat", "truncate"}

Record == [type : {"change", "commit", "abort", "subabort"},
           xid : Xids, sub : Nat, kind : Kinds]

\* A transaction ends at most once and writes nothing afterwards.
WellFormed(w) ==
  \A e, l \in DOMAIN w :
    w[e].type \in {"commit", "abort"} /\ e < l => w[l].xid # w[e].xid

EndLSN(c) == c + 1

Commits(w) == {c \in DOMAIN w : w[c].type = "commit"}

\* Change l was rolled back to a savepoint by a record before LSN p.
RolledBack(w, l, p) ==
  \E a \in DOMAIN w : /\ l < a /\ a < p
                      /\ w[a].type = "subabort"
                      /\ w[a].xid = w[l].xid
                      /\ w[a].sub = w[l].sub

\* The changes of transaction x that the walsender holds on reaching p.
ChangesBefore(w, x, p) ==
  {l \in DOMAIN w : /\ l < p
                    /\ w[l].type = "change"
                    /\ w[l].xid = x
                    /\ ~RolledBack(w, l, p)}

\* The changes of the transaction whose commit record is c.
Changes(w, c) == ChangesBefore(w, w[c].xid, c)

CommittedBelow(w, p) == UNION {Changes(w, c) : c \in {d \in Commits(w) : d < p}}

\* Every change committed below p is in S.
Covered(w, p, S) == \A c \in Commits(w) : c < p => Changes(w, c) \subseteq S
=============================================================================
