------------------------- MODULE MCPublicationSetup -------------------------
(* Configurations and databases for model-checking PublicationSetup. *)
EXTENDS PublicationSetup, TLC

F == Text("f", FALSE)
LiveG == Text("g", TRUE)

Table(f, id) == [filter |-> f, identity |-> id]

\* Two tables, one filtered.
Plain ==
  [tables |-> ("t1" :> Table(F, "FULL") @@ "t2" :> Table(Keep, "DEFAULT")),
   createIfNotExists |-> TRUE, pruneTables |-> FALSE, heartbeat |-> FALSE,
   snapshotTables |-> {}]

Beating ==
  [Plain EXCEPT !.tables = @ @@ ("hb" :> Table(Keep, "FULL")), !.heartbeat = TRUE,
                !.snapshotTables = {"t1"}]

Pruning ==
  [Plain EXCEPT !.tables = "t1" :> Table(Clear, "DEFAULT"), !.pruneTables = TRUE]

\* createIfNotExists is off, and replica identities are optional.
Adopting ==
  [Plain EXCEPT !.tables = "t1" :> Table(F, "") @@ "t2" :> Table(Keep, "FULL"),
                !.createIfNotExists = FALSE]

Bare ==
  [Plain EXCEPT !.tables = <<>>, !.createIfNotExists = FALSE, !.heartbeat = TRUE,
                !.snapshotTables = {"t2"}]

OtherTable == [Plain EXCEPT !.tables = "t2" :> Table(Keep, "DEFAULT")]
FirstTable == [Plain EXCEPT !.tables = "t1" :> Table(F, "FULL")]

SameConfigs ==
  {[i \in Instances |-> c] : c \in {Plain, Beating, Pruning, Adopting, Bare}}

Rolling == {c \in [Instances -> {FirstTable, OtherTable}] : ~(\E d \in SameConfigs : c = d)}

PlainConfigs == {[i \in Instances |-> Plain]}

Publications ==
  {[exists |-> FALSE, all |-> FALSE, tables |-> <<>>],
   [exists |-> TRUE, all |-> TRUE, tables |-> <<>>],
   [exists |-> TRUE, all |-> FALSE, tables |-> "t2" :> LiveG],
   [exists |-> TRUE, all |-> FALSE,
    tables |-> ("t1" :> LiveG @@ "t2" :> LiveG @@ "hb" :> NoFilter)]}

AllDatabases ==
  {d \in [exists : {{}, {"t2"}, {"t1", "t2"}, {"t1", "t2", "hb"}},
          identity : {[t \in Tables |-> "DEFAULT"], [t \in Tables |-> "NOTHING"]},
          pub : Publications] :
     DOMAIN d.pub.tables \subseteq d.exists}
=============================================================================
