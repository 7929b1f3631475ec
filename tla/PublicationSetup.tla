-------------------------- MODULE PublicationSetup --------------------------
(***************************************************************************)
(* What NewConnector does to the database before a connector exists: the   *)
(* heartbeat table, the replica identities and the publication             *)
(* (setupHeartbeatAndPublication in connector.go, pq/publication), and     *)
(* what it concludes from them (ValidateHeartbeatInPublication and         *)
(* GetSnapshotTables in config/config.go).                                 *)
(*                                                                         *)
(* Several instances start at the same time.  Each statement is a round    *)
(* trip and a transaction of its own, so one action; what an instance has  *)
(* read may be out of date when it acts on it.                             *)
(***************************************************************************)
EXTENDS Integers, FiniteSets

CONSTANTS
  Instances,    \* processes that start
  Tables,       \* tables the database may have
  Heartbeat,    \* the heartbeat table, one of them
  Deployments,  \* configurations of the instances
  Databases,    \* databases they may find
  MaxRestarts   \* bound on restarts

ASSUME SetupAssumption ==
  Heartbeat \in Tables /\ MaxRestarts \in Nat

VARIABLES
  cfg,          \* the configuration of each instance
  exists,       \* tables that exist
  identity,     \* replica identity of each table
  pub,          \* the publication
  restarts,     \* restarts so far
  pc,           \* where each instance is
  pending,      \* replica identities an instance has yet to alter
  infoErr,      \* the error of the first Info
  info,         \* publicationInfo
  desired,      \* the table list of a SET TABLE under way
  snapshotTables \* what GetSnapshotTables returned

catalog == <<exists, identity, pub>>
locals  == <<pending, infoErr, info, desired, snapshotTables>>
vars    == <<cfg, catalog, restarts, pc, locals>>

(***************************************************************************)
(* A row filter is an expression and its text: PostgreSQL gives back       *)
(* another text than the one it was given.                                 *)
(***************************************************************************)
Text(e, d) == [expr |-> e, deparsed |-> d]

Keep     == Text("", FALSE)     \* no publicationFilter in the configuration
Clear    == Text("-", FALSE)    \* ClearPublicationFilter
NoFilter == Text("", TRUE)

Deparse(f) == IF f.expr \in {"", "-"} THEN NoFilter ELSE Text(f.expr, TRUE)

\* Config.Validate: a filter is the user's text, and a configuration that lists
\* tables and beats lists its heartbeat table too.
ASSUME DeploymentAssumption ==
  \A d \in Deployments : \A i \in Instances :
    /\ DOMAIN d[i].tables \subseteq Tables
    /\ \A t \in DOMAIN d[i].tables : ~d[i].tables[t].filter.deparsed
    /\ d[i].heartbeat /\ DOMAIN d[i].tables # {} => Heartbeat \in DOMAIN d[i].tables

\* A database PostgreSQL could hold: the publication lists tables that exist,
\* with filters as PostgreSQL gives them back.
ASSUME DatabaseAssumption ==
  \A d \in Databases :
    /\ d.exists \subseteq Tables /\ DOMAIN d.identity = Tables
    /\ DOMAIN d.pub = {"exists", "all", "tables"} /\ d.pub.exists \in BOOLEAN
    /\ DOMAIN d.pub.tables \subseteq d.exists
    /\ ~d.pub.exists => DOMAIN d.pub.tables = {}
    /\ \A t \in DOMAIN d.pub.tables : d.pub.tables[t] = Deparse(d.pub.tables[t])

NoInfo == [tables |-> {}, all |-> FALSE]

\* What Info may end with: nil, ErrorPublicationIsNotExists, or any other error
\* of a statement, such as a lock or statement timeout.
Errors == {"nil", "notExists", "other"}
NotExists == "notExists"

\* pg_publication_tables.
Published == IF pub.all THEN exists ELSE DOMAIN pub.tables

Init ==
  /\ cfg \in Deployments
  /\ \E d \in Databases :
       exists = d.exists /\ identity = d.identity /\ pub = d.pub
  /\ restarts = 0
  /\ pc = [i \in Instances |-> "heartbeat"]
  /\ pending = [i \in Instances |-> {}]
  /\ infoErr = [i \in Instances |-> NotExists]
  /\ info = [i \in Instances |-> NoInfo]
  /\ desired = [i \in Instances |-> <<>>]
  /\ snapshotTables = [i \in Instances |-> {}]

At(i, p)   == pc[i] = p
GoTo(i, p) == pc' = [pc EXCEPT ![i] = p]

\* IsRetryableStartupError decides whether Supervise tries again.
Fails(i)    == GoTo(i, "failed")
TryLater(i) == GoTo(i, "retry")

(***************************************************************************)
(* Heartbeat.EnsureTable: a look, and CREATE TABLE when there is none.     *)
(***************************************************************************)
EnsureTable(i) ==
  /\ At(i, "heartbeat")
  /\ GoTo(i, IF cfg[i].heartbeat /\ Heartbeat \notin exists
             THEN "createTable" ELSE "identities")
  /\ UNCHANGED <<cfg, catalog, restarts, locals>>

CreateTable(i) ==
  /\ At(i, "createTable")
  /\ IF Heartbeat \in exists
     THEN Fails(i) /\ UNCHANGED exists
     ELSE GoTo(i, "identities") /\ exists' = exists \cup {Heartbeat}
  /\ UNCHANGED <<cfg, identity, pub, restarts, locals>>

(***************************************************************************)
(* ApplyReplicaIdentities and CheckReplicaIdentities.                      *)
(***************************************************************************)
ConfiguredIdentities(i) ==
  {t \in DOMAIN cfg[i].tables : cfg[i].tables[t].identity # ""}

\* Mutant: a table whose identity is not the default one counts as done.
DefaultOnly(i) ==
  {t \in ConfiguredIdentities(i) :
     t \notin exists \/ (identity[t] = "DEFAULT" /\ cfg[i].tables[t].identity # "DEFAULT")}

\* Tables.Diff: a table that was not found is a difference too.
Mismatches(i) ==
  {t \in ConfiguredIdentities(i) :
     t \notin exists \/ identity[t] # cfg[i].tables[t].identity}

\* replicaIdentityMismatches.  When createIfNotExists is off, whatever it finds
\* is only logged.
ReadIdentities(i) ==
  /\ At(i, "identities")
  /\ IF cfg[i].createIfNotExists /\ ConfiguredIdentities(i) # {}
     THEN IF DOMAIN cfg[i].tables \cap exists = {}
          THEN TryLater(i) /\ UNCHANGED pending
          ELSE /\ pending' = [pending EXCEPT ![i] = Mismatches(i)]
               /\ GoTo(i, IF Mismatches(i) = {} THEN "info" ELSE "alter")
     ELSE GoTo(i, "info") /\ UNCHANGED pending
  /\ UNCHANGED <<cfg, catalog, restarts, infoErr, info, desired, snapshotTables>>

\* AlterTableReplicaIdentity.
AlterIdentity(i, t) ==
  /\ At(i, "alter") /\ t \in pending[i]
  /\ IF t \in exists
     THEN /\ identity' = [identity EXCEPT ![t] = cfg[i].tables[t].identity]
          /\ pending' = [pending EXCEPT ![i] = @ \ {t}]
          /\ GoTo(i, IF pending[i] = {t} THEN "info" ELSE "alter")
     ELSE Fails(i) /\ UNCHANGED <<identity, pending>>
  /\ UNCHANGED <<cfg, exists, pub, restarts, infoErr, info, desired, snapshotTables>>

(***************************************************************************)
(* initializePublication.                                                  *)
(***************************************************************************)
\* The first Info.  Only its error is kept, and an error that does not say that
\* there is no publication is taken to say so.
LookForPublication(i) ==
  /\ At(i, "info")
  /\ \E err \in {IF pub.exists THEN "nil" ELSE NotExists, "other"} :
       infoErr' = [infoErr EXCEPT ![i] = err]
  /\ GoTo(i, "create")
  /\ UNCHANGED <<cfg, catalog, restarts, pending, info, desired, snapshotTables>>

publicationAlreadyExisted(i) == infoErr[i] = "nil"
AfterCreate(i) == IF publicationAlreadyExisted(i) THEN "filters" ELSE "validate"

\* Mutant: Create trusts the first look.
CreateUnasked(i) ==
  /\ At(i, "create")
  /\ IF cfg[i].createIfNotExists THEN GoTo(i, "createPublication") ELSE Fails(i)
  /\ UNCHANGED <<cfg, catalog, restarts, locals>>

\* Create asks again, and returns what it is told.
CreateInfo(i) ==
  /\ At(i, "create")
  /\ IF pub.exists
     THEN /\ info' = [info EXCEPT ![i] = [tables |-> Published, all |-> pub.all]]
          /\ GoTo(i, AfterCreate(i))
     ELSE /\ IF cfg[i].createIfNotExists THEN GoTo(i, "createPublication") ELSE Fails(i)
          /\ UNCHANGED info
  /\ UNCHANGED <<cfg, catalog, restarts, pending, infoErr, desired, snapshotTables>>

\* CREATE PUBLICATION ... FOR TABLE: an error if it exists, or a table does not.
CreatePublication(i) ==
  /\ At(i, "createPublication")
  /\ IF pub.exists \/ ~(DOMAIN cfg[i].tables \subseteq exists)
     THEN Fails(i) /\ UNCHANGED <<pub, info>>
     ELSE /\ pub' = [exists |-> TRUE, all |-> FALSE,
                     tables |-> [t \in DOMAIN cfg[i].tables |->
                                   Deparse(cfg[i].tables[t].filter)]]
          /\ info' = [info EXCEPT ![i] = [tables |-> DOMAIN cfg[i].tables, all |-> FALSE]]
          /\ GoTo(i, AfterCreate(i))
  /\ UNCHANGED <<cfg, exists, identity, restarts, pending, infoErr, desired, snapshotTables>>

\* Mutants: tables that are not live yet are not added; a table without a
\* filter in the configuration loses the one it has.
MergeLiveOnly(actual, configured, prune) ==
  [t \in IF prune THEN DOMAIN actual \cap DOMAIN configured ELSE DOMAIN actual |->
     IF t \in DOMAIN configured /\ configured[t].filter # Keep
     THEN Deparse(configured[t].filter) ELSE actual[t]]

MergeOverwrites(actual, configured, prune) ==
  [t \in DOMAIN configured \cup (IF prune THEN {} ELSE DOMAIN actual) |->
     IF t \in DOMAIN configured THEN Deparse(configured[t].filter) ELSE actual[t]]

\* The text of the configuration is compared with, and then replaces, the text
\* PostgreSQL gave back: any filter looks like a new one.
mergeDesiredPublicationTables(actual, configured, prune) ==
  [t \in DOMAIN configured \cup (IF prune THEN {} ELSE DOMAIN actual) |->
     LET wanted == IF t \in DOMAIN configured THEN configured[t].filter ELSE Keep
     IN  CASE wanted = Keep  -> IF t \in DOMAIN actual THEN actual[t] ELSE NoFilter
           [] wanted = Clear -> NoFilter
           [] OTHER          -> wanted]

\* Mutant: without configured tables there is no early return.
ReadAndSet(i) ==
  /\ At(i, "filters")
  /\ GoTo(i, "setTable")
  /\ desired' = [desired EXCEPT ![i] =
                   mergeDesiredPublicationTables(pub.tables, cfg[i].tables,
                                                 cfg[i].pruneTables)]
  /\ UNCHANGED <<cfg, catalog, restarts, pending, infoErr, info, snapshotTables>>

\* ApplyPublicationFilters reads the live tables ...
ReadPublicationTables(i) ==
  /\ At(i, "filters")
  /\ LET merged == mergeDesiredPublicationTables(pub.tables, cfg[i].tables,
                                                 cfg[i].pruneTables)
     IN  IF DOMAIN cfg[i].tables = {} \/ merged = pub.tables
         THEN GoTo(i, "validate") /\ UNCHANGED desired
         ELSE GoTo(i, "setTable") /\ desired' = [desired EXCEPT ![i] = merged]
  /\ UNCHANGED <<cfg, catalog, restarts, pending, infoErr, info, snapshotTables>>

\* ... and replaces the whole list.
SetTable(i) ==
  /\ At(i, "setTable")
  /\ desired' = [desired EXCEPT ![i] = <<>>]
  /\ IF pub.all \/ ~(DOMAIN desired[i] \subseteq exists)
     THEN Fails(i) /\ UNCHANGED pub
     ELSE /\ pub' = [pub EXCEPT !.tables =
                       [t \in DOMAIN desired[i] |-> Deparse(desired[i][t])]]
          /\ GoTo(i, "validate")
  /\ UNCHANGED <<cfg, exists, identity, restarts, pending, infoErr, info, snapshotTables>>

(***************************************************************************)
(* ValidateHeartbeatInPublication and GetSnapshotTables, of the info that  *)
(* Create returned.                                                        *)
(***************************************************************************)
\* Mutant: nothing is compared with the publication.
ValidateNothing(i) ==
  /\ At(i, "validate")
  /\ snapshotTables' =
       [snapshotTables EXCEPT ![i] =
          IF cfg[i].snapshotTables # {} THEN cfg[i].snapshotTables ELSE info[i].tables]
  /\ GoTo(i, "done")
  /\ UNCHANGED <<cfg, catalog, restarts, pending, infoErr, info, desired>>

Validate(i) ==
  /\ At(i, "validate")
  /\ IF \/ cfg[i].heartbeat /\ ~info[i].all /\ Heartbeat \notin info[i].tables
        \/ ~(cfg[i].snapshotTables \subseteq info[i].tables)
     THEN Fails(i) /\ UNCHANGED snapshotTables
     ELSE /\ snapshotTables' =
               [snapshotTables EXCEPT ![i] =
                  IF cfg[i].snapshotTables # {} THEN cfg[i].snapshotTables
                  ELSE info[i].tables]
          /\ GoTo(i, "done")
  /\ UNCHANGED <<cfg, catalog, restarts, pending, infoErr, info, desired>>

(***************************************************************************)
(* Supervise, the orchestrator and the owner of the database.              *)
(***************************************************************************)
Forget(i) ==
  /\ pending' = [pending EXCEPT ![i] = {}]
  /\ infoErr' = [infoErr EXCEPT ![i] = NotExists]
  /\ info' = [info EXCEPT ![i] = NoInfo]
  /\ desired' = [desired EXCEPT ![i] = <<>>]
  /\ snapshotTables' = [snapshotTables EXCEPT ![i] = {}]

\* Supervise builds a new connector.
Retry(i) ==
  /\ At(i, "retry")
  /\ GoTo(i, "heartbeat")
  /\ Forget(i)
  /\ UNCHANGED <<cfg, catalog, restarts>>

\* The process ends, wherever it is, and is started again.
Restart(i) ==
  /\ ~At(i, "heartbeat") /\ restarts < MaxRestarts
  /\ restarts' = restarts + 1
  /\ GoTo(i, "heartbeat")
  /\ Forget(i)
  /\ UNCHANGED <<cfg, catalog>>

\* A table that an instance waits for is created.
TableAppears(t) ==
  /\ t \notin exists
  /\ t # Heartbeat
  /\ exists' = exists \cup {t}
  /\ UNCHANGED <<cfg, identity, pub, restarts, pc, locals>>

Step(i) ==
  \/ EnsureTable(i) \/ CreateTable(i)
  \/ ReadIdentities(i) \/ \E t \in Tables : AlterIdentity(i, t)
  \/ LookForPublication(i) \/ CreateInfo(i) \/ CreatePublication(i)
  \/ ReadPublicationTables(i) \/ SetTable(i)
  \/ Validate(i) \/ Retry(i)

Next ==
  \/ \E i \in Instances : Step(i) \/ Restart(i)
  \/ \E t \in Tables : TableAppears(t)

\* A process that runs takes its next step.
Spec == Init /\ [][Next]_vars /\ \A i \in Instances : WF_vars(Step(i))

-----------------------------------------------------------------------------
Places == {"heartbeat", "createTable", "identities", "alter", "info", "create",
           "createPublication", "filters", "setTable", "validate", "retry",
           "done", "failed"}

\* What the catalog and the instances hold.  What PostgreSQL stores is what it
\* made of a filter, never the text of a configuration, and a SET TABLE always
\* has a table to name.
TypeOK ==
  /\ cfg \in Deployments
  /\ exists \subseteq Tables
  /\ DOMAIN identity = Tables
  /\ DOMAIN pub.tables \subseteq exists
  /\ \A t \in DOMAIN pub.tables : pub.tables[t].deparsed
  /\ restarts \in 0..MaxRestarts
  /\ pc \in [Instances -> Places]
  /\ pending \in [Instances -> SUBSET Tables]
  /\ \A i \in Instances : pc[i] = "setTable" => DOMAIN desired[i] # {}
  /\ infoErr \in [Instances -> Errors]
  /\ \A i \in Instances : info[i].tables \cup snapshotTables[i] \subseteq Tables

SameConfig == \A i, j \in Instances : cfg[i] = cfg[j]

Done(i) == pc[i] = "done"

\* The publication is what configuration c asks for.
Satisfies(c) ==
  \/ pub.all \/ DOMAIN c.tables = {}
  \/ /\ DOMAIN c.tables \subseteq DOMAIN pub.tables
     /\ c.pruneTables => DOMAIN pub.tables = DOMAIN c.tables
     /\ \A t \in DOMAIN c.tables :
          c.tables[t].filter # Keep => pub.tables[t] = Deparse(c.tables[t].filter)

\* Once NewConnector has returned, the live publication has every configured
\* table with its filter, and with pruneTables no other, whatever instances of
\* the same configuration are still doing with it.  An instance whose own first
\* Info failed is left out: it may have taken a publication for a new one.
PublicationMatches ==
  SameConfig =>
    \A i \in Instances : Done(i) /\ infoErr[i] # "other" => Satisfies(cfg[i])

\* "config.Publication.Tables changes take effect" (initializePublication) for
\* every instance that starts, also one whose first Info failed.
ConfigTakesEffect ==
  SameConfig => \A i \in Instances : Done(i) => Satisfies(cfg[i])

\* The same when the instances differ, as in a rolling update that adds a table.
EveryConfigPublished ==
  \A i \in Instances : Done(i) /\ ~cfg[i].pruneTables => Satisfies(cfg[i])

\* With createIfNotExists every configured replica identity is in place once
\* NewConnector has returned, also if an earlier attempt altered only some.
IdentitiesMatch ==
  SameConfig =>
    \A i \in Instances : Done(i) /\ cfg[i].createIfNotExists =>
      \A t \in ConfiguredIdentities(i) : identity[t] = cfg[i].tables[t].identity

\* A connector that beats has its heartbeat table in the live publication:
\* otherwise the slot would never see the beats.
HeartbeatIsStreamed ==
  \A i \in Instances : Done(i) /\ cfg[i].heartbeat => Heartbeat \in Published

\* Without pruneTables a table that is read by the snapshot is also streamed.
SnapshotIsStreamed ==
  (\A i \in Instances : ~cfg[i].pruneTables) =>
    \A i \in Instances : Done(i) => snapshotTables[i] \subseteq Published

\* What a started connector writes and reads, it also streams, although it
\* decided on a publicationInfo read before the table list was changed.
WhatItUsesIsStreamed == HeartbeatIsStreamed /\ SnapshotIsStreamed

\* A configured table is read by the snapshot, also when it is new.
SnapshotCoversConfig ==
  \A i \in Instances : Done(i) /\ cfg[i].snapshotTables = {} =>
    DOMAIN cfg[i].tables \subseteq snapshotTables[i]

\* SET TABLE replaces the whole list, yet a table keeps its filter while no
\* configuration has one for it, and leaves the publication only if an instance
\* that prunes does not list it.
NoOpinionNoChange ==
  [][\A t \in DOMAIN pub.tables :
       /\ t \notin DOMAIN pub.tables' =>
            \E i \in Instances : cfg[i].pruneTables /\ t \notin DOMAIN cfg[i].tables
       /\ t \in DOMAIN pub.tables' /\ pub.tables'[t] # pub.tables[t] =>
            \E i \in Instances :
              t \in DOMAIN cfg[i].tables /\ cfg[i].tables[t].filter # Keep]_vars

\* Nothing is missing that the instances do not create themselves, and an
\* existing publication has the configured tables.
Sound ==
  /\ SameConfig
  /\ \A i \in Instances :
       /\ DOMAIN cfg[i].tables \subseteq
            exists \cup (IF cfg[i].heartbeat THEN {Heartbeat} ELSE {})
       /\ IF pub.exists
          THEN /\ cfg[i].tables # <<>> => ~pub.all
               /\ DOMAIN cfg[i].tables \cup cfg[i].snapshotTables \subseteq Published
               /\ cfg[i].heartbeat => Heartbeat \in Published
          ELSE cfg[i].createIfNotExists

\* On a sound database one of the instances that start together gets through,
\* although each loser of a race to create something gives up, and although a
\* process may end between any two statements and find its own half-done work.
SomeoneStarts == Sound => <>(\E i \in Instances : Done(i))
=============================================================================
