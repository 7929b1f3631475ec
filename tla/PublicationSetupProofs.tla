----------------------- MODULE PublicationSetupProofs -----------------------
(***************************************************************************)
(* Proofs about PublicationSetup, for any number of instances and tables,  *)
(* any configuration they share, any database and any number of restarts.  *)
(***************************************************************************)
EXTENDS PublicationSetup, TLAPS

-----------------------------------------------------------------------------
(* Filters and the list of tables a SET TABLE leads to. *)

\* A filter that PostgreSQL has deparsed once does not change any more.
LEMMA DeparseIdempotent ==
  ASSUME NEW f
  PROVE  /\ Deparse(Deparse(f)) = Deparse(f) /\ Deparse(f).deparsed
         /\ Deparse(NoFilter) = NoFilter /\ Deparse(Clear) = NoFilter
BY DEF Deparse, NoFilter, Clear, Text

\* The list of tables that PostgreSQL holds after a SET TABLE with tables m.
Deparsed(m) == [t \in DOMAIN m |-> Deparse(m[t])]

\* The list that configuration c makes of list p.
Wanted(p, c) == Deparsed(mergeDesiredPublicationTables(p, c.tables, c.pruneTables))

\* Configuration c has an opinion about the filter of table t.
Opinion(c, t) == t \in DOMAIN c.tables /\ c.tables[t].filter # Keep

Live(p) == \A t \in DOMAIN p : p[t] = Deparse(p[t])

\* What the list consists of.
LEMMA WantedIs ==
  ASSUME NEW p, NEW c, Live(p)
  PROVE  LET w == Wanted(p, c)
         IN  /\ DOMAIN w = DOMAIN c.tables \cup (IF c.pruneTables THEN {} ELSE DOMAIN p)
             /\ \A t \in DOMAIN w :
                  w[t] = IF Opinion(c, t) THEN Deparse(c.tables[t].filter)
                         ELSE IF t \in DOMAIN p THEN p[t] ELSE NoFilter
<1> DEFINE m == mergeDesiredPublicationTables(p, c.tables, c.pruneTables)
           wanted(t) == IF t \in DOMAIN c.tables THEN c.tables[t].filter ELSE Keep
<1>1. DOMAIN m = DOMAIN c.tables \cup (IF c.pruneTables THEN {} ELSE DOMAIN p)
  BY DEF mergeDesiredPublicationTables
<1>2. ASSUME NEW t \in DOMAIN m
      PROVE  Deparse(m[t]) = IF Opinion(c, t) THEN Deparse(c.tables[t].filter)
                             ELSE IF t \in DOMAIN p THEN p[t] ELSE NoFilter
  <2> HIDE DEF m, wanted
  <2>0. m[t] = CASE wanted(t) = Keep  -> IF t \in DOMAIN p THEN p[t] ELSE NoFilter
                 [] wanted(t) = Clear -> NoFilter
                 [] OTHER             -> wanted(t)
    BY <1>1 DEF m, wanted, mergeDesiredPublicationTables
  <2>1. CASE ~Opinion(c, t)
    <3>1. wanted(t) = Keep /\ Keep # Clear
      BY <2>1 DEF wanted, Opinion, Keep, Clear, Text
    <3>2. m[t] = IF t \in DOMAIN p THEN p[t] ELSE NoFilter
      BY <2>0, <3>1
    <3>3. QED
      BY <2>1, <3>2, DeparseIdempotent DEF Live
  <2>2. CASE Opinion(c, t)
    <3>1. wanted(t) = c.tables[t].filter /\ wanted(t) # Keep
      BY <2>2 DEF wanted, Opinion
    <3>2. m[t] = IF wanted(t) = Clear THEN NoFilter ELSE wanted(t)
      BY <2>0, <3>1
    <3>3. QED
      BY <2>2, <3>1, <3>2, DeparseIdempotent
  <2>3. QED
    BY <2>1, <2>2
<1>3. DOMAIN Wanted(p, c) = DOMAIN m /\ \A t \in DOMAIN m : Wanted(p, c)[t] = Deparse(m[t])
  BY DEF Wanted, Deparsed
<1>4. QED
  BY <1>1, <1>2, <1>3

\* A table leaves the list only through pruning, and changes its filter only if
\* the configuration has one for it.
LEMMA WantedKeeps ==
  ASSUME NEW p, NEW c, Live(p), NEW t \in DOMAIN p
  PROVE  /\ t \notin DOMAIN Wanted(p, c) => c.pruneTables /\ t \notin DOMAIN c.tables
         /\ t \in DOMAIN Wanted(p, c) /\ Wanted(p, c)[t] # p[t] => Opinion(c, t)
<1>1. DOMAIN Wanted(p, c) = DOMAIN c.tables \cup (IF c.pruneTables THEN {} ELSE DOMAIN p)
  BY WantedIs
<1>2. ASSUME t \in DOMAIN Wanted(p, c), ~Opinion(c, t) PROVE Wanted(p, c)[t] = p[t]
  BY <1>2, WantedIs
<1>3. QED
  BY <1>1, <1>2

\* Applying the configuration once more changes nothing, so it does not matter
\* that another instance with the same configuration came first.
LEMMA WantedTwice ==
  ASSUME NEW p, NEW c, Live(p)
  PROVE  Wanted(Wanted(p, c), c) = Wanted(p, c) /\ Live(Wanted(p, c))
<1> DEFINE w == Wanted(p, c)
           v == Wanted(w, c)
<1>1. Live(w)
  BY DeparseIdempotent DEF Live, Wanted, Deparsed
<1>2. DOMAIN v = DOMAIN w
  <2>1. DOMAIN w = DOMAIN c.tables \cup (IF c.pruneTables THEN {} ELSE DOMAIN p)
    BY WantedIs
  <2>2. DOMAIN v = DOMAIN c.tables \cup (IF c.pruneTables THEN {} ELSE DOMAIN w)
    BY <1>1, WantedIs
  <2>3. QED
    BY <2>1, <2>2
<1>3. ASSUME NEW t \in DOMAIN w PROVE v[t] = w[t]
  <2>1. w[t] = IF Opinion(c, t) THEN Deparse(c.tables[t].filter)
               ELSE IF t \in DOMAIN p THEN p[t] ELSE NoFilter
    BY WantedIs
  <2>2. v[t] = IF Opinion(c, t) THEN Deparse(c.tables[t].filter)
               ELSE IF t \in DOMAIN w THEN w[t] ELSE NoFilter
    BY <1>1, <1>2, WantedIs
  <2>3. QED
    BY <2>1, <2>2
<1>4. v = [t \in DOMAIN v |-> v[t]] /\ w = [t \in DOMAIN w |-> w[t]]
  BY DEF Wanted, Deparsed
<1>5. v = w
  BY <1>2, <1>3, <1>4
<1>6. QED
  BY <1>1, <1>5

-----------------------------------------------------------------------------
(* Type correctness. *)

\* What TypeOK leaves open: the fields of the publication and the instances the
\* local variables are kept for.
Shape ==
  /\ DOMAIN pub = {"exists", "all", "tables"} /\ pub.exists \in BOOLEAN
  /\ Live(pub.tables)
  /\ DOMAIN info = Instances /\ DOMAIN desired = Instances
  /\ DOMAIN snapshotTables = Instances

WellFormed == TypeOK /\ Shape

\* Initially nothing is pending.
LEMMA InitWellFormed == Init => WellFormed
<1> SUFFICES ASSUME Init PROVE WellFormed
  OBVIOUS
<1>1. PICK d \in Databases : exists = d.exists /\ identity = d.identity /\ pub = d.pub
  BY DEF Init
<1>2. Shape
  BY <1>1, DatabaseAssumption DEF DatabaseAssumption, Init, Shape, Live
<1>3. \A t \in DOMAIN pub.tables : pub.tables[t].deparsed
  BY <1>2, DeparseIdempotent DEF Shape, Live
<1>4. /\ exists \subseteq Tables /\ DOMAIN identity = Tables
      /\ DOMAIN pub.tables \subseteq exists
  BY <1>1, DatabaseAssumption DEF DatabaseAssumption
<1>5. pc \in [Instances -> Places] /\ pending \in [Instances -> SUBSET Tables]
  BY DEF Init, Places
<1>6. infoErr \in [Instances -> Errors]
  BY Zenon DEF Init, Errors, NotExists
<1>7. \A i \in Instances : /\ pc[i] = "setTable" => DOMAIN desired[i] # {}
                           /\ info[i].tables \cup snapshotTables[i] \subseteq Tables
  BY DEF Init, NoInfo
<1>8. cfg \in Deployments /\ restarts \in 0..MaxRestarts
  BY SetupAssumption DEF Init, SetupAssumption
<1>9. QED
  BY <1>2, <1>3, <1>4, <1>5, <1>6, <1>7, <1>8 DEF WellFormed, TypeOK

\* The publication changes in two ways only: it is created with the configured
\* tables, or its list of tables is replaced.
LEMMA PublicationSteps ==
  ASSUME WellFormed, Next
  PROVE  \/ pub' = pub
         \/ \E j \in Instances :
              /\ CreatePublication(j) /\ ~pub.exists
              /\ DOMAIN cfg[j].tables \subseteq exists
              /\ pub' = [exists |-> TRUE, all |-> FALSE,
                         tables |-> [t \in DOMAIN cfg[j].tables |->
                                       Deparse(cfg[j].tables[t].filter)]]
         \/ \E j \in Instances :
              /\ SetTable(j) /\ ~pub.all
              /\ DOMAIN desired[j] \subseteq exists
              /\ pub' = [pub EXCEPT !.tables = Deparsed(desired[j])]
<1> USE DEF catalog
<1>1. ASSUME NEW i \in Instances,
             \/ EnsureTable(i) \/ CreateTable(i) \/ ReadIdentities(i)
             \/ \E t \in Tables : AlterIdentity(i, t)
             \/ LookForPublication(i) \/ CreateInfo(i) \/ ReadPublicationTables(i)
             \/ Validate(i) \/ Retry(i) \/ Restart(i)
      PROVE  pub' = pub
  BY <1>1 DEF EnsureTable, CreateTable, ReadIdentities, AlterIdentity, LookForPublication,
     CreateInfo, ReadPublicationTables, Validate, Retry, Restart
<1>2. ASSUME NEW t \in Tables, TableAppears(t) PROVE pub' = pub
  BY <1>2 DEF TableAppears
<1>3. ASSUME NEW i \in Instances, CreatePublication(i), pub' # pub
      PROVE  /\ ~pub.exists /\ DOMAIN cfg[i].tables \subseteq exists
             /\ pub' = [exists |-> TRUE, all |-> FALSE,
                        tables |-> [t \in DOMAIN cfg[i].tables |->
                                      Deparse(cfg[i].tables[t].filter)]]
  BY <1>3 DEF CreatePublication
<1>4. ASSUME NEW i \in Instances, SetTable(i), pub' # pub
      PROVE  /\ ~pub.all /\ DOMAIN desired[i] \subseteq exists
             /\ pub' = [pub EXCEPT !.tables = Deparsed(desired[i])]
  BY <1>4 DEF SetTable, Deparsed
<1>5. QED
  BY <1>1, <1>2, <1>3, <1>4 DEF Next, Step

\* Tables are only added, and the configurations stay as they are.
LEMMA TablesAppear ==
  ASSUME Next
  PROVE  exists \subseteq exists' /\ cfg' = cfg
<1> USE DEF catalog
<1>1. ASSUME NEW i \in Instances, Step(i) \/ Restart(i)
      PROVE  exists \subseteq exists' /\ cfg' = cfg
  BY <1>1 DEF Step, EnsureTable, CreateTable, ReadIdentities, AlterIdentity,
     LookForPublication, CreateInfo, CreatePublication, ReadPublicationTables, SetTable,
     Validate, Retry, Restart
<1>2. ASSUME NEW t \in Tables, TableAppears(t) PROVE exists \subseteq exists' /\ cfg' = cfg
  BY <1>2 DEF TableAppears
<1>3. QED
  BY <1>1, <1>2 DEF Next

\* The list of tables names tables that exist, with deparsed filters.
LEMMA CatalogKept ==
  ASSUME WellFormed, Next
  PROVE  /\ exists' \subseteq Tables /\ DOMAIN identity' = Tables
         /\ DOMAIN pub' = {"exists", "all", "tables"} /\ pub'.exists \in BOOLEAN
         /\ DOMAIN pub'.tables \subseteq exists' /\ Live(pub'.tables)
         /\ pub.exists => pub'.exists
<1> USE DEF WellFormed, TypeOK, Shape, catalog
<1>1. exists' \subseteq Tables /\ DOMAIN identity' = Tables
  <2>1. ASSUME NEW i \in Instances, Step(i) \/ Restart(i)
        PROVE  exists' \subseteq Tables /\ DOMAIN identity' = Tables
    BY <2>1, SetupAssumption DEF SetupAssumption, Step, EnsureTable, CreateTable,
       ReadIdentities, AlterIdentity, LookForPublication, CreateInfo, CreatePublication,
       ReadPublicationTables, SetTable, Validate, Retry, Restart
  <2>2. ASSUME NEW t \in Tables, TableAppears(t)
        PROVE  exists' \subseteq Tables /\ DOMAIN identity' = Tables
    BY <2>2 DEF TableAppears
  <2>3. QED
    BY <2>1, <2>2 DEF Next
<1>2. CASE pub' = pub
  BY <1>1, <1>2, TablesAppear
<1>3. ASSUME NEW j \in Instances, ~pub.exists, DOMAIN cfg[j].tables \subseteq exists,
             pub' = [exists |-> TRUE, all |-> FALSE,
                     tables |-> [t \in DOMAIN cfg[j].tables |->
                                   Deparse(cfg[j].tables[t].filter)]]
      PROVE  /\ DOMAIN pub' = {"exists", "all", "tables"} /\ pub'.exists
             /\ DOMAIN pub'.tables \subseteq exists' /\ Live(pub'.tables)
  BY <1>3, TablesAppear, DeparseIdempotent DEF Live
<1>4. ASSUME NEW j \in Instances, DOMAIN desired[j] \subseteq exists,
             pub' = [pub EXCEPT !.tables = Deparsed(desired[j])]
      PROVE  /\ DOMAIN pub' = {"exists", "all", "tables"} /\ pub'.exists = pub.exists
             /\ DOMAIN pub'.tables \subseteq exists' /\ Live(pub'.tables)
  <2>1. pub'.tables = Deparsed(desired[j])
    BY <1>4
  <2>2. Live(pub'.tables) /\ DOMAIN pub'.tables = DOMAIN desired[j]
    BY <2>1, DeparseIdempotent DEF Live, Deparsed
  <2>3. QED
    BY <1>4, <2>2, TablesAppear
<1>5. QED
  BY <1>1, <1>2, <1>3, <1>4, PublicationSteps

\* What one instance knows.
Local(i) == <<pc[i], pending[i], infoErr[i], info[i], desired[i], snapshotTables[i]>>

IsFunction(f) == f = [j \in Instances |-> f[j]]

\* A change of one value of a function leaves a function.
LEMMA ExceptIsFunction ==
  ASSUME NEW f, NEW g, NEW i, IsFunction(f), g = f \/ \E x : g = [f EXCEPT ![i] = x]
  PROVE  IsFunction(g)
BY DEF IsFunction

\* The local variables stay functions of the instances, and an instance changes
\* only what it knows itself.
LEMMA OthersLeave ==
  ASSUME WellFormed, Next
  PROVE  /\ IsFunction(pc') /\ IsFunction(pending')
         /\ IsFunction(infoErr') /\ DOMAIN info' = Instances
         /\ DOMAIN desired' = Instances /\ DOMAIN snapshotTables' = Instances
         /\ \A i \in Instances : Step(i) \/ Restart(i) \/ Local(i)' = Local(i)
<1> USE DEF WellFormed, TypeOK, Shape, catalog, locals, GoTo, Fails, TryLater
<1>0. IsFunction(pc) /\ IsFunction(pending) /\ IsFunction(infoErr)
  BY DEF IsFunction
<1>1. ASSUME NEW i \in Instances, EnsureTable(i) \/ CreateTable(i)
      PROVE  /\ UNCHANGED <<pending, infoErr, info, desired, snapshotTables>>
             /\ \E p : pc' = [pc EXCEPT ![i] = p]
  BY <1>1 DEF EnsureTable, CreateTable
<1>2. ASSUME NEW i \in Instances, ReadIdentities(i) \/ \E t \in Tables : AlterIdentity(i, t)
      PROVE  /\ UNCHANGED <<infoErr, info, desired, snapshotTables>>
             /\ \E p : pc' = [pc EXCEPT ![i] = p]
             /\ \/ pending' = pending
                \/ \E x : pending' = [pending EXCEPT ![i] = x]
  BY <1>2 DEF ReadIdentities, AlterIdentity
<1>3. ASSUME NEW i \in Instances, LookForPublication(i)
      PROVE  /\ UNCHANGED <<pending, info, desired, snapshotTables>>
             /\ \E p : pc' = [pc EXCEPT ![i] = p]
             /\ \E x : infoErr' = [infoErr EXCEPT ![i] = x]
  BY <1>3 DEF LookForPublication
<1>4. ASSUME NEW i \in Instances, CreateInfo(i) \/ CreatePublication(i)
      PROVE  /\ UNCHANGED <<pending, infoErr, desired, snapshotTables>>
             /\ \E p : pc' = [pc EXCEPT ![i] = p]
             /\ info' = info \/ \E x : info' = [info EXCEPT ![i] = x]
  BY <1>4 DEF CreateInfo, CreatePublication
<1>5. ASSUME NEW i \in Instances, ReadPublicationTables(i) \/ SetTable(i)
      PROVE  /\ UNCHANGED <<pending, infoErr, info, snapshotTables>>
             /\ \E p : pc' = [pc EXCEPT ![i] = p]
             /\ desired' = desired \/ \E x : desired' = [desired EXCEPT ![i] = x]
  BY <1>5 DEF ReadPublicationTables, SetTable
<1>6. ASSUME NEW i \in Instances, Validate(i)
      PROVE  /\ UNCHANGED <<pending, infoErr, info, desired>>
             /\ \E p : pc' = [pc EXCEPT ![i] = p]
             /\ \/ snapshotTables' = snapshotTables
                \/ \E x : snapshotTables' = [snapshotTables EXCEPT ![i] = x]
  BY <1>6 DEF Validate
<1>7. ASSUME NEW i \in Instances, Retry(i) \/ Restart(i)
      PROVE  /\ Forget(i) /\ \E p : pc' = [pc EXCEPT ![i] = p]
             /\ \E x : pending' = [pending EXCEPT ![i] = x]
             /\ \E x : infoErr' = [infoErr EXCEPT ![i] = x]
  BY Zenon, <1>7 DEF Retry, Restart, Forget
<1>8. ASSUME NEW i \in Instances, Step(i) \/ Restart(i)
      PROVE  /\ DOMAIN info' = Instances
             /\ DOMAIN desired' = Instances /\ DOMAIN snapshotTables' = Instances
             /\ \A j \in Instances \ {i} : Local(j)' = Local(j)
  <2>1. CASE EnsureTable(i) \/ CreateTable(i)
    BY <1>1, <2>1 DEF Local
  <2>2. CASE ReadIdentities(i) \/ \E t \in Tables : AlterIdentity(i, t)
    BY <1>2, <2>2 DEF Local
  <2>3. CASE LookForPublication(i)
    BY <1>3, <2>3 DEF Local
  <2>4. CASE CreateInfo(i) \/ CreatePublication(i)
    BY <1>4, <2>4 DEF Local
  <2>5. CASE ReadPublicationTables(i) \/ SetTable(i)
    BY <1>5, <2>5 DEF Local
  <2>6. CASE Validate(i)
    BY <1>6, <2>6 DEF Local
  <2>7. CASE Retry(i) \/ Restart(i)
    BY <1>7, <2>7 DEF Local, Forget
  <2>8. QED
    BY <1>8, <2>1, <2>2, <2>3, <2>4, <2>5, <2>6, <2>7 DEF Step
<1>9. ASSUME NEW t \in Tables, TableAppears(t)
      PROVE  UNCHANGED <<pc, locals>>
  BY <1>9 DEF TableAppears
<1>10. ASSUME NEW i \in Instances, Step(i) \/ Restart(i)
       PROVE  IsFunction(pc') /\ IsFunction(pending') /\ IsFunction(infoErr')
  <2>1. /\ \E x : pc' = [pc EXCEPT ![i] = x]
        /\ pending' = pending \/ \E x : pending' = [pending EXCEPT ![i] = x]
        /\ infoErr' = infoErr \/ \E x : infoErr' = [infoErr EXCEPT ![i] = x]
    <3>1. CASE EnsureTable(i) \/ CreateTable(i)
      BY <1>1, <3>1
    <3>2. CASE ReadIdentities(i) \/ \E t \in Tables : AlterIdentity(i, t)
      BY <1>2, <3>2
    <3>3. CASE LookForPublication(i)
      BY <1>3, <3>3
    <3>4. CASE CreateInfo(i) \/ CreatePublication(i)
      BY <1>4, <3>4
    <3>5. CASE ReadPublicationTables(i) \/ SetTable(i)
      BY <1>5, <3>5
    <3>6. CASE Validate(i)
      BY <1>6, <3>6
    <3>7. CASE Retry(i) \/ Restart(i)
      BY <1>7, <3>7
    <3>8. QED
      BY <1>10, <3>1, <3>2, <3>3, <3>4, <3>5, <3>6, <3>7 DEF Step
  <2>2. IsFunction(pc')
    BY <1>0, <2>1, ExceptIsFunction
  <2>3. IsFunction(pending')
    BY <1>0, <2>1, ExceptIsFunction
  <2>4. IsFunction(infoErr')
    BY <1>0, <2>1, ExceptIsFunction
  <2>5. QED
    BY <2>2, <2>3, <2>4
<1>11. CASE \E t \in Tables : TableAppears(t)
  BY <1>0, <1>9, <1>11 DEF Local
<1>12. QED
  BY <1>8, <1>10, <1>11 DEF Next

\* What instance i knows has its type.
LocalType(i) ==
  /\ pc[i] \in Places /\ pending[i] \subseteq Tables
  /\ pc[i] = "setTable" => DOMAIN desired[i] # {}
  /\ info[i].tables \cup snapshotTables[i] \subseteq Tables

\* A step of an instance keeps what it knows in its type.
LEMMA LocalTypeKept ==
  ASSUME WellFormed, NEW i \in Instances, Step(i) \/ Restart(i)
  PROVE  LocalType(i)' /\ infoErr'[i] \in Errors
<1> USE DEF WellFormed, TypeOK, Shape, LocalType, catalog, locals, At, GoTo, Fails, TryLater
<1>1. CASE EnsureTable(i) \/ CreateTable(i)
  BY <1>1 DEF EnsureTable, CreateTable, Places
<1>2. CASE ReadIdentities(i)
  <2>1. Mismatches(i) \subseteq Tables
    BY DeploymentAssumption DEF DeploymentAssumption, Mismatches, ConfiguredIdentities
  <2>2. QED
    BY <1>2, <2>1 DEF ReadIdentities, Places
<1>3. ASSUME NEW t \in Tables, AlterIdentity(i, t) PROVE LocalType(i)' /\ infoErr'[i] \in Errors
  BY <1>3 DEF AlterIdentity, Places
<1>4. CASE LookForPublication(i)
  BY <1>4 DEF LookForPublication, Places, Errors, NotExists
<1>5. CASE CreateInfo(i) \/ CreatePublication(i)
  BY <1>5 DEF CreateInfo, CreatePublication, AfterCreate, Published, Places
<1>6. CASE ReadPublicationTables(i)
  <2> DEFINE merged == mergeDesiredPublicationTables(pub.tables, cfg[i].tables,
                                                     cfg[i].pruneTables)
  <2>0. DOMAIN cfg[i].tables \subseteq DOMAIN merged
    BY DEF mergeDesiredPublicationTables
  <2> HIDE DEF merged
  <2>1. DOMAIN cfg[i].tables # {} => DOMAIN merged # {}
    BY <2>0
  <2>2. /\ \/ pc' = [pc EXCEPT ![i] = "validate"] /\ desired' = desired
           \/ /\ DOMAIN cfg[i].tables # {}
              /\ pc' = [pc EXCEPT ![i] = "setTable"]
              /\ desired' = [desired EXCEPT ![i] = merged]
        /\ UNCHANGED <<pending, infoErr, info, snapshotTables>>
    BY <1>6 DEF ReadPublicationTables, merged
  <2>3. QED
    BY <2>1, <2>2 DEF Places
<1>7. CASE SetTable(i) \/ Validate(i)
  BY <1>7 DEF SetTable, Validate, Places
<1>8. CASE Retry(i) \/ Restart(i)
  <2>1. infoErr'[i] \in Errors
    BY <1>8 DEF Retry, Restart, Forget, Errors, NotExists
  <2>2. LocalType(i)'
    BY <1>8 DEF Retry, Restart, Forget, NoInfo, Places
  <2>3. QED
    BY <2>1, <2>2
<1>9. QED
  BY <1>1, <1>2, <1>3, <1>4, <1>5, <1>6, <1>7, <1>8 DEF Step

\* Every step keeps the catalog and the instances well formed.
LEMMA NextWellFormed == WellFormed /\ [Next]_vars => WellFormed'
<1> SUFFICES ASSUME WellFormed, [Next]_vars PROVE WellFormed'
  OBVIOUS
<1>1. CASE Next
  <2>1. Shape'
    BY <1>1, CatalogKept, OthersLeave DEF Shape
  <2>2. cfg' \in Deployments
    BY <1>1, TablesAppear DEF WellFormed, TypeOK
  <2>3. /\ exists' \subseteq Tables /\ DOMAIN identity' = Tables
        /\ DOMAIN pub'.tables \subseteq exists'
    BY <1>1, CatalogKept
  <2>4. \A t \in DOMAIN pub'.tables : pub'.tables[t].deparsed
    BY <2>1, DeparseIdempotent DEF Shape, Live
  <2>5. restarts' \in 0..MaxRestarts
    <3>1. restarts' = restarts \/ (restarts < MaxRestarts /\ restarts' = restarts + 1)
      BY <1>1 DEF Next, Step, EnsureTable, CreateTable, ReadIdentities, AlterIdentity,
         LookForPublication, CreateInfo, CreatePublication, ReadPublicationTables,
         SetTable, Validate, Retry, Restart, TableAppears
    <3>2. QED
      BY <3>1, SetupAssumption DEF SetupAssumption, WellFormed, TypeOK
  <2>6. ASSUME NEW i \in Instances PROVE LocalType(i)' /\ infoErr'[i] \in Errors
    <3>1. CASE Step(i) \/ Restart(i)
      BY <3>1, LocalTypeKept
    <3>2. CASE Local(i)' = Local(i)
      BY <3>2 DEF Local, LocalType, WellFormed, TypeOK
    <3>3. QED
      BY <1>1, <3>1, <3>2, OthersLeave
  <2>7. pc' \in [Instances -> Places] /\ pending' \in [Instances -> SUBSET Tables]
    <3>1. pc' = [i \in Instances |-> pc'[i]] /\ pending' = [i \in Instances |-> pending'[i]]
      BY <1>1, OthersLeave DEF IsFunction
    <3>2. QED
      BY <2>6, <3>1 DEF LocalType
  <2>8. infoErr' \in [Instances -> Errors]
    <3>1. infoErr' = [i \in Instances |-> infoErr'[i]]
      BY <1>1, OthersLeave DEF IsFunction
    <3>2. QED
      BY <2>6, <3>1
  <2>9. QED
    BY <2>1, <2>2, <2>3, <2>4, <2>5, <2>6, <2>7, <2>8 DEF WellFormed, TypeOK, LocalType
<1>2. CASE UNCHANGED vars
  BY <1>2 DEF vars, catalog, locals, WellFormed, TypeOK, Shape, Live
<1>3. QED
  BY <1>1, <1>2

\* Type correctness: the publication always lists existing tables with filters
\* PostgreSQL gave back, whatever a SET TABLE or CREATE PUBLICATION raced with.
THEOREM TypeCorrect == Spec => []TypeOK
<1>1. Spec => []WellFormed
  BY InitWellFormed, NextWellFormed, PTL DEF Spec
<1>2. WellFormed => TypeOK
  BY DEF WellFormed
<1>3. QED
  BY <1>1, <1>2, PTL

-----------------------------------------------------------------------------
(* The publication. *)

\* Where an instance has a publicationInfo.
Holding == {"filters", "setTable", "validate", "done"}

\* Instance i and the publication: i acts on what it has read only while that is
\* still right.  Its list of tables may be stale, yet is what it would be if it
\* were made now; and a publication it does not know has been created, or already
\* corrected, by an instance with the same configuration, unless its first Info
\* failed with another error.
PublicationStep(i) ==
  /\ pc[i] \in Holding => pub.exists
  /\ pc[i] = "setTable" =>
       Deparsed(desired[i]) = Wanted(pub.tables, cfg[i]) /\ DOMAIN cfg[i].tables # {}
  /\ pc[i] \in {"create", "createPublication"} /\ pub.exists =>
       infoErr[i] \in {"nil", "other"} \/ Satisfies(cfg[i])
  /\ pc[i] \in {"validate", "done"} => infoErr[i] = "other" \/ Satisfies(cfg[i])

PublicationInv ==
  SameConfig => /\ ~pub.exists => DOMAIN pub.tables = {}
                /\ \A i \in Instances : PublicationStep(i)

\* List q has the tables of configuration c, with their filters.
Suits(q, c) ==
  /\ DOMAIN c.tables \subseteq DOMAIN q
  /\ c.pruneTables => DOMAIN q = DOMAIN c.tables
  /\ \A t \in DOMAIN c.tables : Opinion(c, t) => q[t] = Deparse(c.tables[t].filter)

\* The list that configuration c leads to suits it.
LEMMA WantedSuits ==
  ASSUME NEW p, NEW c, Live(p), NEW q, DOMAIN q = DOMAIN Wanted(p, c),
         \A t \in DOMAIN q : q[t] = Wanted(p, c)[t]
  PROVE  Suits(q, c)
<1>1. DOMAIN q = DOMAIN c.tables \cup (IF c.pruneTables THEN {} ELSE DOMAIN p)
  BY WantedIs
<1>2. ASSUME NEW t \in DOMAIN c.tables, Opinion(c, t)
      PROVE  q[t] = Deparse(c.tables[t].filter)
  <2>1. t \in DOMAIN Wanted(p, c)
    BY <1>1
  <2>2. Wanted(p, c)[t] = Deparse(c.tables[t].filter)
    BY <1>2, <2>1, WantedIs
  <2>3. QED
    BY <2>1, <2>2
<1>3. QED
  BY <1>1, <1>2 DEF Suits

\* So does a publication that ApplyPublicationFilters leaves alone.
LEMMA UnchangedSatisfies ==
  ASSUME WellFormed, NEW i \in Instances,
         mergeDesiredPublicationTables(pub.tables, cfg[i].tables, cfg[i].pruneTables)
           = pub.tables
  PROVE  Satisfies(cfg[i])
<1>1. Wanted(pub.tables, cfg[i]) = Deparsed(pub.tables)
  BY DEF Wanted
<1>2. DOMAIN pub.tables = DOMAIN Wanted(pub.tables, cfg[i])
  BY <1>1 DEF Deparsed
<1>3. \A t \in DOMAIN pub.tables : pub.tables[t] = Wanted(pub.tables, cfg[i])[t]
  BY <1>1 DEF Deparsed, WellFormed, Shape, Live
<1>4. Live(pub.tables)
  BY DEF WellFormed, Shape
<1>5. Suits(pub.tables, cfg[i])
  BY <1>2, <1>3, <1>4, WantedSuits
<1>6. QED
  BY <1>5 DEF Suits, Satisfies, Opinion

\* A step that changes the publication leaves it as the common configuration
\* wants it, and leaves what other instances are about to do right.
LEMMA PublicationChanges ==
  ASSUME WellFormed, SameConfig, PublicationInv, Next, pub' # pub, NEW i \in Instances
  PROVE  /\ Satisfies(cfg[i])' /\ pub'.exists
         /\ pc[i] = "setTable" => /\ Deparsed(desired[i]) = Wanted(pub'.tables, cfg[i])
                                  /\ pub'.tables = Wanted(pub.tables, cfg[i])
                                  /\ pub'.all = pub.all
<1>0. cfg' = cfg /\ Live(pub.tables) /\ DOMAIN pub = {"exists", "all", "tables"}
  BY TablesAppear DEF WellFormed, Shape
<1>1. ASSUME NEW j \in Instances, ~pub.exists,
             pub' = [exists |-> TRUE, all |-> FALSE,
                     tables |-> [t \in DOMAIN cfg[j].tables |->
                                   Deparse(cfg[j].tables[t].filter)]]
      PROVE  Satisfies(cfg[i])' /\ pub'.exists /\ pc[i] # "setTable"
  <2>1. cfg[j] = cfg[i]
    BY DEF SameConfig
  <2>2. pc[i] # "setTable"
    BY <1>1 DEF PublicationInv, PublicationStep, Holding
  <2>3. QED
    BY <1>0, <1>1, <2>1, <2>2 DEF Satisfies
<1>2. ASSUME NEW j \in Instances, SetTable(j),
             pub' = [pub EXCEPT !.tables = Deparsed(desired[j])]
      PROVE  /\ Satisfies(cfg[i])' /\ pub'.exists
             /\ pc[i] = "setTable" => /\ Deparsed(desired[i]) = Wanted(pub'.tables, cfg[i])
                                      /\ pub'.tables = Wanted(pub.tables, cfg[i])
                                      /\ pub'.all = pub.all
  <2>1. cfg[j] = cfg[i] /\ pc[j] = "setTable"
    BY <1>2 DEF SameConfig, SetTable, At
  <2>2. pub.exists /\ Deparsed(desired[j]) = Wanted(pub.tables, cfg[i])
    BY <2>1 DEF PublicationInv, PublicationStep, Holding
  <2>3. pub'.tables = Wanted(pub.tables, cfg[i]) /\ pub'.exists = pub.exists /\ pub'.all = pub.all
    BY <1>0, <1>2, <2>2
  <2>4. Wanted(pub'.tables, cfg[i]) = Wanted(pub.tables, cfg[i])
    BY <1>0, <2>3, WantedTwice
  <2>5. Satisfies(cfg[i])'
    <3>1. Suits(pub'.tables, cfg[i])
      BY <1>0, <2>3, WantedSuits
    <3>2. QED
      BY <1>0, <3>1 DEF Suits, Satisfies, Opinion
  <2>6. pc[i] = "setTable" => Deparsed(desired[i]) = Wanted(pub.tables, cfg[i])
    BY DEF PublicationInv, PublicationStep
  <2>7. QED
    BY <2>2, <2>3, <2>4, <2>5, <2>6
<1>3. QED
  BY <1>1, <1>2, PublicationSteps

\* A step of instance i takes it to where it may be.
LEMMA PublicationStepKept ==
  ASSUME WellFormed, SameConfig, PublicationInv, Next, NEW i \in Instances,
         Step(i) \/ Restart(i)
  PROVE  PublicationStep(i)'
<1> USE DEF WellFormed, TypeOK, Shape, catalog, locals, At, GoTo, Fails, TryLater, Holding
<1>0. cfg' = cfg /\ PublicationStep(i)
  BY TablesAppear DEF PublicationInv
<1>1. CASE EnsureTable(i) \/ CreateTable(i) \/ ReadIdentities(i) \/ Retry(i) \/ Restart(i)
  <2>1. pc'[i] \in {"heartbeat", "createTable", "identities", "alter", "info", "retry", "failed"}
    BY <1>1 DEF EnsureTable, CreateTable, ReadIdentities, Retry, Restart
  <2>2. QED
    BY <2>1 DEF PublicationStep
<1>2. ASSUME NEW t \in Tables, AlterIdentity(i, t) PROVE PublicationStep(i)'
  <2>1. pc'[i] \in {"alter", "info", "failed"}
    BY <1>2 DEF AlterIdentity
  <2>2. QED
    BY <2>1 DEF PublicationStep
<1>3. CASE LookForPublication(i)
  <2>1. pc'[i] = "create" /\ pub' = pub
        /\ infoErr'[i] \in {IF pub.exists THEN "nil" ELSE "notExists", "other"}
    BY <1>3 DEF LookForPublication, NotExists
  <2>2. QED
    BY <2>1 DEF PublicationStep
<1>4. CASE CreateInfo(i)
  <2>1. pub' = pub /\ infoErr' = infoErr
    BY <1>4 DEF CreateInfo
  <2>2. Satisfies(cfg[i])' <=> Satisfies(cfg[i])
    BY <1>0, <2>1 DEF Satisfies
  <2>3. \/ pub.exists /\ pc'[i] = IF infoErr[i] = "nil" THEN "filters" ELSE "validate"
        \/ ~pub.exists /\ pc'[i] \in {"createPublication", "failed"}
    BY <1>4 DEF CreateInfo, AfterCreate, publicationAlreadyExisted
  <2>4. pub.exists => infoErr[i] \in {"nil", "other"} \/ Satisfies(cfg[i])
    BY <1>0, <1>4 DEF PublicationStep, CreateInfo
  <2>5. QED
    BY <2>1, <2>2, <2>3, <2>4 DEF PublicationStep
<1>5. CASE CreatePublication(i)
  <2>1. \/ pc'[i] = "failed"
        \/ pub' # pub /\ pc'[i] \in {"filters", "validate"}
    BY <1>5 DEF CreatePublication, AfterCreate
  <2>2. pub' # pub => pub'.exists /\ Satisfies(cfg[i])'
    BY PublicationChanges
  <2>3. QED
    BY <1>0, <2>1, <2>2 DEF PublicationStep
<1>6. CASE ReadPublicationTables(i)
  <2> DEFINE merged == mergeDesiredPublicationTables(pub.tables, cfg[i].tables,
                                                     cfg[i].pruneTables)
  <2>1. Deparsed(merged) = Wanted(pub.tables, cfg[i])
    BY DEF Wanted
  <2>2. merged = pub.tables => Satisfies(cfg[i])
    BY UnchangedSatisfies
  <2> HIDE DEF merged
  <2>3. pub.exists /\ pub' = pub
    BY <1>0, <1>6 DEF ReadPublicationTables, PublicationStep
  <2>4. \/ /\ DOMAIN cfg[i].tables = {} \/ merged = pub.tables
           /\ pc'[i] = "validate"
        \/ /\ DOMAIN cfg[i].tables # {}
           /\ pc'[i] = "setTable" /\ desired'[i] = merged
    BY <1>6 DEF ReadPublicationTables, merged
  <2>5. DOMAIN cfg[i].tables = {} => Satisfies(cfg[i])
    BY DEF Satisfies
  <2>6. Satisfies(cfg[i])' <=> Satisfies(cfg[i])
    BY <1>0, <2>3 DEF Satisfies
  <2>7. QED
    BY <1>0, <2>1, <2>2, <2>3, <2>4, <2>5, <2>6 DEF PublicationStep
<1>7. CASE SetTable(i)
  <2>1. pub.exists /\ Deparsed(desired[i]) = Wanted(pub.tables, cfg[i])
    BY <1>0, <1>7 DEF SetTable, PublicationStep
  <2>2. \/ pc'[i] = "failed"
        \/ /\ pc'[i] = "validate"
           /\ pub' = [pub EXCEPT !.tables = Deparsed(desired[i])]
    BY <1>7 DEF SetTable, Deparsed
  <2>3. ASSUME pub' = [pub EXCEPT !.tables = Deparsed(desired[i])]
        PROVE  Satisfies(cfg[i])' /\ pub'.exists
    <3>1. pub'.tables = Wanted(pub.tables, cfg[i]) /\ pub'.exists = pub.exists
      BY <2>1, <2>3
    <3>2. Suits(pub'.tables, cfg[i])
      BY <3>1, WantedSuits
    <3>3. QED
      BY <1>0, <2>1, <3>1, <3>2 DEF Suits, Satisfies, Opinion
  <2>4. QED
    BY <1>0, <2>2, <2>3 DEF PublicationStep
<1>8. CASE Validate(i)
  <2>1. /\ pub' = pub /\ pc'[i] \in {"failed", "done"} /\ pc[i] = "validate"
        /\ infoErr' = infoErr
    BY <1>8 DEF Validate
  <2>2. Satisfies(cfg[i])' <=> Satisfies(cfg[i])
    BY <1>0, <2>1 DEF Satisfies
  <2>3. QED
    BY <1>0, <2>1, <2>2 DEF PublicationStep
<1>9. QED
  BY <1>1, <1>2, <1>3, <1>4, <1>5, <1>6, <1>7, <1>8 DEF Step

\* PublicationInv is inductive.
LEMMA PublicationInvKept ==
  ASSUME WellFormed, PublicationInv, [Next]_vars
  PROVE  PublicationInv'
<1>1. CASE UNCHANGED vars
  BY <1>1 DEF vars, catalog, locals, PublicationInv, SameConfig, PublicationStep, Satisfies
<1>2. ASSUME Next, SameConfig', NEW i \in Instances PROVE PublicationStep(i)'
  <2>0. cfg' = cfg /\ SameConfig
    BY <1>2, TablesAppear DEF SameConfig
  <2>1. CASE Step(i) \/ Restart(i)
    BY <1>2, <2>0, <2>1, PublicationStepKept
  <2>2. CASE Local(i)' = Local(i)
    <3>1. /\ PublicationStep(i) /\ pc'[i] = pc[i] /\ infoErr'[i] = infoErr[i]
          /\ desired'[i] = desired[i]
      BY <2>0, <2>2 DEF PublicationInv, Local
    <3>2. CASE pub' = pub
      <4>1. Satisfies(cfg[i])' <=> Satisfies(cfg[i])
        BY <2>0, <3>2 DEF Satisfies
      <4>2. QED
        BY <2>0, <3>1, <3>2, <4>1 DEF PublicationStep
    <3>3. CASE pub' # pub
      <4>1. /\ Satisfies(cfg[i])' /\ pub'.exists
            /\ pc[i] = "setTable" => Deparsed(desired[i]) = Wanted(pub'.tables, cfg[i])
        BY <1>2, <2>0, <3>3, PublicationChanges
      <4>2. QED
        BY <2>0, <3>1, <4>1 DEF PublicationStep
    <3>4. QED
      BY <3>2, <3>3
  <2>3. QED
    BY <1>2, <2>1, <2>2, OthersLeave
<1>3. ASSUME Next, SameConfig', ~pub'.exists PROVE DOMAIN pub'.tables = {}
  <2>1. cfg' = cfg /\ SameConfig
    BY <1>3, TablesAppear DEF SameConfig
  <2>2. pub' = pub
    BY <1>3, <2>1, PublicationChanges, PublicationSteps
  <2>3. QED
    BY <1>3, <2>1, <2>2 DEF PublicationInv
<1>4. QED
  BY <1>1, <1>2, <1>3 DEF PublicationInv

\* Initially no instance has read anything.
LEMMA InitPublicationInv == Init => PublicationInv
<1>1. Init => \A i \in Instances : PublicationStep(i)
  BY DEF Init, PublicationStep, Holding
<1>2. Init => (~pub.exists => DOMAIN pub.tables = {})
  BY DatabaseAssumption DEF DatabaseAssumption, Init
<1>3. QED
  BY <1>1, <1>2 DEF PublicationInv

\* Once NewConnector has returned, the live publication has every configured
\* table with its filter, for any number of instances of one configuration that
\* create it, replace its list, fail and start again in any order, whether or not
\* the first Info of the others was answered.
THEOREM PublicationIsConfigured == Spec => []PublicationMatches
<1>1. Spec => [](WellFormed /\ PublicationInv)
  BY InitWellFormed, NextWellFormed, InitPublicationInv, PublicationInvKept, PTL DEF Spec
<1>2. PublicationInv => PublicationMatches
  BY DEF PublicationInv, PublicationStep, PublicationMatches, Done
<1>3. QED
  BY <1>1, <1>2, PTL

\* A table leaves the publication, or gets another filter, only if a configuration
\* asks for it, although every SET TABLE replaces the whole list with one that was
\* made from what was read before: for instances of one configuration.
THEOREM NobodyElseChanges ==
  ASSUME \A d \in Deployments : \A i, j \in Instances : d[i] = d[j]
  PROVE  Spec => NoOpinionNoChange
<1> DEFINE Kept ==
      \A t \in DOMAIN pub.tables :
        /\ t \notin DOMAIN pub.tables' =>
             \E i \in Instances : cfg[i].pruneTables /\ t \notin DOMAIN cfg[i].tables
        /\ t \in DOMAIN pub.tables' /\ pub.tables'[t] # pub.tables[t] =>
             \E i \in Instances :
               t \in DOMAIN cfg[i].tables /\ cfg[i].tables[t].filter # Keep
<1>1. Spec => [](WellFormed /\ PublicationInv)
  BY InitWellFormed, NextWellFormed, InitPublicationInv, PublicationInvKept, PTL DEF Spec
<1>2. ASSUME WellFormed, PublicationInv, [Next]_vars PROVE [Kept]_vars
  <2>1. SameConfig
    BY <1>2 DEF SameConfig, WellFormed, TypeOK
  <2>2. CASE pub' = pub
    <3>1. pub.tables' = pub.tables
      BY <2>2
    <3>2. QED
      BY <3>1
  <2>3. CASE pub' # pub
    <3>0. Next
      BY <1>2, <2>3 DEF vars, catalog
    <3>1. CASE ~pub.exists
      BY <1>2, <2>1, <3>1 DEF PublicationInv
    <3>2. ASSUME NEW j \in Instances, SetTable(j) PROVE Kept
      <4>1. pc[j] = "setTable"
        BY <3>2 DEF SetTable, At
      <4>2. pub'.tables = Wanted(pub.tables, cfg[j]) /\ Live(pub.tables)
        BY <1>2, <2>1, <2>3, <3>0, <4>1, PublicationChanges DEF WellFormed, Shape
      <4>3. QED
        BY <4>2, WantedKeeps DEF Opinion
    <3>3. QED
      BY <1>2, <2>3, <3>0, <3>1, <3>2, PublicationSteps
  <2>4. QED
    BY <2>2, <2>3
<1>3. QED
  BY <1>1, <1>2, PTL DEF Spec, NoOpinionNoChange

-----------------------------------------------------------------------------
(* The replica identities. *)

\* Table t has the replica identity that instance i is configured with.
InPlace(i, t) == identity[t] = cfg[i].tables[t].identity

\* Whatever instance i does not list as pending is in place, and everything is
\* once it has gone on.
IdentityStep(i) ==
  /\ pc[i] = "alter" => \A t \in ConfiguredIdentities(i) : t \in pending[i] \/ InPlace(i, t)
  /\ pc[i] \in Holding \cup {"info", "create", "createPublication"}
       /\ cfg[i].createIfNotExists =>
     \A t \in ConfiguredIdentities(i) : InPlace(i, t)

IdentityInv == SameConfig => \A i \in Instances : IdentityStep(i)

\* An identity that is in place stays: instances of one configuration agree.
LEMMA InPlaceKept ==
  ASSUME WellFormed, SameConfig, Next, NEW i \in Instances,
         NEW t \in Tables, InPlace(i, t)
  PROVE  InPlace(i, t)'
<1> USE DEF catalog
<1>0. cfg' = cfg /\ DOMAIN identity = Tables
  BY TablesAppear DEF WellFormed, TypeOK
<1>1. ASSUME NEW j \in Instances, NEW u \in Tables, AlterIdentity(j, u)
      PROVE  InPlace(i, t)'
  <2>1. cfg[j] = cfg[i]
    BY DEF SameConfig
  <2>2. \/ identity' = identity
        \/ identity' = [identity EXCEPT ![u] = cfg[j].tables[u].identity]
    BY <1>1 DEF AlterIdentity
  <2>3. identity'[t] = identity[t] \/ (t = u /\ identity'[t] = cfg[i].tables[t].identity)
    BY <1>0, <2>1, <2>2
  <2>4. QED
    BY <1>0, <2>3 DEF InPlace
<1>2. ASSUME NEW j \in Instances,
             \/ EnsureTable(j) \/ CreateTable(j) \/ ReadIdentities(j)
             \/ LookForPublication(j) \/ CreateInfo(j) \/ CreatePublication(j)
             \/ ReadPublicationTables(j) \/ SetTable(j) \/ Validate(j) \/ Retry(j)
             \/ Restart(j)
      PROVE  identity' = identity
  BY <1>2 DEF EnsureTable, CreateTable, ReadIdentities, LookForPublication, CreateInfo,
     CreatePublication, ReadPublicationTables, SetTable, Validate, Retry, Restart
<1>3. ASSUME NEW u \in Tables, TableAppears(u) PROVE identity' = identity
  BY <1>3 DEF TableAppears
<1>4. CASE identity' = identity
  BY <1>0, <1>4 DEF InPlace
<1>5. QED
  BY <1>1, <1>2, <1>3, <1>4 DEF Next, Step

\* A step of instance i puts what it takes off its list in place.
LEMMA IdentityStepKept ==
  ASSUME WellFormed, SameConfig, Next, NEW i \in Instances, IdentityStep(i),
         Step(i) \/ Restart(i)
  PROVE  IdentityStep(i)'
<1> USE DEF WellFormed, TypeOK, Shape, catalog, locals, At, GoTo, Fails, TryLater, Holding
<1>0. /\ cfg' = cfg /\ ConfiguredIdentities(i)' = ConfiguredIdentities(i)
      /\ \A t \in ConfiguredIdentities(i) : InPlace(i, t) => InPlace(i, t)'
  BY TablesAppear, InPlaceKept, DeploymentAssumption
  DEF ConfiguredIdentities, DeploymentAssumption
<1>1. CASE EnsureTable(i) \/ CreateTable(i) \/ Retry(i) \/ Restart(i)
  <2>1. pc'[i] \in {"heartbeat", "createTable", "identities", "failed"}
    BY <1>1 DEF EnsureTable, CreateTable, Retry, Restart
  <2>2. QED
    BY <2>1 DEF IdentityStep
<1>2. CASE ReadIdentities(i)
  <2>1. \/ pc'[i] = "retry"
        \/ pc'[i] = "alter" /\ pending'[i] = Mismatches(i)
        \/ pc'[i] = "info" /\ Mismatches(i) = {}
        \/ pc'[i] = "info" /\ ~(cfg[i].createIfNotExists /\ ConfiguredIdentities(i) # {})
    BY <1>2 DEF ReadIdentities
  <2>2. \A t \in ConfiguredIdentities(i) : t \in Mismatches(i) \/ InPlace(i, t)
    BY DEF Mismatches, InPlace
  <2>3. QED
    BY <1>0, <2>1, <2>2 DEF IdentityStep
<1>3. ASSUME NEW t \in Tables, AlterIdentity(i, t) PROVE IdentityStep(i)'
  <2>1. CASE pc'[i] = "failed"
    BY <2>1 DEF IdentityStep
  <2>2. CASE t \in exists
    <3>1. /\ pc[i] = "alter" /\ identity'[t] = cfg[i].tables[t].identity
          /\ pending'[i] = pending[i] \ {t}
          /\ pc'[i] = IF pending[i] = {t} THEN "info" ELSE "alter"
      BY <1>3, <2>2 DEF AlterIdentity
    <3>2. InPlace(i, t)'
      BY <1>0, <3>1 DEF InPlace
    <3>3. \A u \in ConfiguredIdentities(i) : u \in pending[i] \ {t} \/ InPlace(i, u)'
      BY <1>0, <3>1, <3>2 DEF IdentityStep
    <3>4. QED
      BY <1>0, <3>1, <3>3 DEF IdentityStep
  <2>3. QED
    BY <1>3, <2>1, <2>2 DEF AlterIdentity
<1>4. CASE \/ LookForPublication(i) \/ CreateInfo(i) \/ CreatePublication(i)
           \/ ReadPublicationTables(i) \/ SetTable(i) \/ Validate(i)
  <2>1. pc[i] \in Holding \cup {"info", "create", "createPublication"} /\ pc'[i] # "alter"
    BY <1>4 DEF LookForPublication, CreateInfo, CreatePublication, AfterCreate,
       ReadPublicationTables, SetTable, Validate
  <2>2. QED
    BY <1>0, <2>1 DEF IdentityStep
<1>5. QED
  BY <1>1, <1>2, <1>3, <1>4 DEF Step

\* IdentityInv is inductive.
LEMMA IdentityInvKept ==
  ASSUME WellFormed, IdentityInv, [Next]_vars
  PROVE  IdentityInv'
<1>1. CASE UNCHANGED vars
  BY <1>1 DEF vars, catalog, locals, IdentityInv, SameConfig, IdentityStep, InPlace,
     ConfiguredIdentities
<1>2. ASSUME Next, SameConfig', NEW i \in Instances PROVE IdentityStep(i)'
  <2>0. cfg' = cfg /\ SameConfig /\ IdentityStep(i)
    BY <1>2, TablesAppear DEF SameConfig, IdentityInv
  <2>1. CASE Step(i) \/ Restart(i)
    BY <1>2, <2>0, <2>1, IdentityStepKept
  <2>2. CASE Local(i)' = Local(i)
    <3>1. /\ ConfiguredIdentities(i)' = ConfiguredIdentities(i)
          /\ \A t \in ConfiguredIdentities(i) : InPlace(i, t) => InPlace(i, t)'
      BY <1>2, <2>0, InPlaceKept, DeploymentAssumption
      DEF ConfiguredIdentities, DeploymentAssumption, WellFormed, TypeOK
    <3>2. pc'[i] = pc[i] /\ pending'[i] = pending[i]
      BY <2>2 DEF Local
    <3>3. QED
      BY <2>0, <3>1, <3>2 DEF IdentityStep
  <2>3. QED
    BY <1>2, <2>1, <2>2, OthersLeave
<1>3. QED
  BY <1>1, <1>2 DEF IdentityInv

\* With createIfNotExists every configured replica identity is in place once
\* NewConnector has returned, for any number of instances of one configuration
\* and any number of attempts that ended between two ALTER TABLEs.
THEOREM IdentitiesAreConfigured == Spec => []IdentitiesMatch
<1>1. Init => IdentityInv
  BY DEF Init, IdentityInv, IdentityStep, Holding
<1>2. Spec => [](WellFormed /\ IdentityInv)
  BY <1>1, InitWellFormed, NextWellFormed, IdentityInvKept, PTL DEF Spec
<1>3. IdentityInv => IdentitiesMatch
  BY DEF IdentityInv, IdentityStep, IdentitiesMatch, InPlace, Done, Holding
<1>4. QED
  BY <1>2, <1>3, PTL

-----------------------------------------------------------------------------
(* What a connector uses is streamed. *)

\* Nothing of configuration c makes table t leave the publication.
Lasts(c, t) == ~c.pruneTables \/ DOMAIN c.tables = {} \/ (c.heartbeat /\ t = Heartbeat)

\* Of the tables in S, those that last for configuration c are published.
StillPublished(c, S) == \A t \in S : Lasts(c, t) => t \in Published

\* The publicationInfo of instance i may be out of date, but only in what was
\* added since, or pruned.
StreamedStep(i) ==
  /\ cfg[i].heartbeat /\ pc[i] \notin {"heartbeat", "createTable", "retry", "failed"} =>
       Heartbeat \in exists
  /\ pc[i] \in Holding => /\ info[i].all => pub.all
                          /\ StillPublished(cfg[i], info[i].tables)
  /\ pc[i] = "done" =>
       /\ snapshotTables[i] \subseteq info[i].tables
       /\ cfg[i].heartbeat => info[i].all \/ Heartbeat \in info[i].tables

StreamedInv == SameConfig => \A i \in Instances : StreamedStep(i)

\* A publication that exists keeps what lasts.
LEMMA PublishedGrows ==
  ASSUME WellFormed, SameConfig, PublicationInv, Next, NEW i \in Instances, pub.exists
  PROVE  pub'.all = pub.all /\ (\A t \in Published : Lasts(cfg[i], t) => t \in Published')
<1>0. exists \subseteq exists' /\ Live(pub.tables) /\ DOMAIN pub = {"exists", "all", "tables"}
  BY TablesAppear DEF WellFormed, Shape
<1>1. CASE pub' = pub
  BY <1>0, <1>1 DEF Published
<1>2. ASSUME NEW j \in Instances, SetTable(j), ~pub.all, pub' # pub
      PROVE  pub'.all = pub.all /\ (\A t \in Published : Lasts(cfg[i], t) => t \in Published')
  <2>1. pc[j] = "setTable" /\ cfg[j] = cfg[i]
    BY <1>2 DEF SetTable, At, SameConfig
  <2>2. /\ pub'.tables = Wanted(pub.tables, cfg[i]) /\ pub'.all = pub.all
        /\ DOMAIN cfg[i].tables # {}
    BY <1>2, <2>1, PublicationChanges DEF PublicationInv, PublicationStep
  <2>3. ASSUME ~cfg[i].pruneTables PROVE DOMAIN pub.tables \subseteq DOMAIN pub'.tables
    BY <1>0, <2>2, <2>3, WantedKeeps
  <2>4. cfg[i].heartbeat => Heartbeat \in DOMAIN pub'.tables
    <3>1. DOMAIN cfg[i].tables \subseteq DOMAIN pub'.tables
      <4>1. DOMAIN Wanted(pub.tables, cfg[i]) = DOMAIN cfg[i].tables \cup
              (IF cfg[i].pruneTables THEN {} ELSE DOMAIN pub.tables)
        BY <1>0, WantedIs
      <4>2. QED
        BY <2>2, <4>1
    <3>2. QED
      <4>1. cfg \in Deployments
        BY DEF WellFormed, TypeOK
      <4>2. cfg[i].heartbeat => Heartbeat \in DOMAIN cfg[i].tables
        BY <2>2, <4>1, DeploymentAssumption
      <4>3. QED
        BY <3>1, <4>2
  <2>5. QED
    BY <1>2, <2>2, <2>3, <2>4 DEF Published, Lasts
<1>3. QED
  BY <1>1, <1>2, PublicationSteps

\* A step of instance i leaves it with an info that lasts.
LEMMA StreamedStepKept ==
  ASSUME WellFormed, SameConfig, PublicationInv, Next, NEW i \in Instances,
         StreamedStep(i), Step(i) \/ Restart(i)
  PROVE  StreamedStep(i)'
<1> USE DEF WellFormed, TypeOK, Shape, catalog, locals, At, GoTo, Fails, TryLater, Holding
<1>0. /\ cfg' = cfg /\ exists \subseteq exists'
      /\ pub.exists => pub'.all = pub.all /\ (\A t \in Published : Lasts(cfg[i], t) => t \in Published')
      /\ pc[i] \in Holding => pub.exists
  BY TablesAppear, PublishedGrows DEF PublicationInv, PublicationStep
<1>1. CASE EnsureTable(i) \/ CreateTable(i)
  <2>1. pc'[i] \in {"createTable", "identities", "failed"}
    BY <1>1 DEF EnsureTable, CreateTable
  <2>2. pc'[i] = "identities" /\ cfg[i].heartbeat => Heartbeat \in exists'
    BY <1>1 DEF EnsureTable, CreateTable
  <2>3. QED
    BY <1>0, <2>1, <2>2 DEF StreamedStep, StillPublished
<1>2. CASE \/ ReadIdentities(i) \/ (\E t \in Tables : AlterIdentity(i, t))
           \/ LookForPublication(i)
  <2>1. /\ pc'[i] \in {"retry", "info", "alter", "failed", "create"}
        /\ pc[i] \in {"identities", "alter", "info"}
    BY <1>2 DEF ReadIdentities, AlterIdentity, LookForPublication
  <2>2. QED
    BY <1>0, <2>1 DEF StreamedStep, StillPublished
<1>3. CASE CreateInfo(i) \/ CreatePublication(i)
  <2>1. /\ pc[i] \in {"create", "createPublication"}
        /\ pc'[i] \in {"createPublication", "failed", "filters", "validate"}
    BY <1>3 DEF CreateInfo, CreatePublication, AfterCreate
  <2>2. pc'[i] \in Holding => info'[i].tables = Published' /\ (info'[i].all => pub'.all)
    <3>1. CASE CreateInfo(i)
      <4>1. Published' = Published /\ pub' = pub
        BY <3>1 DEF CreateInfo, Published
      <4>2. \/ pc'[i] \in {"createPublication", "failed"}
            \/ info'[i] = [tables |-> Published, all |-> pub.all]
        BY <3>1 DEF CreateInfo
      <4>3. QED
        BY <4>1, <4>2
    <3>2. CASE CreatePublication(i)
      <4>1. \/ pc'[i] = "failed"
            \/ /\ info' = [info EXCEPT ![i] = [tables |-> DOMAIN cfg[i].tables, all |-> FALSE]]
               /\ pub' = [exists |-> TRUE, all |-> FALSE,
                          tables |-> [t \in DOMAIN cfg[i].tables |->
                                        Deparse(cfg[i].tables[t].filter)]]
        BY <3>2 DEF CreatePublication
      <4>2. \/ pc'[i] = "failed"
            \/ /\ info'[i].tables = DOMAIN cfg[i].tables /\ ~info'[i].all
               /\ DOMAIN pub'.tables = DOMAIN cfg[i].tables /\ ~pub'.all
        BY <4>1
      <4>3. QED
        BY <4>2 DEF Published
    <3>3. QED
      BY <1>3, <3>1, <3>2
  <2>3. QED
    BY <1>0, <2>1, <2>2 DEF StreamedStep, StillPublished
<1>4. CASE ReadPublicationTables(i) \/ SetTable(i)
  <2>1. /\ pc[i] \in {"filters", "setTable"} /\ pc'[i] \in {"setTable", "validate", "failed"}
        /\ info' = info
    BY <1>4 DEF ReadPublicationTables, SetTable
  <2>2. QED
    BY <1>0, <2>1 DEF StreamedStep, StillPublished
<1>5. CASE Validate(i)
  <2>1. /\ pc[i] = "validate" /\ info' = info
        /\ \/ pc'[i] = "failed"
           \/ /\ pc'[i] = "done" /\ snapshotTables'[i] \subseteq info[i].tables
              /\ cfg[i].heartbeat => info[i].all \/ Heartbeat \in info[i].tables
    BY <1>5 DEF Validate
  <2>2. QED
    BY <1>0, <2>1 DEF StreamedStep, StillPublished
<1>6. CASE Retry(i) \/ Restart(i)
  <2>1. pc'[i] = "heartbeat"
    BY <1>6 DEF Retry, Restart
  <2>2. QED
    BY <2>1 DEF StreamedStep, StillPublished
<1>7. QED
  BY <1>1, <1>2, <1>3, <1>4, <1>5, <1>6 DEF Step

\* StreamedInv is inductive.
LEMMA StreamedInvKept ==
  ASSUME WellFormed, PublicationInv, StreamedInv, [Next]_vars
  PROVE  StreamedInv'
<1>1. CASE UNCHANGED vars
  BY <1>1 DEF vars, catalog, locals, StreamedInv, SameConfig, StreamedStep, StillPublished, Published, Lasts
<1>2. ASSUME Next, SameConfig', NEW i \in Instances PROVE StreamedStep(i)'
  <2>0. cfg' = cfg /\ SameConfig /\ StreamedStep(i)
    BY <1>2, TablesAppear DEF SameConfig, StreamedInv
  <2>1. CASE Step(i) \/ Restart(i)
    BY <1>2, <2>0, <2>1, StreamedStepKept
  <2>2. CASE Local(i)' = Local(i)
    <3>1. pc'[i] = pc[i] /\ info'[i] = info[i] /\ snapshotTables'[i] = snapshotTables[i]
      BY <2>2 DEF Local
    <3>2. /\ exists \subseteq exists' /\ (pc[i] \in Holding => pub.exists)
          /\ pub.exists => /\ pub'.all = pub.all
                           /\ \A t \in Published : Lasts(cfg[i], t) => t \in Published'
      BY <1>2, <2>0, TablesAppear, PublishedGrows DEF PublicationInv, PublicationStep
    <3>3. QED
      BY <2>0, <3>1, <3>2 DEF StreamedStep, StillPublished
  <2>3. QED
    BY <1>2, <2>1, <2>2, OthersLeave
<1>3. QED
  BY <1>1, <1>2 DEF StreamedInv

\* What a started connector writes and reads it also streams, although it decided
\* on a publicationInfo read before the table list was changed: for any number of
\* instances of one configuration.
THEOREM UsedIsStreamed ==
  ASSUME \A d \in Deployments : \A i, j \in Instances : d[i] = d[j]
  PROVE  Spec => []WhatItUsesIsStreamed
<1>1. Init => StreamedInv
  BY DEF Init, StreamedInv, StreamedStep, Holding
<1>2. Spec => [](WellFormed /\ PublicationInv /\ StreamedInv)
  BY <1>1, InitWellFormed, NextWellFormed, InitPublicationInv, PublicationInvKept,
     StreamedInvKept, PTL DEF Spec
<1>3. WellFormed /\ PublicationInv /\ StreamedInv => WhatItUsesIsStreamed
  <2> SUFFICES ASSUME WellFormed, PublicationInv, StreamedInv PROVE WhatItUsesIsStreamed
    OBVIOUS
  <2>0. SameConfig
    BY DEF SameConfig, WellFormed, TypeOK
  <2>1. ASSUME NEW i \in Instances, Done(i), cfg[i].heartbeat PROVE Heartbeat \in Published
    <3>1. StreamedStep(i)
      BY <2>0 DEF StreamedInv
    <3>2. Heartbeat \in exists /\ (pub.all \/ Heartbeat \in info[i].tables)
      BY <2>1, <3>1 DEF StreamedStep, Done, Holding
    <3>3. CASE pub.all
      BY <3>2, <3>3 DEF Published
    <3>4. CASE ~pub.all
      BY <2>1, <3>1, <3>2, <3>4 DEF StreamedStep, StillPublished, Lasts, Done, Holding
    <3>5. QED
      BY <3>3, <3>4
  <2>2. ASSUME \A i \in Instances : ~cfg[i].pruneTables, NEW i \in Instances, Done(i)
        PROVE  snapshotTables[i] \subseteq Published
    BY <2>0, <2>2 DEF StreamedInv, StreamedStep, StillPublished, Done, Holding, Lasts
  <2>3. QED
    BY <2>1, <2>2 DEF WhatItUsesIsStreamed, HeartbeatIsStreamed, SnapshotIsStreamed
<1>4. QED
  BY <1>2, <1>3, PTL
=============================================================================
