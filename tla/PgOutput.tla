------------------------------ MODULE PgOutput ------------------------------
(***************************************************************************)
(* The decoding of pgoutput messages: message.New with the formats of      *)
(* pq/message, the relation cache it fills, and the flag "streaming" that  *)
(* says whether messages carry a transaction id.  Cache and flag belong to *)
(* the stream (handleXLogData, dispatchMessage) and are as old as the last *)
(* messages that set them; the server's idea of them changes with every    *)
(* DDL statement, every rolled-back transaction and every reconnect.       *)
(*                                                                         *)
(* A message is a sequence of fields, each a record with a tag and a       *)
(* value; the encoder is PostgreSQL's and external.  Lengths and counts    *)
(* are abstracted: messages arrive whole.  Reading a field where another   *)
(* one stands gives a value that names no table and no tuple.              *)
(***************************************************************************)
EXTENDS Integers, Sequences, FiniteSets

CONSTANTS
  Tables,      \* OIDs of the published tables
  Schemas,     \* definitions a table can have
  Keys, Texts, \* values of the key column and of the others
  Big,         \* the texts that are stored out of line (TOAST)
  Rejected,    \* the texts the codec of their type does not accept
  Identities,  \* replica identities in use
  Null

ASSUME PgOutputAssumption ==
  /\ IsFiniteSet(Tables) /\ Tables # {}
  /\ \A s \in Schemas : /\ s.columns \in Seq([name : STRING, type : STRING])
                         /\ Len(s.columns) > 0
                         /\ \A i, j \in DOMAIN s.columns :
                              s.columns[i].name = s.columns[j].name => i = j
  /\ Big \cup Rejected \subseteq Texts /\ Null \notin Texts \cup Keys
  /\ Identities \subseteq {"default", "full"}

VARIABLES
  identity,       \* REPLICA IDENTITY of the tables
  skipMapDecode,  \* config.SkipTupleMapDecode
  schema,         \* the definition in force where the walsender decodes
  saved,          \* the definitions before the streamed transaction
  streamed,       \* tables the streamed transaction has changed
  altered,        \* tables it has altered, and holds exclusively
  phase,          \* "idle", "begun", "inBlock" (of the streamed transaction)
  open,           \* a streamed transaction is under way
  sent,           \* tables whose Relation was sent in ordinary transactions
  streamSent,     \* tables whose Relation was sent in the streamed one
  relation,       \* stream.relation, the cache of Relation messages
  streaming,      \* streamTxBuffer.streaming
  truth,          \* the change behind the last message
  got             \* what message.New returned for it

config == <<identity, skipMapDecode>>
server == <<schema, saved, streamed, altered, phase, open, sent, streamSent>>
vars   == <<config, server, relation, streaming, truth, got>>

Nothing == [op |-> "none"]
Failed == [op |-> "error"]
NoRelation == [name |-> "", columns |-> <<>>]

\* The transaction ids of the streamed transaction and of the others, and the
\* zero of a message that was given none.
StreamXid == "streamed"
PlainXid == "plain"
NoXid == "0"
CurrentXid == IF phase = "inBlock" THEN StreamXid ELSE PlainXid

Init ==
  /\ identity \in Identities /\ skipMapDecode \in BOOLEAN
  /\ schema \in [Tables -> Schemas] /\ saved = schema
  /\ streamed = {} /\ altered = {} /\ phase = "idle" /\ open = FALSE
  /\ sent = {} /\ streamSent = {}
  /\ relation = [t \in Tables |-> NoRelation] /\ streaming = FALSE
  /\ truth = Nothing /\ got = Nothing

(***************************************************************************)
(* The encoder (external).  A row is a sequence of values; the first       *)
(* column is the key.                                                      *)
(***************************************************************************)
Rows(t) ==
  LET n == Len(schema[t].columns)
  IN  {r \in [1..n -> Keys \cup Texts \cup {Null}] :
         r[1] \in Keys /\ \A c \in 2..n : r[c] \in Texts \cup {Null}}

Field(tag, value) == [tag |-> tag, value |-> value]
Column(v) == IF v = Null THEN [kind |-> "n", data |-> Null]
                         ELSE [kind |-> "t", data |-> v]
Toasted == [kind |-> "u", data |-> Null]
Tuple(tag, row) == Field(tag, [c \in DOMAIN row |-> Column(row[c])])
KeyOnly(row) == [c \in DOMAIN row |-> IF c = 1 THEN row[c] ELSE Null]

\* The new row of an update: what is out of line and not changed is left out.
NewTuple(old, new) ==
  Field("N", [c \in DOMAIN new |->
                IF old[c] = new[c] /\ new[c] \in Big THEN Toasted
                                                     ELSE Column(new[c])])
OldTuple(row) == IF identity = "full" THEN Tuple("O", row)
                                      ELSE Tuple("K", KeyOnly(row))
OldOfUpdate(old, new) ==
  IF identity = "full" \/ old[1] # new[1] THEN <<OldTuple(old)>> ELSE <<>>

Prefix == IF phase = "inBlock" THEN <<Field("xid", StreamXid)>> ELSE <<>>
Encode(type, t, fields) ==
  <<Field("type", type)>> \o Prefix \o <<Field("oid", t)>> \o fields

(***************************************************************************)
(* The decoder.                                                            *)
(***************************************************************************)
\* Where the fields after the type, and after an expected xid, begin.
Skip(inStream) == IF inStream THEN 3 ELSE 2

\* The xid that decoding finds.  Outside a block an insert, update or delete
\* gets the one of BEGIN instead (stampCommit); a truncate keeps the zero.
XIDOf(data, inStream) == IF inStream THEN data[2].value ELSE NoXid
stampCommit(data, inStream) ==
  IF inStream THEN XIDOf(data, inStream) ELSE PlainXid

IsField(data, at, tags) == at <= Len(data) /\ data[at].tag \in tags

\* relation[msg.OID], or "relation not found".
Known(data, at) ==
  IsField(data, at, {"oid"}) /\ relation[data[at].value] # NoRelation
Rel(data, at) == relation[data[at].value]

\* tuple.NewData: the columns of the tuple with this tag.
IsTuple(data, at, tag) == IsField(data, at, {tag})

\* DecodeWithColumn: names come from the cached relation by position; a
\* column that was not sent has none; a text is decoded by its column's
\* type.  Columns beyond the relation's would be an index out of range.
Named(columns) == {c \in DOMAIN columns : columns[c].kind \in {"n", "t"}}
Decodable(columns, rel) ==
  /\ Len(columns) <= Len(rel.columns)
  /\ \A c \in DOMAIN columns : columns[c].data \notin Rejected
decodeTextColumnData(v, type) == <<type, v>>
DecodeWithColumn(columns, rel) ==
  LET at(name) == CHOOSE c \in Named(columns) : rel.columns[c].name = name
  IN  [name \in {rel.columns[c].name : c \in Named(columns)} |->
         IF columns[at(name)].kind = "n" THEN Null
         ELSE decodeTextColumnData(columns[at(name)].data,
                                   rel.columns[at(name)].type)]

\* Insert, Update and Delete, once their tuples are known.  Without the maps
\* nothing is decoded, so nothing is rejected.
NoTuple == <<>>
RowMessage(op, data, inStream, old, new) ==
  LET rel == Rel(data, Skip(inStream)) IN
  IF skipMapDecode
    THEN [op |-> op, table |-> rel.name, xid |-> stampCommit(data, inStream),
          old |-> old, new |-> new]
  ELSE IF ~Decodable(old, rel) \/ ~Decodable(new, rel)
    THEN Failed
    ELSE [op |-> op, table |-> rel.name, xid |-> stampCommit(data, inStream),
          old |-> old, new |-> new,
          oldDecoded |-> DecodeWithColumn(old, rel),
          newDecoded |-> DecodeWithColumn(new, rel)]

NewInsert(data, inStream) ==
  LET at == Skip(inStream) IN
  IF Known(data, at) /\ IsTuple(data, at + 1, "N")
    THEN RowMessage("insert", data, inStream, NoTuple, data[at + 1].value)
    ELSE Failed

\* The end of Update.decode: columns that were not sent are taken from the
\* old tuple, whichever kind it is.
MergeToast(old, new) ==
  IF old = NoTuple THEN new
  ELSE [c \in DOMAIN new |-> IF new[c].kind = "u" THEN old[c] ELSE new[c]]

NewUpdate(data, inStream) ==
  LET at    == Skip(inStream)
      newAt == IF IsField(data, at + 1, {"K", "O"}) THEN at + 2 ELSE at + 1
      old   == IF newAt = at + 2 THEN data[at + 1].value ELSE NoTuple
  IN  IF Known(data, at) /\ IsTuple(data, newAt, "N")
        THEN RowMessage("update", data, inStream, old,
                        MergeToast(old, data[newAt].value))
        ELSE Failed

NewDelete(data, inStream) ==
  LET at == Skip(inStream) IN
  IF Known(data, at) /\ IsField(data, at + 1, {"K", "O"})
    THEN RowMessage("delete", data, inStream, data[at + 1].value, NoTuple)
    ELSE Failed

NewTruncate(data, inStream) ==
  LET at == Skip(inStream) IN
  IF /\ IsField(data, at, {"oids"})
     /\ \A t \in data[at].value : relation[t] # NoRelation
    THEN [op |-> "truncate", xid |-> XIDOf(data, inStream),
          relations |-> {relation[t] : t \in data[at].value}]
    ELSE Failed

\* message.New for the messages of a change.
New(data, inStream) ==
  CASE data[1].value = "I" -> NewInsert(data, inStream)
    [] data[1].value = "U" -> NewUpdate(data, inStream)
    [] data[1].value = "D" -> NewDelete(data, inStream)
    [] data[1].value = "T" -> NewTruncate(data, inStream)

\* handleXLogData: what cannot be decoded is logged and skipped.
Receive(data, change) ==
  /\ got' = New(data, streaming) /\ truth' = change
  /\ UNCHANGED <<relation, streaming>>

\* Mutant: the table's name is not kept.
CachesColumns(data, inStream) ==
  LET at == Skip(inStream) IN
  IF IsField(data, at, {"oid"}) /\ IsField(data, at + 1, {"relation"})
    THEN [relation EXCEPT ![data[at].value] = [data[at + 1].value EXCEPT !.name = ""]]
    ELSE relation

\* Mutant: a relation that is known is not replaced.
KeepsFirst(data, inStream) ==
  LET at == Skip(inStream) IN
  IF /\ IsField(data, at, {"oid"}) /\ IsField(data, at + 1, {"relation"})
     /\ relation[data[at].value] = NoRelation
    THEN [relation EXCEPT ![data[at].value] = data[at + 1].value]
    ELSE relation

\* message.New for a Relation: the cache holds the latest one of each OID.
NewRelation(data, inStream) ==
  LET at == Skip(inStream) IN
  IF IsField(data, at, {"oid"}) /\ IsField(data, at + 1, {"relation"})
    THEN [relation EXCEPT ![data[at].value] = data[at + 1].value]
    ELSE relation

(***************************************************************************)
(* What the walsender sends, and when (external): a Relation before the    *)
(* first change of a table, again after anything that may have changed its *)
(* definition, and separately for the streamed transaction.  A table that  *)
(* the streamed transaction altered is locked until it ends.               *)
(***************************************************************************)
Usable(t) ==
  \/ phase = "inBlock"
  \/ phase = "begun" /\ t \notin altered
Announced == IF phase = "inBlock" THEN streamSent ELSE sent

Forget == truth' = Nothing /\ got' = Nothing

SendRelation(t) ==
  /\ Usable(t) /\ t \notin Announced
  /\ relation' = NewRelation(Encode("R", t, <<Field("relation", schema[t])>>),
                             streaming)
  /\ IF phase = "inBlock"
       THEN streamSent' = streamSent \cup {t} /\ UNCHANGED sent
       ELSE sent' = sent \cup {t} /\ UNCHANGED streamSent
  /\ Forget
  /\ UNCHANGED <<config, schema, saved, streamed, altered, phase, open, streaming>>

\* A change of table t: the message, and the change it stands for.
Sends(t, type, fields, change) ==
  /\ Usable(t) /\ t \in Announced
  /\ Receive(Encode(type, t, fields), change)
  /\ streamed' = IF phase = "inBlock" THEN streamed \cup {t} ELSE streamed
  /\ UNCHANGED <<config, schema, saved, altered, phase, open, sent, streamSent>>

Change(op, t, old, new) ==
  [op |-> op, table |-> schema[t].name, columns |-> schema[t].columns,
   xid |-> CurrentXid, old |-> old, new |-> new]

Insert(t) == \E r \in Rows(t) :
  Sends(t, "I", <<Tuple("N", r)>>, Change("insert", t, NoTuple, r))

Update(t) == \E old, new \in Rows(t) :
  Sends(t, "U", OldOfUpdate(old, new) \o <<NewTuple(old, new)>>,
        Change("update", t, old, new))

Delete(t) == \E r \in Rows(t) :
  Sends(t, "D", <<OldTuple(r)>>, Change("delete", t, r, NoTuple))

Truncate ==
  /\ \A t \in Tables : Usable(t) /\ t \in Announced
  /\ Receive(<<Field("type", "T")>> \o Prefix \o <<Field("oids", Tables)>>,
             [op |-> "truncate", xid |-> CurrentXid,
              relations |-> {schema[t] : t \in Tables}])
  /\ streamed' = IF phase = "inBlock" THEN Tables ELSE streamed
  /\ UNCHANGED <<config, schema, saved, altered, phase, open, sent, streamSent>>

\* ALTER TABLE, in either kind of transaction: sent Relations are void.
Alter(t) ==
  /\ Usable(t)
  /\ phase = "begun" => t \notin streamed
  /\ \E s \in Schemas \ {schema[t]} : schema' = [schema EXCEPT ![t] = s]
  /\ saved' = IF phase = "begun" THEN [saved EXCEPT ![t] = schema'[t]] ELSE saved
  /\ altered' = IF phase = "inBlock" THEN altered \cup {t} ELSE altered
  /\ streamed' = IF phase = "inBlock" THEN streamed \cup {t} ELSE streamed
  /\ sent' = sent \ {t} /\ streamSent' = streamSent \ {t}
  /\ Forget
  /\ UNCHANGED <<config, phase, open, relation, streaming>>

\* BEGIN and COMMIT of an ordinary transaction.
Begin ==
  /\ phase = "idle" /\ phase' = "begun" /\ Forget
  /\ UNCHANGED <<config, schema, saved, streamed, altered, open, sent, streamSent,
                 relation, streaming>>

Commit ==
  /\ phase = "begun" /\ phase' = "idle" /\ Forget
  /\ UNCHANGED <<config, schema, saved, streamed, altered, open, sent, streamSent,
                 relation, streaming>>

\* STREAM START and STREAM STOP around a block of the streamed transaction.
StreamStart ==
  /\ phase = "idle" /\ phase' = "inBlock" /\ open' = TRUE
  /\ saved' = IF open THEN saved ELSE schema
  /\ streaming' = TRUE
  /\ Forget
  /\ UNCHANGED <<config, schema, streamed, altered, sent, streamSent, relation>>

StreamStop ==
  /\ phase = "inBlock" /\ phase' = "idle"
  /\ streaming' = FALSE
  /\ Forget
  /\ UNCHANGED <<config, schema, saved, streamed, altered, open, sent, streamSent,
                 relation>>

StreamEnds ==
  /\ phase = "idle" /\ open
  /\ open' = FALSE /\ streamed' = {} /\ altered' = {} /\ streamSent' = {}
  /\ streaming' = FALSE
  /\ Forget
  /\ UNCHANGED <<config, phase, relation>>

\* What the transaction announced stays announced; what it altered does not.
StreamCommit ==
  /\ StreamEnds
  /\ saved' = schema
  /\ sent' = sent \cup (streamSent \ altered)
  /\ UNCHANGED schema

\* A rollback takes the transaction's DDL with it, not the cache.
StreamAbort ==
  /\ StreamEnds
  /\ schema' = saved
  /\ sent' = sent \ altered
  /\ UNCHANGED saved

\* Mutant: the buffers survive the reconnect.
ReconnectKeepsBuffers ==
  /\ phase' = "idle" /\ open' = FALSE /\ schema' = saved
  /\ streamed' = {} /\ altered' = {} /\ sent' = {} /\ streamSent' = {}
  /\ Forget
  /\ UNCHANGED <<config, saved, relation, streaming>>

\* The connection is lost anywhere; sink begins with new buffers, and the
\* cache stays.  The new walsender has sent nothing, and starts at a point
\* where the streamed transaction has not altered anything.
Reconnect ==
  /\ phase' = "idle" /\ open' = FALSE /\ schema' = saved
  /\ streamed' = {} /\ altered' = {} /\ sent' = {} /\ streamSent' = {}
  /\ streaming' = FALSE
  /\ Forget
  /\ UNCHANGED <<config, saved, relation>>

Next ==
  \/ Begin \/ Commit \/ StreamStart \/ StreamStop \/ StreamCommit \/ StreamAbort
  \/ Reconnect \/ Truncate
  \/ \E t \in Tables : SendRelation(t) \/ Insert(t) \/ Update(t) \/ Delete(t) \/ Alter(t)

Spec == Init /\ [][Next]_vars

-----------------------------------------------------------------------------
\* The parts of the state are what they should be; the cache holds only
\* definitions that some table had.
TypeOK ==
  /\ identity \in Identities /\ skipMapDecode \in BOOLEAN
  /\ schema \in [Tables -> Schemas] /\ saved \in [Tables -> Schemas]
  /\ altered \subseteq streamed /\ streamed \subseteq Tables
  /\ phase \in {"idle", "begun", "inBlock"} /\ open \in BOOLEAN
  /\ sent \subseteq Tables /\ streamSent \subseteq Tables
  /\ relation \in [Tables -> Schemas \cup {NoRelation}]
  /\ streaming \in BOOLEAN

\* Every change the server sends becomes a message of that kind, for the
\* table's current name and with the transaction it belongs to, after any
\* DDL, rollback of DDL, interleaving of blocks, or reconnect.  A truncate
\* says its transaction only inside a block: outside it has no xid at all,
\* and never another transaction's.
ChangeIsDecoded ==
  truth # Nothing =>
    /\ got.op = truth.op
    /\ truth.op # "truncate" => got.table = truth.table /\ got.xid = truth.xid
    /\ truth.op = "truncate" =>
         /\ got.relations = truth.relations
         /\ got.xid = IF truth.xid = StreamXid THEN truth.xid ELSE NoXid

\* The typed values of a row, by the names its columns have now.
RowOf(row, columns) ==
  [name \in {columns[c].name : c \in DOMAIN row} |->
     LET c == CHOOSE c \in DOMAIN row : columns[c].name = name
     IN  IF row[c] = Null THEN Null ELSE <<columns[c].type, row[c]>>]

IsRow == truth.op \in {"insert", "update", "delete"} /\ got # Failed
HasMaps == IsRow /\ ~skipMapDecode

\* With REPLICA IDENTITY FULL the listener gets whole rows: NewDecoded and
\* OldDecoded have every column with its value and its type.
FullRows ==
  (HasMaps /\ identity = "full") =>
    /\ got.newDecoded = RowOf(truth.new, truth.columns)
    /\ got.oldDecoded = RowOf(truth.old, truth.columns)

\* The raw tuples say the same, for a consumer that skips the maps: a column
\* of the new row is the row's value unless it was not sent.
TuplesMatch ==
  (IsRow /\ (identity = "full" \/ got.old = NoTuple)) =>
    \A c \in DOMAIN truth.new :
      got.new[c] \in {Column(truth.new[c])}
                     \cup (IF identity = "full" THEN {} ELSE {Toasted})

\* NewDecoded never gives a column a value the row does not have; a column
\* whose value is not known is left out.
NoWrongValue ==
  HasMaps =>
    LET row == RowOf(truth.new, truth.columns) IN
    \A name \in DOMAIN got.newDecoded :
      name \in DOMAIN row /\ got.newDecoded[name] = row[name]

\* The same, as long as updates leave the key alone or the identity is FULL.
NoWrongValueKeyKept ==
  (identity = "full" \/ (IsRow /\ got.old = NoTuple)) => NoWrongValue

\* A row reaches the listener as the transaction wrote it, as tuple and as map,
\* whatever DDL, rollbacks and reconnects the relation cache has been through.
RowsMatch == FullRows /\ TuplesMatch /\ NoWrongValueKeyKept
=============================================================================
