--------------------------- MODULE PgOutputProofs ---------------------------
(***************************************************************************)
(* Proofs about PgOutput: for every set of tables, definitions and values, *)
(* a change that the server sends is decoded with the definition its table *)
(* has at that point of the WAL.  The argument is an invariant of the      *)
(* relation cache: the entry of every table that the walsender regards as  *)
(* announced is the definition in force, and the flag "streaming" says     *)
(* whether messages carry a transaction id.  From it the fields of a       *)
(* message are read where they stand, and the decoded maps follow.         *)
(***************************************************************************)
EXTENDS PgOutput, SequenceTheorems, TLAPS

\* An announced table is cached as it is now.  What is sent for ordinary
\* transactions is never a definition that the streamed transaction made, and
\* a table that it left alone has the same definition if it is rolled back.
CacheInv ==
  /\ streaming <=> phase = "inBlock"
  /\ sent \cap altered = {}
  /\ \A t \in Tables \ altered : saved[t] = schema[t]
  /\ \A t \in sent \cup streamSent : relation[t] = schema[t]

DecodeInv == TypeOK /\ CacheInv

-----------------------------------------------------------------------------
(***************************************************************************)
(* Messages: where the decoder finds the fields that the encoder wrote.    *)
(***************************************************************************)

\* A definition has columns, so it is never mistaken for a missing relation.
LEMMA SchemaIsKnown ==
  ASSUME NEW s \in Schemas
  PROVE  /\ s # NoRelation
         /\ Len(s.columns) \in Nat \ {0}
         /\ DOMAIN s.columns = 1..Len(s.columns)
<1>1. s.columns \in Seq([name : STRING, type : STRING]) /\ Len(s.columns) > 0
  BY PgOutputAssumption
<1>2. Len(s.columns) \in Nat /\ DOMAIN s.columns = 1..Len(s.columns)
  BY <1>1, LenProperties
<1>3. NoRelation.columns = <<>>
  BY DEF NoRelation
<1>4. Len(NoRelation.columns) = 0
  BY <1>3, EmptySeq
<1> QED
  BY <1>1, <1>2, <1>4

\* The k-th field after the one at position at.
After(d, at, k) == d[at + k]

\* A message of one field.
LEMMA Single ==
  ASSUME NEW S, NEW f \in S
  PROVE  <<f>> \in Seq(S) /\ Len(<<f>>) = 1 /\ <<f>>[1] = f
OBVIOUS

\* The message of a change, field by field: the type, the xid inside a block,
\* the table and the rest.
LEMMA EncodeFields ==
  ASSUME NEW type, NEW t, NEW F, NEW fields \in Seq(F),
         streaming <=> phase = "inBlock"
  PROVE  LET d == Encode(type, t, fields)
             at == Skip(streaming)
         IN  /\ at \in {2, 3}
             /\ Len(d) = at + Len(fields)
             /\ d[1] = Field("type", type)
             /\ streaming => d[2] = Field("xid", StreamXid)
             /\ d[at] = Field("oid", t)
             /\ \A k \in 1..Len(fields) : After(d, at, k) = fields[k]
<1> DEFINE ty == Field("type", type)
           xi == Field("xid", StreamXid)
           oi == Field("oid", t)
           S == F \cup {ty, xi, oi}
<1>1. ty \in S /\ xi \in S /\ oi \in S /\ F \subseteq S
  OBVIOUS
<1>2. Encode(type, t, fields) = ((<<ty>> \o Prefix) \o <<oi>>) \o fields
  BY DEF Encode
<1> HIDE DEF S, ty, xi, oi
<1>3. fields \in Seq(S)
  BY <1>1, SeqMonotonic
<1>4. Len(fields) \in Nat
  BY LenProperties
<1>5. CASE streaming
  <2>1. Prefix = <<xi>>
    BY <1>5 DEF Prefix, xi
  <2>2. /\ <<ty>> \o <<xi>> \in Seq(S) /\ Len(<<ty>> \o <<xi>>) = 2
        /\ (<<ty>> \o <<xi>>)[1] = ty /\ (<<ty>> \o <<xi>>)[2] = xi
    BY <1>1
  <2> DEFINE p == <<ty>> \o <<xi>>
             one == <<oi>>
             q == p \o one
  <2>3. one \in Seq(S) /\ Len(one) = 1 /\ one[1] = oi
    BY <1>1, Single
  <2> HIDE DEF p, one
  <2>4. p \in Seq(S) /\ Len(p) = 2 /\ p[1] = ty /\ p[2] = xi
    BY <2>2 DEF p
  <2>5. /\ p \o one \in Seq(S)
        /\ Len(p \o one) = 2 + Len(one)
        /\ \A i \in 1..2 : (p \o one)[i] = p[i]
        /\ \A k \in 1..Len(one) : (p \o one)[2 + k] = one[k]
    <3>1. /\ p \o one \in Seq(S)
          /\ Len(p \o one) = Len(p) + Len(one)
          /\ \A i \in 1 .. Len(p) + Len(one) :
               (p \o one)[i] = IF i <= Len(p) THEN p[i] ELSE one[i - Len(p)]
      BY <2>3, <2>4, ConcatProperties
    <3> QED
      BY <2>3, <2>4, <3>1
  <2> HIDE DEF q
  <2>6. q \in Seq(S) /\ Len(q) = 3 /\ q[1] = ty /\ q[2] = xi /\ q[3] = oi
    BY <2>3, <2>4, <2>5 DEF q
  <2>7. /\ q \o fields \in Seq(S)
        /\ Len(q \o fields) = 3 + Len(fields)
        /\ \A i \in 1..3 : (q \o fields)[i] = q[i]
        /\ \A k \in 1..Len(fields) : (q \o fields)[3 + k] = fields[k]
    <3>1. /\ q \o fields \in Seq(S)
          /\ Len(q \o fields) = Len(q) + Len(fields)
          /\ \A i \in 1 .. Len(q) + Len(fields) :
               (q \o fields)[i] = IF i <= Len(q) THEN q[i] ELSE fields[i - Len(q)]
      BY <1>3, <2>6, ConcatProperties
    <3> QED
      BY <1>4, <2>6, <3>1
  <2>8. Encode(type, t, fields) = q \o fields
    BY <1>2, <2>1 DEF p, one, q
  <2>9. Skip(streaming) = 3
    BY <1>5 DEF Skip
  <2> QED
    <3>1. /\ Len(q \o fields) = 3 + Len(fields)
          /\ (q \o fields)[1] = ty /\ (q \o fields)[2] = xi /\ (q \o fields)[3] = oi
          /\ \A k \in 1..Len(fields) : (q \o fields)[3 + k] = fields[k]
      BY <2>6, <2>7
    <3> DEFINE d == q \o fields
    <3> HIDE DEF d
    <3>2. /\ Encode(type, t, fields) = d
          /\ Len(d) = 3 + Len(fields) /\ d[1] = ty /\ d[2] = xi /\ d[3] = oi
          /\ \A k \in 1..Len(fields) : d[3 + k] = fields[k]
      BY <2>8, <3>1 DEF d
    <3> QED
      BY <2>9, <3>2 DEF ty, xi, oi, After
<1>6. CASE ~streaming
  <2>1. Prefix = <<>>
    BY <1>6 DEF Prefix
  <2>2. /\ (<<ty>> \o <<>>) \o <<oi>> \in Seq(S) /\ Len((<<ty>> \o <<>>) \o <<oi>>) = 2
        /\ ((<<ty>> \o <<>>) \o <<oi>>)[1] = ty /\ ((<<ty>> \o <<>>) \o <<oi>>)[2] = oi
    BY <1>1
  <2> DEFINE q == (<<ty>> \o <<>>) \o <<oi>>
  <2> HIDE DEF q
  <2>3. q \in Seq(S) /\ Len(q) = 2 /\ q[1] = ty /\ q[2] = oi
    BY <2>2 DEF q
  <2>4. /\ q \o fields \in Seq(S)
        /\ Len(q \o fields) = 2 + Len(fields)
        /\ \A i \in 1..2 : (q \o fields)[i] = q[i]
        /\ \A k \in 1..Len(fields) : (q \o fields)[2 + k] = fields[k]
    <3>1. /\ q \o fields \in Seq(S)
          /\ Len(q \o fields) = Len(q) + Len(fields)
          /\ \A i \in 1 .. Len(q) + Len(fields) :
               (q \o fields)[i] = IF i <= Len(q) THEN q[i] ELSE fields[i - Len(q)]
      BY <1>3, <2>3, ConcatProperties
    <3> QED
      BY <1>4, <2>3, <3>1
  <2>5. Encode(type, t, fields) = q \o fields
    BY <1>2, <2>1 DEF q
  <2>6. Skip(streaming) = 2
    BY <1>6 DEF Skip
  <2> QED
    BY <1>4, <1>6, <2>3, <2>4, <2>5, <2>6 DEF ty, xi, oi, After
<1> QED
  BY <1>5, <1>6

\* The message of a TRUNCATE.
LEMMA TruncateFields ==
  ASSUME streaming <=> phase = "inBlock"
  PROVE  LET d == <<Field("type", "T")>> \o Prefix \o <<Field("oids", Tables)>>
         IN  /\ Len(d) = Skip(streaming)
             /\ d[1] = Field("type", "T")
             /\ streaming => d[2] = Field("xid", StreamXid)
             /\ d[Skip(streaming)] = Field("oids", Tables)
<1> DEFINE ty == Field("type", "T")
           xi == Field("xid", StreamXid)
           oi == Field("oids", Tables)
<1> HIDE DEF ty, xi, oi
<1>1. CASE streaming
  <2>1. Prefix = <<xi>>
    BY <1>1 DEF Prefix, xi
  <2>2. LET d == (<<ty>> \o <<xi>>) \o <<oi>>
        IN  Len(d) = 3 /\ d[1] = ty /\ d[2] = xi /\ d[3] = oi
    OBVIOUS
  <2> QED
    BY <1>1, <2>1, <2>2 DEF Skip, ty, xi, oi
<1>2. CASE ~streaming
  <2>1. Prefix = <<>>
    BY <1>2 DEF Prefix
  <2>2. LET d == (<<ty>> \o <<>>) \o <<oi>>
        IN  Len(d) = 2 /\ d[1] = ty /\ d[2] = oi
    OBVIOUS
  <2> QED
    BY <1>2, <2>1, <2>2 DEF Skip, ty, xi, oi
<1> QED
  BY <1>1, <1>2

-----------------------------------------------------------------------------
(***************************************************************************)
(* Rows: what the maps hold for columns with distinct names.               *)
(***************************************************************************)

\* The length of a tuple is its number of columns.
LEMMA TupleLength ==
  ASSUME NEW n \in Nat, NEW f, f = [c \in 1..n |-> f[c]]
  PROVE  Len(f) = n
<1>1. f \in Seq({f[c] : c \in 1..n})
  OBVIOUS
<1>2. Len(f) \in Nat /\ DOMAIN f = 1..Len(f)
  BY <1>1, LenProperties
<1>3. DOMAIN f = 1..n
  OBVIOUS
<1> QED
  BY <1>2, <1>3

\* A column that was sent says whether it is NULL, and its value.
LEMMA ColumnIs ==
  ASSUME NEW v
  PROVE  /\ Column(v).kind = IF v = Null THEN "n" ELSE "t"
         /\ Column(v).data = v
<1>1. CASE v = Null
  BY <1>1 DEF Column
<1>2. CASE v # Null
  BY <1>2 DEF Column
<1> QED
  BY <1>1, <1>2

\* DecodeWithColumn gives each column that was sent its own value.
LEMMA Decoded ==
  ASSUME NEW s \in Schemas, NEW cols, DOMAIN cols \subseteq 1..Len(s.columns)
  PROVE  LET m == DecodeWithColumn(cols, s) IN
         /\ DOMAIN m = {s.columns[c].name : c \in Named(cols)}
         /\ \A c \in Named(cols) :
              m[s.columns[c].name] = IF cols[c].kind = "n" THEN Null
                                     ELSE <<s.columns[c].type, cols[c].data>>
<1> DEFINE at(name) == CHOOSE c \in Named(cols) : s.columns[c].name = name
<1>1. ASSUME NEW c \in Named(cols)
      PROVE  at(s.columns[c].name) = c
  <2>1. /\ at(s.columns[c].name) \in Named(cols)
        /\ s.columns[at(s.columns[c].name)].name = s.columns[c].name
    OBVIOUS
  <2>2. Named(cols) \subseteq DOMAIN s.columns
    BY SchemaIsKnown DEF Named
  <2> HIDE DEF at
  <2>3. \A i, j \in DOMAIN s.columns : s.columns[i].name = s.columns[j].name => i = j
    BY PgOutputAssumption
  <2> QED
    BY <2>1, <2>2, <2>3
<1>2. DecodeWithColumn(cols, s) =
        [name \in {s.columns[c].name : c \in Named(cols)} |->
           IF cols[at(name)].kind = "n" THEN Null
           ELSE <<s.columns[at(name)].type, cols[at(name)].data>>]
  BY DEF DecodeWithColumn, decodeTextColumnData
<1> HIDE DEF at
<1> QED
  BY <1>1, <1>2

\* RowOf does the same for a row.
LEMMA RowValues ==
  ASSUME NEW s \in Schemas, NEW row, DOMAIN row \subseteq 1..Len(s.columns)
  PROVE  LET m == RowOf(row, s.columns) IN
         /\ DOMAIN m = {s.columns[c].name : c \in DOMAIN row}
         /\ \A c \in DOMAIN row :
              m[s.columns[c].name] = IF row[c] = Null THEN Null
                                     ELSE <<s.columns[c].type, row[c]>>
<1> DEFINE at(name) == CHOOSE c \in DOMAIN row : s.columns[c].name = name
<1>1. ASSUME NEW c \in DOMAIN row
      PROVE  at(s.columns[c].name) = c
  <2>1. /\ at(s.columns[c].name) \in DOMAIN row
        /\ s.columns[at(s.columns[c].name)].name = s.columns[c].name
    OBVIOUS
  <2>2. DOMAIN row \subseteq DOMAIN s.columns
    BY SchemaIsKnown
  <2> HIDE DEF at
  <2>3. \A i, j \in DOMAIN s.columns : s.columns[i].name = s.columns[j].name => i = j
    BY PgOutputAssumption
  <2> QED
    BY <2>1, <2>2, <2>3
<1>2. RowOf(row, s.columns) =
        [name \in {s.columns[c].name : c \in DOMAIN row} |->
           IF row[at(name)] = Null THEN Null
           ELSE <<s.columns[at(name)].type, row[at(name)]>>]
  BY DEF RowOf
<1> HIDE DEF at
<1> QED
  BY <1>1, <1>2

\* A tuple that was sent whole decodes to the row.
LEMMA WholeRow ==
  ASSUME NEW s \in Schemas, NEW cols, NEW row, DOMAIN row \subseteq 1..Len(s.columns),
         DOMAIN cols = DOMAIN row, \A c \in DOMAIN row : cols[c] = Column(row[c])
  PROVE  DecodeWithColumn(cols, s) = RowOf(row, s.columns)
<1> DEFINE m == DecodeWithColumn(cols, s)
           r == RowOf(row, s.columns)
<1>0. /\ m = [name \in DOMAIN m |-> m[name]]
      /\ r = [name \in DOMAIN r |-> r[name]]
  BY DEF DecodeWithColumn, RowOf
<1>1. \A c \in DOMAIN row : /\ cols[c].kind = IF row[c] = Null THEN "n" ELSE "t"
                            /\ cols[c].data = row[c]
  <2> TAKE c \in DOMAIN row
  <2>1. cols[c] = Column(row[c])
    OBVIOUS
  <2>2. /\ Column(row[c]).kind = IF row[c] = Null THEN "n" ELSE "t"
        /\ Column(row[c]).data = row[c]
    BY ColumnIs
  <2> QED
    BY <2>1, <2>2
<1>7. Named(cols) = DOMAIN row
  BY <1>1 DEF Named
<1>2. /\ DOMAIN m = {s.columns[c].name : c \in Named(cols)}
      /\ \A c \in Named(cols) :
           m[s.columns[c].name] = IF cols[c].kind = "n" THEN Null
                                  ELSE <<s.columns[c].type, cols[c].data>>
  BY Decoded
<1>3. /\ DOMAIN r = {s.columns[c].name : c \in DOMAIN row}
      /\ \A c \in DOMAIN row :
           r[s.columns[c].name] = IF row[c] = Null THEN Null
                                  ELSE <<s.columns[c].type, row[c]>>
  BY RowValues
<1> HIDE DEF m, r
<1>4. \A c \in DOMAIN row : m[s.columns[c].name] = r[s.columns[c].name]
  <2> TAKE c \in DOMAIN row
  <2>1. m[s.columns[c].name] = IF cols[c].kind = "n" THEN Null
                               ELSE <<s.columns[c].type, cols[c].data>>
    BY <1>7, <1>2
  <2>2. r[s.columns[c].name] = IF row[c] = Null THEN Null
                               ELSE <<s.columns[c].type, row[c]>>
    BY <1>3
  <2> QED
    BY <1>1, <2>1, <2>2
<1>5. DOMAIN m = DOMAIN r /\ \A name \in DOMAIN r : m[name] = r[name]
  BY <1>7, <1>2, <1>3, <1>4
<1>6. m = r
  BY <1>0, <1>5
<1> QED
  BY <1>6 DEF m, r

\* A tuple of which columns may be missing decodes to a part of the row.
LEMMA PartialRow ==
  ASSUME NEW s \in Schemas, NEW cols, NEW row, DOMAIN row \subseteq 1..Len(s.columns),
         DOMAIN cols = DOMAIN row,
         \A c \in DOMAIN row : cols[c] \in {Column(row[c]), Toasted}
  PROVE  LET m == DecodeWithColumn(cols, s)
             r == RowOf(row, s.columns)
         IN  \A name \in DOMAIN m : name \in DOMAIN r /\ m[name] = r[name]
<1> DEFINE m == DecodeWithColumn(cols, s)
           r == RowOf(row, s.columns)
<1>0. /\ Named(cols) \subseteq DOMAIN row
      /\ \A c \in Named(cols) : cols[c] = Column(row[c])
  BY DEF Named, Toasted
<1>1. \A c \in Named(cols) : /\ cols[c].kind = IF row[c] = Null THEN "n" ELSE "t"
                             /\ cols[c].data = row[c]
  <2> TAKE c \in Named(cols)
  <2>1. cols[c] = Column(row[c])
    BY <1>0
  <2>2. /\ Column(row[c]).kind = IF row[c] = Null THEN "n" ELSE "t"
        /\ Column(row[c]).data = row[c]
    BY ColumnIs
  <2> QED
    BY <2>1, <2>2
<1>2. /\ DOMAIN m = {s.columns[c].name : c \in Named(cols)}
      /\ \A c \in Named(cols) :
           m[s.columns[c].name] = IF cols[c].kind = "n" THEN Null
                                  ELSE <<s.columns[c].type, cols[c].data>>
  BY Decoded
<1>3. /\ DOMAIN r = {s.columns[c].name : c \in DOMAIN row}
      /\ \A c \in DOMAIN row :
           r[s.columns[c].name] = IF row[c] = Null THEN Null
                                  ELSE <<s.columns[c].type, row[c]>>
  BY RowValues
<1> HIDE DEF m, r
<1>4. \A c \in Named(cols) : m[s.columns[c].name] = r[s.columns[c].name]
  BY <1>0, <1>1, <1>2, <1>3
<1>5. \A name \in DOMAIN m : name \in DOMAIN r /\ m[name] = r[name]
  BY <1>0, <1>2, <1>3, <1>4
<1> QED
  BY <1>5 DEF m, r

-----------------------------------------------------------------------------
(***************************************************************************)
(* The invariant of the cache.                                             *)
(***************************************************************************)

\* A connection begins with an empty cache and nothing announced.
LEMMA InitDecode == Init => DecodeInv
BY DEF Init, DecodeInv, TypeOK, CacheInv

\* A Relation message is understood and replaces the entry of its table.
LEMMA RelationIsCached ==
  ASSUME DecodeInv, NEW t \in Tables
  PROVE  NewRelation(Encode("R", t, <<Field("relation", schema[t])>>), streaming)
           = [relation EXCEPT ![t] = schema[t]]
<1> DEFINE f  == Field("relation", schema[t])
           fs == <<f>>
           d  == Encode("R", t, fs)
           at == Skip(streaming)
<1>1. fs \in Seq({f}) /\ Len(fs) = 1 /\ fs[1] = f
  BY Single
<1>2. streaming <=> phase = "inBlock"
  BY DEF DecodeInv, CacheInv
<1> HIDE DEF fs
<1>3. /\ at \in {2, 3}
      /\ Len(d) = at + Len(fs)
      /\ d[at] = Field("oid", t)
      /\ \A k \in 1..Len(fs) : After(d, at, k) = fs[k]
  BY <1>1, <1>2, EncodeFields
<1> HIDE DEF d, at
<1>4. /\ at \in {2, 3} /\ Len(d) = at + 1
      /\ d[at].tag = "oid" /\ d[at].value = t
      /\ d[at + 1].tag = "relation" /\ d[at + 1].value = schema[t]
  <2>1. at \in {2, 3} /\ Len(d) = at + 1 /\ d[at] = Field("oid", t) /\ d[at + 1] = f
    <3> HIDE DEF f
    <3> QED
      BY <1>1, <1>3 DEF After
  <2> QED
    BY <2>1 DEF Field
<1>5. NewRelation(d, streaming) = [relation EXCEPT ![t] = schema[t]]
  BY <1>4 DEF NewRelation, IsField, at
<1> QED
  BY <1>5 DEF d, fs

\* Every step keeps the invariant.
LEMMA NextDecode == DecodeInv /\ [Next]_vars => DecodeInv'
<1> SUFFICES ASSUME DecodeInv, [Next]_vars
             PROVE  DecodeInv'
  OBVIOUS
<1> USE DEF DecodeInv, TypeOK, CacheInv
<1>1. CASE Begin
  BY <1>1 DEF Begin, config
<1>2. CASE Commit
  BY <1>2 DEF Commit, config
<1>3. CASE StreamStart
  BY <1>3 DEF StreamStart, config
<1>4. CASE StreamStop
  BY <1>4 DEF StreamStop, config
<1>5. CASE StreamCommit
  BY <1>5 DEF StreamCommit, StreamEnds, config
<1>6. CASE StreamAbort
  BY <1>6 DEF StreamAbort, StreamEnds, config
<1>7. CASE Reconnect
  BY <1>7 DEF Reconnect, config
<1>8. CASE Truncate
  BY <1>8 DEF Truncate, Receive, config
<1>9. ASSUME NEW t \in Tables, SendRelation(t)
      PROVE  DecodeInv'
  <2>1. relation' = [relation EXCEPT ![t] = schema[t]]
    BY <1>9, RelationIsCached DEF SendRelation
  <2>2. CASE phase = "inBlock"
    BY <1>9, <2>1, <2>2 DEF SendRelation, config
  <2>3. CASE phase # "inBlock"
    <3>1. t \notin altered
      BY <1>9, <2>3 DEF SendRelation, Usable
    <3> QED
      BY <1>9, <2>1, <2>3, <3>1 DEF SendRelation, config
  <2> QED
    BY <2>2, <2>3
<1>10. ASSUME NEW t \in Tables, Insert(t) \/ Update(t) \/ Delete(t)
       PROVE  DecodeInv'
  <2>1. PICK type, fields, change : Sends(t, type, fields, change)
    BY <1>10 DEF Insert, Update, Delete
  <2> QED
    BY <2>1 DEF Sends, Receive, config
<1>11. ASSUME NEW t \in Tables, Alter(t)
       PROVE  DecodeInv'
  <2>1. PICK s \in Schemas : schema' = [schema EXCEPT ![t] = s]
    BY <1>11 DEF Alter
  <2>2. CASE phase = "inBlock"
    BY <1>11, <2>1, <2>2 DEF Alter, config
  <2>3. CASE phase # "inBlock"
    <3>1. phase = "begun" /\ t \notin altered
      BY <1>11, <2>3 DEF Alter, Usable
    <3> QED
      BY <1>11, <2>1, <3>1 DEF Alter, config
  <2> QED
    BY <2>2, <2>3
<1>12. CASE UNCHANGED vars
  BY <1>12 DEF vars, config, server
<1> QED
  BY <1>1, <1>2, <1>3, <1>4, <1>5, <1>6, <1>7, <1>8, <1>9, <1>10, <1>11, <1>12 DEF Next

\* The flag "streaming" always says whether the walsender is inside a block,
\* and the cached Relation of every table it regards as announced is the
\* table's definition at that point, after any DDL, rollback or reconnect.
THEOREM CacheIsCurrent == Spec => []CacheInv
<1>1. DecodeInv /\ [Next]_vars => DecodeInv'
  BY NextDecode
<1>2. DecodeInv => CacheInv
  BY DEF DecodeInv
<1> QED
  BY InitDecode, <1>1, <1>2, PTL DEF Spec

\* The variables keep their types: the relation cache never holds anything
\* but a definition that was sent for that table, or nothing.
THEOREM TypeCorrect == Spec => []TypeOK
<1>1. DecodeInv /\ [Next]_vars => DecodeInv'
  BY NextDecode
<1>2. DecodeInv => TypeOK
  BY DEF DecodeInv
<1> QED
  BY InitDecode, <1>1, <1>2, PTL DEF Spec

-----------------------------------------------------------------------------
(***************************************************************************)
(* What message.New returns for a change, in terms of the table's          *)
(* definition instead of the cache and the fields.                         *)
(***************************************************************************)
Said(op, t, o, n) ==
  LET s == schema[t] IN
  IF skipMapDecode
    THEN [op |-> op, table |-> s.name, xid |-> CurrentXid, old |-> o, new |-> n]
  ELSE IF ~Decodable(o, s) \/ ~Decodable(n, s)
    THEN Failed
    ELSE [op |-> op, table |-> s.name, xid |-> CurrentXid, old |-> o, new |-> n,
          oldDecoded |-> DecodeWithColumn(o, s),
          newDecoded |-> DecodeWithColumn(n, s)]

\* The head of a change's message is understood: the table is known and the
\* transaction is the one the change belongs to.
LEMMA HeadIsRead ==
  ASSUME DecodeInv, NEW t \in Tables, t \in Announced,
         NEW type, NEW F, NEW fields \in Seq(F)
  PROVE  LET d == Encode(type, t, fields)
             at == Skip(streaming)
         IN  /\ at \in {2, 3}
             /\ Len(d) = at + Len(fields)
             /\ d[1].value = type
             /\ Known(d, at)
             /\ \A op, o, n : RowMessage(op, d, streaming, o, n) = Said(op, t, o, n)
             /\ \A k \in 1..Len(fields) : After(d, at, k) = fields[k]
<1> DEFINE d == Encode(type, t, fields)
           at == Skip(streaming)
<1>1. streaming <=> phase = "inBlock"
  BY DEF DecodeInv, CacheInv
<1>2. /\ at \in {2, 3}
      /\ Len(d) = at + Len(fields)
      /\ d[1] = Field("type", type)
      /\ streaming => d[2] = Field("xid", StreamXid)
      /\ d[at] = Field("oid", t)
      /\ \A k \in 1..Len(fields) : After(d, at, k) = fields[k]
  BY <1>1, EncodeFields
<1>3. relation[t] = schema[t] /\ schema[t] \in Schemas
  BY DEF DecodeInv, CacheInv, TypeOK, Announced
<1>4. Len(fields) \in Nat
  BY LenProperties
<1> HIDE DEF d
<1>5. d[at].tag = "oid" /\ d[at].value = t
  BY <1>2 DEF Field
<1>6. Known(d, at)
  <2>1. at <= Len(d)
    BY <1>2, <1>4
  <2>2. relation[t] # NoRelation
    BY <1>3, SchemaIsKnown
  <2> QED
    BY <1>5, <2>1, <2>2 DEF Known, IsField
<1>7. stampCommit(d, streaming) = CurrentXid
  BY <1>1, <1>2 DEF stampCommit, XIDOf, CurrentXid, Field
<1>8. Rel(d, Skip(streaming)) = schema[t]
  BY <1>3, <1>5 DEF Rel
<1>9. \A op, o, n : RowMessage(op, d, streaming, o, n) = Said(op, t, o, n)
  BY <1>7, <1>8 DEF RowMessage, Said
<1>10. d[1].value = type
  BY <1>2 DEF Field
<1> QED
  BY <1>2, <1>6, <1>9, <1>10 DEF d

\* Insert.decode finds the new row where it stands.
LEMMA InsertIsRead ==
  ASSUME DecodeInv, NEW t \in Tables, t \in Announced, NEW r
  PROVE  New(Encode("I", t, <<Tuple("N", r)>>), streaming)
           = Said("insert", t, NoTuple, Tuple("N", r).value)
<1> DEFINE f  == Tuple("N", r)
           fs == <<f>>
           d  == Encode("I", t, fs)
           at == Skip(streaming)
<1>1. fs \in Seq({f}) /\ Len(fs) = 1 /\ fs[1] = f
  BY Single
<1>2. f.tag = "N"
  BY DEF Tuple, Field
<1> HIDE DEF f, fs
<1>3. /\ at \in {2, 3}
      /\ Len(d) = at + Len(fs)
      /\ d[1].value = "I"
      /\ Known(d, at)
      /\ \A op, o, n : RowMessage(op, d, streaming, o, n) = Said(op, t, o, n)
      /\ \A k \in 1..Len(fs) : After(d, at, k) = fs[k]
  BY <1>1, HeadIsRead
<1> HIDE DEF d, at
<1>4. d[at + 1] = f /\ at + 1 <= Len(d)
  BY <1>1, <1>3 DEF After
<1>5. NewInsert(d, streaming) = Said("insert", t, NoTuple, f.value)
  BY <1>2, <1>3, <1>4 DEF NewInsert, IsTuple, IsField, at
<1>6. New(d, streaming) = NewInsert(d, streaming)
  BY <1>3 DEF New
<1> QED
  BY <1>5, <1>6 DEF d, fs, f

\* Delete.decode finds the old row or key where it stands.
LEMMA DeleteIsRead ==
  ASSUME DecodeInv, NEW t \in Tables, t \in Announced, NEW r
  PROVE  New(Encode("D", t, <<OldTuple(r)>>), streaming)
           = Said("delete", t, OldTuple(r).value, NoTuple)
<1> DEFINE f  == OldTuple(r)
           fs == <<f>>
           d  == Encode("D", t, fs)
           at == Skip(streaming)
<1>1. fs \in Seq({f}) /\ Len(fs) = 1 /\ fs[1] = f
  BY Single
<1>2. f.tag \in {"K", "O"}
  BY DEF OldTuple, Tuple, Field
<1> HIDE DEF f, fs
<1>3. /\ at \in {2, 3}
      /\ Len(d) = at + Len(fs)
      /\ d[1].value = "D"
      /\ Known(d, at)
      /\ \A op, o, n : RowMessage(op, d, streaming, o, n) = Said(op, t, o, n)
      /\ \A k \in 1..Len(fs) : After(d, at, k) = fs[k]
  BY <1>1, HeadIsRead
<1> HIDE DEF d, at
<1>4. d[at + 1] = f /\ at + 1 <= Len(d)
  BY <1>1, <1>3 DEF After
<1>5. NewDelete(d, streaming) = Said("delete", t, f.value, NoTuple)
  BY <1>2, <1>3, <1>4 DEF NewDelete, IsField, at
<1>6. New(d, streaming) = NewDelete(d, streaming)
  BY <1>3 DEF New
<1> QED
  BY <1>5, <1>6 DEF d, fs, f

\* An update with the old row or key before the new row.
LEMMA UpdateIsRead ==
  ASSUME DecodeInv, NEW t \in Tables, t \in Announced, NEW old, NEW new
  PROVE  /\ OldOfUpdate(old, new) \in {<<OldTuple(old)>>, <<>>}
         /\ OldOfUpdate(old, new) = <<OldTuple(old)>> =>
              New(Encode("U", t, OldOfUpdate(old, new) \o <<NewTuple(old, new)>>), streaming)
                = Said("update", t, OldTuple(old).value,
                       MergeToast(OldTuple(old).value, NewTuple(old, new).value))
         /\ OldOfUpdate(old, new) = <<>> =>
              New(Encode("U", t, OldOfUpdate(old, new) \o <<NewTuple(old, new)>>), streaming)
                = Said("update", t, NoTuple, NewTuple(old, new).value)
<1> DEFINE g  == OldTuple(old)
           f  == NewTuple(old, new)
           at == Skip(streaming)
<1>1. f.tag = "N" /\ g.tag \in {"K", "O"}
  BY DEF NewTuple, OldTuple, Tuple, Field
<1>2. OldOfUpdate(old, new) \in {<<g>>, <<>>}
  BY DEF OldOfUpdate
<1> HIDE DEF f, g
<1>3. ASSUME OldOfUpdate(old, new) = <<g>>
      PROVE  New(Encode("U", t, OldOfUpdate(old, new) \o <<f>>), streaming)
               = Said("update", t, g.value, MergeToast(g.value, f.value))
  <2> DEFINE fs == OldOfUpdate(old, new) \o <<f>>
             d  == Encode("U", t, fs)
  <2>1. fs \in Seq({f, g}) /\ Len(fs) = 2 /\ fs[1] = g /\ fs[2] = f
    BY <1>3
  <2> HIDE DEF fs
  <2>2. /\ at \in {2, 3}
        /\ Len(d) = at + Len(fs)
        /\ d[1].value = "U"
        /\ Known(d, at)
        /\ \A op, o, n : RowMessage(op, d, streaming, o, n) = Said(op, t, o, n)
        /\ \A k \in 1..Len(fs) : After(d, at, k) = fs[k]
    BY <2>1, HeadIsRead
  <2> HIDE DEF d, at
  <2>3. d[at + 1] = g /\ d[at + 2] = f /\ at + 2 <= Len(d) /\ at + 1 <= Len(d)
    BY <2>1, <2>2 DEF After
  <2>4. NewUpdate(d, streaming) = Said("update", t, g.value, MergeToast(g.value, f.value))
    BY <1>1, <2>2, <2>3 DEF NewUpdate, IsTuple, IsField, at
  <2>5. New(d, streaming) = NewUpdate(d, streaming)
    BY <2>2 DEF New
  <2> QED
    BY <2>4, <2>5 DEF d, fs
<1>4. ASSUME OldOfUpdate(old, new) = <<>>
      PROVE  New(Encode("U", t, OldOfUpdate(old, new) \o <<f>>), streaming)
               = Said("update", t, NoTuple, f.value)
  <2> DEFINE fs == OldOfUpdate(old, new) \o <<f>>
             d  == Encode("U", t, fs)
  <2>1. fs \in Seq({f}) /\ Len(fs) = 1 /\ fs[1] = f
    BY <1>4
  <2> HIDE DEF fs
  <2>2. /\ at \in {2, 3}
        /\ Len(d) = at + Len(fs)
        /\ d[1].value = "U"
        /\ Known(d, at)
        /\ \A op, o, n : RowMessage(op, d, streaming, o, n) = Said(op, t, o, n)
        /\ \A k \in 1..Len(fs) : After(d, at, k) = fs[k]
    BY <2>1, HeadIsRead
  <2> HIDE DEF d, at
  <2>3. d[at + 1] = f /\ at + 1 <= Len(d)
    BY <2>1, <2>2 DEF After
  <2>4. ~IsField(d, at + 1, {"K", "O"}) /\ IsTuple(d, at + 1, "N")
    BY <1>1, <2>3 DEF IsField, IsTuple
  <2>5. MergeToast(NoTuple, f.value) = f.value
    BY DEF MergeToast
  <2>6. at + 1 # at + 2
    BY <2>2
  <2>7. NewUpdate(d, streaming) = Said("update", t, NoTuple, f.value)
    BY <2>2, <2>3, <2>4, <2>5, <2>6 DEF NewUpdate, at
  <2>8. New(d, streaming) = NewUpdate(d, streaming)
    BY <2>2 DEF New
  <2> QED
    BY <2>7, <2>8 DEF d, fs
<1> QED
  BY <1>2, <1>3, <1>4 DEF f, g

\* A message that could be decoded names the change, its table and its
\* transaction; it can be when its values are accepted or maps are not built.
LEMMA SaidIsDecoded ==
  ASSUME TypeOK, NEW t \in Tables, NEW op \in {"insert", "update", "delete"},
         NEW old, NEW new, NEW o, NEW n,
         got' = Said(op, t, o, n), truth' = Change(op, t, old, new),
         Len(o) <= Len(schema[t].columns), Len(n) <= Len(schema[t].columns),
         skipMapDecode \/ Rejected = {}
  PROVE  ChangeIsDecoded'
<1>1. (Decodable(o, schema[t]) /\ Decodable(n, schema[t])) \/ skipMapDecode
  BY DEF Decodable
<1>2. /\ got'.op = op /\ got'.xid = CurrentXid /\ got'.table = schema[t].name
  <2>1. CASE skipMapDecode
    BY <2>1 DEF Said
  <2>2. CASE ~skipMapDecode
    BY <1>1, <2>2 DEF Said
  <2> QED
    BY <2>1, <2>2
<1>3. /\ truth'.op = op /\ truth'.xid = CurrentXid /\ truth'.table = schema[t].name
      /\ op # "truncate"
  BY DEF Change
<1> QED
  BY <1>2, <1>3 DEF ChangeIsDecoded

\* A message whose tuples say what the rows are matches the change.
LEMMA SaidMatches ==
  ASSUME TypeOK, NEW t \in Tables, NEW op \in {"insert", "update", "delete"},
         NEW old, NEW new, NEW o, NEW n,
         got' = Said(op, t, o, n), truth' = Change(op, t, old, new),
         UNCHANGED config,
         DOMAIN new \subseteq 1..Len(schema[t].columns),
         DOMAIN old \subseteq 1..Len(schema[t].columns),
         DOMAIN n = DOMAIN new,
         o = NoTuple => \A c \in DOMAIN new : n[c] \in {Column(new[c]), Toasted},
         identity = "full" => /\ \A c \in DOMAIN new : n[c] = Column(new[c])
                              /\ DOMAIN o = DOMAIN old
                              /\ \A c \in DOMAIN old : o[c] = Column(old[c])
  PROVE  RowsMatch'
<1> DEFINE s == schema[t]
<1>1. s \in Schemas
  BY DEF TypeOK
<1>2. /\ truth'.op = op /\ truth'.columns = s.columns
      /\ truth'.old = old /\ truth'.new = new
  BY DEF Change
<1>3. identity' = identity /\ skipMapDecode' = skipMapDecode
  BY DEF config
<1>4. ASSUME IsRow'
      PROVE  got'.old = o /\ got'.new = n
  <2>1. got' # Failed
    BY <1>4 DEF IsRow
  <2>2. CASE skipMapDecode
    BY <2>2 DEF Said
  <2>3. CASE ~skipMapDecode
    BY <2>1, <2>3 DEF Said
  <2> QED
    BY <2>2, <2>3
<1>5. ASSUME HasMaps'
      PROVE  /\ got'.oldDecoded = DecodeWithColumn(o, s)
             /\ got'.newDecoded = DecodeWithColumn(n, s)
  <2>1. got' # Failed /\ ~skipMapDecode
    BY <1>3, <1>5 DEF HasMaps, IsRow
  <2> QED
    BY <2>1 DEF Said
<1>6. HasMaps' => IsRow'
  BY DEF HasMaps
<1> HIDE DEF s
<1>7. FullRows'
  <2>1. SUFFICES ASSUME HasMaps', identity = "full"
                 PROVE  /\ got'.newDecoded = RowOf(new, s.columns)
                        /\ got'.oldDecoded = RowOf(old, s.columns)
    BY <1>2, <1>3 DEF FullRows, RowOf
  <2>2. DecodeWithColumn(n, s) = RowOf(new, s.columns)
    BY <1>1, <2>1, WholeRow DEF s
  <2>3. DecodeWithColumn(o, s) = RowOf(old, s.columns)
    BY <1>1, <2>1, WholeRow DEF s
  <2> QED
    BY <1>5, <2>1, <2>2, <2>3
<1>8. TuplesMatch'
  BY <1>2, <1>3, <1>4 DEF TuplesMatch
<1>9. NoWrongValueKeyKept'
  <2>1. SUFFICES ASSUME HasMaps', identity = "full" \/ o = NoTuple
                 PROVE  \A name \in DOMAIN got'.newDecoded :
                          /\ name \in DOMAIN RowOf(new, s.columns)
                          /\ got'.newDecoded[name] = RowOf(new, s.columns)[name]
    BY <1>2, <1>3, <1>4, <1>6 DEF NoWrongValueKeyKept, NoWrongValue
  <2>2. \A c \in DOMAIN new : n[c] \in {Column(new[c]), Toasted}
    BY <2>1
  <2>3. \A name \in DOMAIN DecodeWithColumn(n, s) :
          /\ name \in DOMAIN RowOf(new, s.columns)
          /\ DecodeWithColumn(n, s)[name] = RowOf(new, s.columns)[name]
    BY <1>1, <2>2, PartialRow DEF s
  <2> QED
    BY <1>5, <2>1, <2>3
<1> QED
  BY <1>7, <1>8, <1>9 DEF RowsMatch

-----------------------------------------------------------------------------
(***************************************************************************)
(* Each change, as it is sent and as it is received.                       *)
(***************************************************************************)

\* What holds of the message after every step.
Right == ((skipMapDecode \/ Rejected = {}) => ChangeIsDecoded) /\ RowsMatch

\* A row has the columns of its table.
LEMMA RowShape ==
  ASSUME TypeOK, NEW t \in Tables, NEW r \in Rows(t)
  PROVE  /\ Len(schema[t].columns) \in Nat \ {0}
         /\ DOMAIN r = 1..Len(schema[t].columns)
BY SchemaIsKnown DEF TypeOK, Rows

\* No tuple has no columns.
LEMMA NoTupleShape == DOMAIN NoTuple = {} /\ Len(NoTuple) = 0
BY DEF NoTuple

\* Each column of a tuple is the row's.
LEMMA TupleColumns ==
  ASSUME NEW tag, NEW r
  PROVE  \A c \in DOMAIN r : Tuple(tag, r).value[c] = Column(r[c])
BY DEF Tuple, Field

\* A tuple of a row has a column for each of the row's, and so has the key.
LEMMA TupleShape ==
  ASSUME NEW n \in Nat \ {0}, NEW tag, NEW r, DOMAIN r = 1..n
  PROVE  LET v == Tuple(tag, r).value
             k == Tuple(tag, KeyOnly(r)).value
         IN  /\ DOMAIN v = 1..n /\ Len(v) = n /\ v # NoTuple
             /\ DOMAIN k = 1..n /\ Len(k) = n /\ k # NoTuple
<1> DEFINE v == [c \in 1..n |-> Column(r[c])]
           k == [c \in 1..n |-> Column(IF c = 1 THEN r[c] ELSE Null)]
<1>1. Tuple(tag, r).value = v
  BY DEF Tuple, Field
<1>2. Tuple(tag, KeyOnly(r)).value = k
  BY DEF Tuple, Field, KeyOnly
<1>3. v = [c \in 1..n |-> v[c]] /\ k = [c \in 1..n |-> k[c]]
  OBVIOUS
<1>4. DOMAIN v = 1..n /\ DOMAIN k = 1..n
  OBVIOUS
<1> HIDE DEF v, k
<1>5. Len(v) = n /\ Len(k) = n
  BY <1>3, TupleLength
<1>6. v # NoTuple /\ k # NoTuple
  BY <1>4, NoTupleShape
<1> QED
  BY <1>1, <1>2, <1>4, <1>5, <1>6

\* The old row of an update or delete: whole, or the key alone.
LEMMA OldShape ==
  ASSUME NEW n \in Nat \ {0}, NEW r, DOMAIN r = 1..n
  PROVE  LET v == OldTuple(r).value
         IN  /\ DOMAIN v = 1..n /\ Len(v) = n /\ v # NoTuple
             /\ identity = "full" => \A c \in 1..n : v[c] = Column(r[c])
<1>1. CASE identity = "full"
  <2>1. OldTuple(r) = Tuple("O", r)
    BY <1>1 DEF OldTuple
  <2> QED
    BY <2>1, TupleShape, TupleColumns
<1>2. CASE identity # "full"
  <2>1. OldTuple(r) = Tuple("K", KeyOnly(r))
    BY <1>2 DEF OldTuple
  <2> QED
    BY <1>2, <2>1, TupleShape
<1> QED
  BY <1>1, <1>2

\* The new row of an update, before and after Update.decode has filled in
\* what was not sent.
LEMMA NewShape ==
  ASSUME NEW n \in Nat \ {0}, NEW old, NEW new, DOMAIN old = 1..n, DOMAIN new = 1..n
  PROVE  LET v == NewTuple(old, new).value
             m == MergeToast(OldTuple(old).value, v)
         IN  /\ DOMAIN v = 1..n /\ Len(v) = n
             /\ \A c \in 1..n : v[c] \in {Column(new[c]), Toasted}
             /\ DOMAIN m = 1..n /\ Len(m) = n
             /\ identity = "full" => \A c \in 1..n : m[c] = Column(new[c])
<1> DEFINE v == NewTuple(old, new).value
           o == OldTuple(old).value
           m == MergeToast(o, v)
<1>1. v = [c \in 1..n |-> IF old[c] = new[c] /\ new[c] \in Big THEN Toasted
                                                              ELSE Column(new[c])]
  BY DEF NewTuple, Field
<1>2. /\ DOMAIN o = 1..n /\ o # NoTuple
      /\ identity = "full" => \A c \in 1..n : o[c] = Column(old[c])
  BY OldShape
<1> HIDE DEF v, o
<1>3. /\ DOMAIN v = 1..n /\ v = [c \in 1..n |-> v[c]]
      /\ \A c \in 1..n : v[c] = Column(new[c]) \/ (v[c] = Toasted /\ old[c] = new[c])
  BY <1>1
<1>4. m = [c \in 1..n |-> IF v[c].kind = "u" THEN o[c] ELSE v[c]]
  BY <1>2, <1>3 DEF MergeToast
<1> HIDE DEF m
<1>5. DOMAIN m = 1..n /\ m = [c \in 1..n |-> m[c]]
  BY <1>4
<1>6. Len(v) = n /\ Len(m) = n
  BY <1>3, <1>5, TupleLength
<1>7. ASSUME identity = "full", NEW c \in 1..n
      PROVE  m[c] = Column(new[c])
  <2>1. CASE v[c] = Column(new[c])
    <3>1. v[c].kind # "u"
      BY <2>1, ColumnIs
    <3> QED
      BY <1>4, <2>1, <3>1
  <2>2. CASE v[c] = Toasted /\ old[c] = new[c]
    <3>1. v[c].kind = "u"
      BY <2>2 DEF Toasted
    <3> QED
      BY <1>2, <1>4, <1>7, <2>2, <3>1
  <2> QED
    BY <1>3, <2>1, <2>2
<1> QED
  BY <1>3, <1>5, <1>6, <1>7 DEF v, o, m

\* An inserted row is received as it was written.
LEMMA InsertRight ==
  ASSUME DecodeInv, NEW t \in Tables, Insert(t)
  PROVE  Right'
<1>1. PICK r \in Rows(t) :
        Sends(t, "I", <<Tuple("N", r)>>, Change("insert", t, NoTuple, r))
  BY DEF Insert
<1> DEFINE n == Len(schema[t].columns)
           v == Tuple("N", r).value
<1>2. n \in Nat \ {0} /\ DOMAIN r = 1..n
  BY RowShape DEF DecodeInv
<1>3. /\ got' = Said("insert", t, NoTuple, v) /\ UNCHANGED config
      /\ truth' = Change("insert", t, NoTuple, r)
  BY <1>1, InsertIsRead DEF Sends, Receive
<1> HIDE DEF n
<1>4. DOMAIN v = 1..n /\ Len(v) = n /\ \A c \in 1..n : v[c] = Column(r[c])
  BY <1>2, TupleShape, TupleColumns
<1> HIDE DEF v
<1>5. ChangeIsDecoded' \/ ~(skipMapDecode \/ Rejected = {})
  BY <1>2, <1>3, <1>4, NoTupleShape, SaidIsDecoded DEF DecodeInv, n
<1>6. RowsMatch'
  BY <1>2, <1>3, <1>4, NoTupleShape, SaidMatches DEF DecodeInv, n
<1> QED
  BY <1>3, <1>5, <1>6 DEF Right, config

\* A deleted row is received as its replica identity says.
LEMMA DeleteRight ==
  ASSUME DecodeInv, NEW t \in Tables, Delete(t)
  PROVE  Right'
<1>1. PICK r \in Rows(t) :
        Sends(t, "D", <<OldTuple(r)>>, Change("delete", t, r, NoTuple))
  BY DEF Delete
<1> DEFINE n == Len(schema[t].columns)
           v == OldTuple(r).value
<1>2. n \in Nat \ {0} /\ DOMAIN r = 1..n
  BY RowShape DEF DecodeInv
<1>3. /\ got' = Said("delete", t, v, NoTuple) /\ UNCHANGED config
      /\ truth' = Change("delete", t, r, NoTuple)
  BY <1>1, DeleteIsRead DEF Sends, Receive
<1> HIDE DEF n
<1>4. /\ DOMAIN v = 1..n /\ Len(v) = n
      /\ identity = "full" => \A c \in 1..n : v[c] = Column(r[c])
  BY <1>2, OldShape
<1> HIDE DEF v
<1>5. ChangeIsDecoded' \/ ~(skipMapDecode \/ Rejected = {})
  BY <1>2, <1>3, <1>4, NoTupleShape, SaidIsDecoded DEF DecodeInv, n
<1>6. RowsMatch'
  BY <1>2, <1>3, <1>4, NoTupleShape, SaidMatches DEF DecodeInv, n
<1> QED
  BY <1>3, <1>5, <1>6 DEF Right, config

\* An updated row is received as it was written, except for what was not sent
\* and, when the key changed, for what is filled in from the old key.
LEMMA UpdateRight ==
  ASSUME DecodeInv, NEW t \in Tables, Update(t)
  PROVE  Right'
<1>1. PICK old \in Rows(t), new \in Rows(t) :
        Sends(t, "U", OldOfUpdate(old, new) \o <<NewTuple(old, new)>>,
              Change("update", t, old, new))
  BY DEF Update
<1> DEFINE n == Len(schema[t].columns)
           o == OldTuple(old).value
           v == NewTuple(old, new).value
           m == MergeToast(o, v)
           ms == Encode("U", t, OldOfUpdate(old, new) \o <<NewTuple(old, new)>>)
<1>2. n \in Nat \ {0} /\ DOMAIN old = 1..n /\ DOMAIN new = 1..n
  BY RowShape DEF DecodeInv
<1>3. /\ got' = New(ms, streaming) /\ UNCHANGED config
      /\ truth' = Change("update", t, old, new) /\ t \in Announced
  BY <1>1 DEF Sends, Receive
<1>4. /\ OldOfUpdate(old, new) \in {<<OldTuple(old)>>, <<>>}
      /\ OldOfUpdate(old, new) = <<OldTuple(old)>> =>
           New(ms, streaming) = Said("update", t, o, m)
      /\ OldOfUpdate(old, new) = <<>> =>
           New(ms, streaming) = Said("update", t, NoTuple, v)
  BY <1>3, UpdateIsRead
<1>5. identity = "full" => OldOfUpdate(old, new) = <<OldTuple(old)>>
  BY DEF OldOfUpdate
<1>6. <<OldTuple(old)>> # <<>>
  OBVIOUS
<1> HIDE DEF n, ms
<1>7. /\ DOMAIN v = 1..n /\ Len(v) = n
      /\ \A c \in 1..n : v[c] \in {Column(new[c]), Toasted}
      /\ DOMAIN m = 1..n /\ Len(m) = n
      /\ identity = "full" => \A c \in 1..n : m[c] = Column(new[c])
  BY <1>2, NewShape
<1>8. /\ DOMAIN o = 1..n /\ Len(o) = n /\ o # NoTuple
      /\ identity = "full" => \A c \in 1..n : o[c] = Column(old[c])
  BY <1>2, OldShape
<1> HIDE DEF o, v, m
<1>9. CASE OldOfUpdate(old, new) = <<OldTuple(old)>>
  <2>1. got' = Said("update", t, o, m)
    BY <1>3, <1>4, <1>9
  <2>2. ChangeIsDecoded' \/ ~(skipMapDecode \/ Rejected = {})
    BY <1>2, <1>3, <1>7, <1>8, <2>1, SaidIsDecoded DEF DecodeInv, n
  <2>3. RowsMatch'
    BY <1>2, <1>3, <1>7, <1>8, <2>1, SaidMatches DEF DecodeInv, n
  <2> QED
    BY <1>3, <2>2, <2>3 DEF Right, config
<1>10. CASE OldOfUpdate(old, new) = <<>>
  <2>1. got' = Said("update", t, NoTuple, v) /\ identity # "full"
    BY <1>3, <1>4, <1>5, <1>6, <1>10
  <2>2. ChangeIsDecoded' \/ ~(skipMapDecode \/ Rejected = {})
    BY <1>2, <1>3, <1>7, NoTupleShape, <2>1, SaidIsDecoded DEF DecodeInv, n
  <2>3. RowsMatch'
    BY <1>2, <1>3, <1>7, NoTupleShape, <2>1, SaidMatches DEF DecodeInv, n
  <2> QED
    BY <1>3, <2>2, <2>3 DEF Right, config
<1> QED
  BY <1>4, <1>9, <1>10

\* A TRUNCATE names the tables as they are defined now.
LEMMA TruncateRight ==
  ASSUME DecodeInv, Truncate
  PROVE  Right'
<1> DEFINE d  == <<Field("type", "T")>> \o Prefix \o <<Field("oids", Tables)>>
           at == Skip(streaming)
<1>1. streaming <=> phase = "inBlock"
  BY DEF DecodeInv, CacheInv
<1>2. /\ Len(d) = at /\ d[1] = Field("type", "T")
      /\ streaming => d[2] = Field("xid", StreamXid)
      /\ d[at] = Field("oids", Tables)
  BY <1>1, TruncateFields
<1>3. \A t \in Tables : relation[t] = schema[t] /\ relation[t] # NoRelation
  BY SchemaIsKnown DEF Truncate, Announced, DecodeInv, CacheInv, TypeOK
<1>4. /\ got' = New(d, streaming)
      /\ truth' = [op |-> "truncate", xid |-> CurrentXid,
                   relations |-> {schema[t] : t \in Tables}]
  BY DEF Truncate, Receive
<1> HIDE DEF d
<1>5. at \in {2, 3}
  BY DEF Skip
<1> DEFINE xid == IF streaming THEN StreamXid ELSE NoXid
<1>6. /\ d[1].value = "T" /\ d[at].tag = "oids" /\ d[at].value = Tables
      /\ XIDOf(d, streaming) = xid
  BY <1>1, <1>2 DEF Field, XIDOf
<1>7. New(d, streaming) = NewTruncate(d, streaming)
  BY <1>6 DEF New
<1>8. {relation[t] : t \in Tables} = {schema[t] : t \in Tables}
  BY <1>3
<1> HIDE DEF xid
<1>9. NewTruncate(d, streaming) = [op |-> "truncate", xid |-> xid,
                                   relations |-> {schema[t] : t \in Tables}]
  <2>1. IsField(d, at, {"oids"})
    BY <1>2, <1>5, <1>6 DEF IsField
  <2>2. \A t \in d[at].value : relation[t] # NoRelation
    BY <1>3, <1>6
  <2>3. {relation[t] : t \in d[at].value} = {schema[t] : t \in Tables}
    BY <1>6, <1>8
  <2> QED
    BY <1>6, <2>1, <2>2, <2>3 DEF NewTruncate
<1>10. /\ got'.op = "truncate" /\ truth'.op = "truncate"
       /\ got'.xid = xid /\ truth'.xid = CurrentXid
       /\ got'.relations = truth'.relations
  BY <1>4, <1>7, <1>9
<1>11. ChangeIsDecoded'
  <2>1. xid = IF CurrentXid = StreamXid THEN CurrentXid ELSE NoXid
    BY <1>1 DEF xid, CurrentXid, StreamXid, PlainXid
  <2> QED
    BY <1>10, <2>1 DEF ChangeIsDecoded
<1>12. ~IsRow'
  BY <1>10 DEF IsRow
<1>13. RowsMatch'
  BY <1>12 DEF RowsMatch, FullRows, TuplesMatch, NoWrongValueKeyKept, NoWrongValue, HasMaps
<1> QED
  BY <1>11, <1>13 DEF Right

\* Nothing is claimed while there is no change.
LEMMA NothingRight ==
  ASSUME truth = Nothing
  PROVE  Right
<1>1. truth.op = "none"
  BY DEF Nothing
<1>2. ~IsRow
  BY <1>1 DEF IsRow
<1> QED
  BY <1>2 DEF Right, ChangeIsDecoded, RowsMatch, FullRows, TuplesMatch,
              NoWrongValueKeyKept, NoWrongValue, HasMaps

\* The same after a step that forgets the change.
LEMMA ForgetRight ==
  ASSUME Forget
  PROVE  Right'
<1>1. truth' = Nothing
  BY DEF Forget
<1>2. truth'.op = "none"
  BY <1>1 DEF Nothing
<1>3. ~IsRow'
  BY <1>2 DEF IsRow
<1> QED
  BY <1>1, <1>3 DEF Right, ChangeIsDecoded, RowsMatch, FullRows, TuplesMatch,
                    NoWrongValueKeyKept, NoWrongValue, HasMaps

\* After every step the message is right for the change behind it.
LEMMA NextRight == DecodeInv /\ Right /\ [Next]_vars => Right'
<1> SUFFICES ASSUME DecodeInv, Right, [Next]_vars
             PROVE  Right'
  OBVIOUS
<1>1. CASE Begin \/ Commit \/ StreamStart \/ StreamStop \/ StreamCommit \/ StreamAbort
           \/ Reconnect
  BY <1>1, ForgetRight DEF Begin, Commit, StreamStart, StreamStop, StreamCommit,
                           StreamAbort, StreamEnds, Reconnect
<1>2. CASE Truncate
  BY <1>2, TruncateRight
<1>3. ASSUME NEW t \in Tables,
             SendRelation(t) \/ Insert(t) \/ Update(t) \/ Delete(t) \/ Alter(t)
      PROVE  Right'
  <2>1. CASE SendRelation(t) \/ Alter(t)
    BY <2>1, ForgetRight DEF SendRelation, Alter
  <2>2. CASE Insert(t) \/ Update(t) \/ Delete(t)
    BY <2>2, InsertRight, UpdateRight, DeleteRight
  <2> QED
    BY <1>3, <2>1, <2>2
<1>4. CASE UNCHANGED vars
  <2>1. truth' = truth /\ got' = got /\ identity' = identity
        /\ skipMapDecode' = skipMapDecode
    BY <1>4 DEF vars, config
  <2> QED
    BY <2>1 DEF Right, ChangeIsDecoded, RowsMatch, FullRows, TuplesMatch,
                NoWrongValueKeyKept, NoWrongValue, HasMaps, IsRow
<1> QED
  BY <1>1, <1>2, <1>3, <1>4 DEF Next

\* DecodeInv and Right hold together.
LEMMA AlwaysRight == Spec => []Right
<1>1. Init => Right
  BY NothingRight DEF Init
<1> QED
  BY <1>1, InitDecode, NextDecode, NextRight, PTL DEF Spec

\* Every change the server sends becomes a message of its kind and its table's
\* current name, after any DDL, rollback of DDL, interleaving of blocks or
\* reconnect, for any tables and definitions: unless the maps are built and the
\* codec of a type may reject a text.  An insert, update or delete has its
\* transaction's id; a truncate has it inside a streamed block and is zero, as
\* the code leaves it, outside.
THEOREM EveryChangeDecoded ==
  Spec => []((skipMapDecode \/ Rejected = {}) => ChangeIsDecoded)
<1>1. Right => ((skipMapDecode \/ Rejected = {}) => ChangeIsDecoded)
  BY DEF Right
<1> QED
  BY AlwaysRight, <1>1, PTL

\* A decoded row is the row the transaction wrote, as tuple and as map: whole
\* with REPLICA IDENTITY FULL, and never with a value of its own otherwise as
\* long as the key is kept.  This holds for every definition with distinct
\* column names, and also when some texts are rejected.
THEOREM DecodedRowsMatch == Spec => []RowsMatch
<1>1. Right => RowsMatch
  BY DEF Right
<1> QED
  BY AlwaysRight, <1>1, PTL
=============================================================================
