--------------------------- MODULE ChunkPartition ---------------------------
(***************************************************************************)
(* How a snapshot divides one table into chunks, and what each chunk's     *)
(* query reads back (pq/snapshot/coordinator.go).  Chunks are created and  *)
(* read under one exported snapshot, so the table does not change between. *)
(*                                                                         *)
(* A row is its primary key, an integer of the machine's width, or its     *)
(* place if there is none; block is the page it is stored in.  Go's int64  *)
(* arithmetic wraps and its division truncates.                            *)
(* A table of which only some rows satisfy the configured queryCondition   *)
(* delivers only those.  A statement that fails on the exporting           *)
(* connection aborts the exported snapshot, so no chunk of it can be read: *)
(* that is SnapshotJob's business.                                         *)
(***************************************************************************)
EXTENDS Integers, Sequences, FiniteSets, FiniteSetsExt

CONSTANTS
  HalfRange,   \* the integers are -HalfRange..HalfRange-1 (2^63 in the code)
  Keys,        \* primary keys the table may hold
  MaxRows,     \* bound: rows of the table
  MaxBlocks,   \* bound: pages of the table
  ChunkSizes,  \* configured chunkSize
  Estimates,   \* rows per page according to pg_class
  MaxAlloc     \* longest slice the runtime can allocate

MaxInt == HalfRange - 1
MinInt == -HalfRange

ASSUME PartitionAssumption ==
  /\ HalfRange \in Nat \ {0} /\ Keys \subseteq MinInt..MaxInt
  /\ MaxRows \in Nat /\ MaxBlocks \in Nat \ {0} /\ MaxAlloc \in Nat
  /\ ChunkSizes \subseteq 1..MaxInt /\ Estimates \subseteq 1..MaxInt

VARIABLES
  table,      \* the table and its configuration
  chunks,     \* the chunks created for it, by chunk_index
  next,       \* index of the next chunk a worker reads
  count,      \* how often each row reached the listener
  panicked    \* creating the chunks panicked

vars == <<table, chunks, next, count, panicked>>

Strategies == {"auto", "integer_range", "ctid_block", "offset"}

Wrap(n) == ((n - MinInt) % (2 * HalfRange)) + MinInt
GoDiv(a, b) == IF a >= 0 THEN a \div b ELSE -((-a) \div b)

MinOf(a, b) == IF a <= b THEN a ELSE b
MaxOf(a, b) == IF a >= b THEN a ELSE b
CeilDiv(n, size) == GoDiv(Wrap(Wrap(n + size) - 1), size)

Chunk(strategy, start, range, blocks) ==
  [strategy |-> strategy, start |-> start, range |-> range, blocks |-> blocks]

(***************************************************************************)
(* integer_range                                                           *)
(***************************************************************************)
IntegerRangeChunkCount(min, max, size) ==
  CeilDiv(Wrap(Wrap(max - min) + 1), size)

\* Mutant: ranges that share their ends.
RangesOverlap(min, max, size, i) ==
  LET lo == Wrap(min + Wrap(i * size))
  IN  Chunk("integer_range", Wrap(i * size), <<lo, MinOf(lo + size, max)>>, <<>>)

RangeChunk(min, max, size, i) ==
  LET lo == Wrap(min + Wrap(i * size))
      hi == MinOf(Wrap(Wrap(lo + size) - 1), max)
  IN  Chunk("integer_range", Wrap(i * size), <<lo, hi>>, <<>>)

\* createRangeChunksWithConn.  The bounds are those of all the rows, whatever
\* the query condition; an empty table has one chunk without bounds.
RangeCount(t) ==
  IF t.rows = {} THEN 1
  ELSE IntegerRangeChunkCount(Min(t.rows), Max(t.rows), t.chunkSize)

RangeChunks(t) ==
  IF t.rows = {} THEN <<Chunk("integer_range", 0, <<>>, <<>>)>>
  ELSE [n \in 1..RangeCount(t) |->
          RangeChunk(Min(t.rows), Max(t.rows), t.chunkSize, n - 1)]

\* make([]*Chunk, 0, numChunks) comes before any chunk is looked at.
RangePanics(t) == RangeCount(t) < 0 \/ RangeCount(t) > MaxAlloc

IntegerRangeIsSparse(numChunks, rowCount, size) ==
  /\ numChunks > 0 /\ rowCount > 0 /\ size > 0
  /\ numChunks > MaxOf(CeilDiv(rowCount, size) * 2, 1)

(***************************************************************************)
(* ctid_block and offset                                                   *)
(***************************************************************************)
\* createCTIDBlockChunksWithConn: the last chunk has no upper bound.
CTIDBlockChunks(t) ==
  LET perChunk == MaxOf(GoDiv(t.chunkSize, t.perBlock), 1)
      num == CeilDiv(t.totalBlocks, perChunk)
  IN  IF t.totalBlocks = 0 THEN <<Chunk("ctid_block", 0, <<>>, <<>>)>>
      ELSE [n \in 1..num |->
              LET from == (n - 1) * perChunk IN
              Chunk("ctid_block", from, <<>>,
                    IF n = num THEN <<from>>
                    ELSE <<from, MinOf(from + perChunk, t.totalBlocks)>>)]

\* createOffsetChunksWithConn counts the rows that match.
OffsetChunks(t) ==
  LET rowCount == Cardinality(t.match) IN
  IF rowCount = 0 THEN <<Chunk("offset", 0, <<>>, <<>>)>>
  ELSE [n \in 1..CeilDiv(rowCount, t.chunkSize) |->
          Chunk("offset", (n - 1) * t.chunkSize, <<>>, <<>>)]

(***************************************************************************)
(* Choosing the strategy.                                                  *)
(***************************************************************************)
HasIntegerKey(t) == t.integerKey /\ ~t.keyFails

\* Whether createRangeChunksWithConn is called at all.
TriesRange(t) == t.strategy \in {"auto", "integer_range"} /\ HasIntegerKey(t)

\* createChunksWithStrategyConn.
ChunksWithStrategy(t) ==
  CASE t.strategy = "integer_range" ->
         IF t.keyFails THEN OffsetChunks(t)
         ELSE IF HasIntegerKey(t) /\ Len(RangeChunks(t)) > 0
                THEN RangeChunks(t) ELSE CTIDBlockChunks(t)
    [] t.strategy = "ctid_block" -> CTIDBlockChunks(t)
    [] t.strategy = "offset" -> OffsetChunks(t)

\* shouldFallbackSparseIntegerRange.
FallsBackSparse(t) ==
  /\ RangeChunks(t)[1].range # <<>>
  /\ IntegerRangeIsSparse(Len(RangeChunks(t)), Cardinality(t.match),
                          t.chunkSize)

\* createChunksAutoDetectConn.
ChunksAutoDetect(t) ==
  IF /\ HasIntegerKey(t)
     /\ Len(RangeChunks(t)) > 0
     /\ ~FallsBackSparse(t)
    THEN RangeChunks(t) ELSE CTIDBlockChunks(t)

\* createTableChunksWithConn.
CreateTableChunks ==
  /\ next = 0 /\ ~panicked
  /\ IF TriesRange(table) /\ RangePanics(table)
       THEN panicked' = TRUE /\ UNCHANGED <<chunks, next>>
       ELSE /\ chunks' = IF table.strategy = "auto"
                           THEN ChunksAutoDetect(table)
                           ELSE ChunksWithStrategy(table)
            /\ next' = 1
            /\ UNCHANGED panicked
  /\ UNCHANGED <<table, count>>

(***************************************************************************)
(* Reading a chunk (buildChunkQuery).                                      *)
(***************************************************************************)
\* getOrderByClause: the primary key, or ctid without one.  The rows of a
\* partitioned table are in several files, so that their ctids may be equal.
OrderBy(t, k) == IF t.keyless /\ t.totalBlocks = 0 THEN t.block[k] ELSE k

\* Rows that ORDER BY does not tell apart come in any order.
Ties(t) ==
  {f \in [t.rows -> 1..Cardinality(t.rows)] :
     \A j, k \in t.rows : f[j] = f[k] => j = k}
Before(t, tie, j, k) ==
  \/ OrderBy(t, j) < OrderBy(t, k)
  \/ OrderBy(t, j) = OrderBy(t, k) /\ tie[j] < tie[k]

\* ORDER BY ... LIMIT n OFFSET skip.
Limit(t, tie, rows, n, skip) ==
  {k \in rows :
     Cardinality({j \in rows : Before(t, tie, j, k)}) \in skip..(skip + n - 1)}

ChunkRows(t, tie, c) ==
  CASE c.strategy = "integer_range" /\ c.range # <<>> ->
         Limit(t, tie, {k \in t.match : k >= c.range[1] /\ k <= c.range[2]},
               t.chunkSize, 0)
    [] c.strategy = "ctid_block" ->
         {k \in t.match :
            /\ Len(c.blocks) >= 1 => t.block[k] >= c.blocks[1]
            /\ Len(c.blocks) = 2 => t.block[k] < c.blocks[2]}
    [] OTHER -> Limit(t, tie, t.match, t.chunkSize, c.start)

\* processChunk hands every row of the chunk to the listener.
ProcessChunk ==
  /\ next \in 1..Len(chunks)
  /\ \E tie \in Ties(table) :
       count' = [k \in table.rows |->
                   count[k] + IF k \in ChunkRows(table, tie, chunks[next])
                                THEN 1 ELSE 0]
  /\ next' = next + 1
  /\ UNCHANGED <<table, chunks, panicked>>

\* Any table.  totalBlocks is 0 for the parent of a partitioned table, whose
\* rows are in the pages of its partitions.  A row without a key is its place
\* in the table, so that the pages follow the order of the rows.
Init ==
  /\ \E rows \in {r \in SUBSET Keys : Cardinality(r) <= MaxRows},
        pages \in 1..MaxBlocks, partitioned, keyFails \in BOOLEAN,
        key \in {"none", "integer", "other"},
        strategy \in Strategies, size \in ChunkSizes, est \in Estimates :
       \E match \in SUBSET rows, block \in [rows -> 0..(pages - 1)] :
         /\ keyFails => strategy \in {"auto", "integer_range"}
         /\ key = "none" /\ ~partitioned =>
              \A j, k \in rows : j < k => block[j] <= block[k]
         /\ table = [rows |-> rows, match |-> match, block |-> block,
                     integerKey |-> key = "integer", keyless |-> key = "none",
                     keyFails |-> keyFails,
                     totalBlocks |-> IF partitioned THEN 0 ELSE pages,
                     strategy |-> strategy, chunkSize |-> size,
                     perBlock |-> est]
         /\ count = [k \in rows |-> 0]
  /\ chunks = <<>> /\ next = 0 /\ panicked = FALSE

Next == CreateTableChunks \/ ProcessChunk

Spec == Init /\ [][Next]_vars

-----------------------------------------------------------------------------
AllRead == next > 0 /\ next = Len(chunks) + 1

\* Each row that satisfies the query condition was handed to the listener once.
EachRowOnce == \A k \in table.rows : count[k] = IF k \in table.match THEN 1 ELSE 0

\* The queries of the chunks agree on the order of the rows, or do not use one.
Ordered(t) ==
  t.keyless /\ t.totalBlocks = 0 =>
    ~(t.strategy = "offset" \/ (t.strategy = "integer_range" /\ t.keyFails))

\* The chunks partition the rows: whatever the strategy, the key, the pages
\* and the chunk size, when every chunk has been read each row that satisfies
\* the query condition was handed to the listener exactly once.  Partitioned
\* tables without a key that are read by offset are left out.
ExactlyOnce == AllRead /\ Ordered(table) => EachRowOnce

\* The same for them too: offset is "slow but always works".
AlwaysExactlyOnce == AllRead => EachRowOnce

\* A table whose keys are sparse is snapshotted all the same: the automatic
\* strategy turns to ctid_block instead of an excessive number of ranges.
SparseKeysHandled == ~panicked
=============================================================================
