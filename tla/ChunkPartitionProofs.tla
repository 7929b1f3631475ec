------------------------ MODULE ChunkPartitionProofs ------------------------
(***************************************************************************)
(* Proofs about ChunkPartition: as long as no sum of a key and a chunk     *)
(* size leaves the integers, the chunks of every table are a partition of  *)
(* its rows, whatever the strategy.  Each strategy gives a row a number    *)
(* (the distance of its key from the smallest one, its page, its rank) and *)
(* cuts the numbers into slots of one size; the row is in the chunk of its *)
(* number's slot and in no other.                                          *)
(***************************************************************************)
EXTENDS ChunkPartition, FiniteSetTheorems, WellFoundedInduction, TLAPS

\* The sums that the code computes stay within the integers.  Beyond this the
\* result does not hold: the end of the last range wraps.
Roomy ==
  \A s \in ChunkSizes :
    /\ \A a, b \in Keys : a - b + s <= MaxInt /\ a + s - 1 <= MaxInt
    /\ MaxBlocks + s - 1 <= MaxInt /\ MaxRows + s - 1 <= MaxInt

-----------------------------------------------------------------------------
(***************************************************************************)
(* Integers.                                                               *)
(***************************************************************************)
Less == {ss \in Nat \X Nat : ss[1] < ss[2]}

\* Every set of numbers has a smallest one.
LEMMA NatMin ==
  ASSUME NEW T, T \subseteq Nat, T # {}
  PROVE  \E x \in T : \A y \in T : x <= y
<1>1. IsWellFoundedOn(Less, Nat)
  BY NatLessThanWellFounded, Zenon DEF OpToRel, Less
<1>2. PICK x \in T : \A y \in T : ~(<<y, x>> \in Less)
  BY <1>1, WFMin
<1>3. \A y \in Nat : y < x => <<y, x>> \in Less
  <2> SUFFICES ASSUME NEW y \in Nat, y < x
               PROVE  <<y, x>> \in Less
    OBVIOUS
  <2>1. <<y, x>> \in Nat \X Nat
    OBVIOUS
  <2>2. <<y, x>>[1] < <<y, x>>[2]
    OBVIOUS
  <2> QED
    BY <2>1, <2>2 DEF Less
<1>4. \A y \in T : x <= y
  <2> TAKE y \in T
  <2>1. x \in Nat /\ y \in Nat
    OBVIOUS
  <2>2. ~(y < x)
    BY <1>2, <1>3, <2>1
  <2> QED
    BY <2>1, <2>2
<1> QED
  BY <1>4

\* MIN and MAX of the keys of a table that has rows.
LEMMA KeyBounds ==
  ASSUME NEW T, T \subseteq Keys, T # {}
  PROVE  /\ Min(T) \in T /\ \A y \in T : Min(T) <= y
         /\ Max(T) \in T /\ \A y \in T : y <= Max(T)
<1>1. T \subseteq MinInt..MaxInt /\ MinInt \in Int /\ MaxInt \in Int
  BY PartitionAssumption DEF MinInt, MaxInt
<1>2. \E x \in T : \A y \in T : x <= y
  <2> DEFINE U == {y - MinInt : y \in T}
  <2>1. U \subseteq Nat /\ U # {}
    <3>1. \A y \in T : y - MinInt \in Nat
      <4> TAKE y \in T
      <4>1. y \in MinInt..MaxInt
        BY <1>1
      <4> QED
        BY <1>1, <4>1
    <3> QED
      BY <3>1
  <2> HIDE DEF U
  <2>2. PICK u \in U : \A v \in U : u <= v
    BY <2>1, NatMin
  <2>3. PICK x \in T : u = x - MinInt
    BY <2>2 DEF U
  <2>4. \A y \in T : x <= y
    <3> TAKE y \in T
    <3>1. y - MinInt \in U
      BY DEF U
    <3>2. u <= y - MinInt
      BY <2>2, <3>1
    <3> QED
      BY <1>1, <2>3, <3>2
  <2> QED
    BY <2>4
<1>3. \E x \in T : \A y \in T : x >= y
  <2> DEFINE U == {MaxInt - y : y \in T}
  <2>1. U \subseteq Nat /\ U # {}
    <3>1. \A y \in T : MaxInt - y \in Nat
      <4> TAKE y \in T
      <4>1. y \in MinInt..MaxInt
        BY <1>1
      <4> QED
        BY <1>1, <4>1
    <3> QED
      BY <3>1
  <2> HIDE DEF U
  <2>2. PICK u \in U : \A v \in U : u <= v
    BY <2>1, NatMin
  <2>3. PICK x \in T : u = MaxInt - x
    BY <2>2 DEF U
  <2>4. \A y \in T : x >= y
    <3> TAKE y \in T
    <3>1. MaxInt - y \in U
      BY DEF U
    <3>2. u <= MaxInt - y
      BY <2>2, <3>1
    <3> QED
      BY <1>1, <2>3, <3>2
  <2> QED
    BY <2>4
<1>4. Min(T) \in T /\ \A y \in T : Min(T) <= y
  BY <1>2 DEF Min
<1>5. Max(T) \in T /\ \A y \in T : Max(T) >= y
  BY <1>3 DEF Max
<1> QED
  BY <1>1, <1>4, <1>5

\* Arithmetic within the integers does not wrap, and neither does a sum of
\* which one is taken away again.
LEMMA WrapIs ==
  ASSUME NEW n \in Int
  PROVE  /\ n \in MinInt..MaxInt => Wrap(n) = n
         /\ n - 1 \in MinInt..MaxInt => Wrap(Wrap(n) - 1) = n - 1
<1> DEFINE m == 2 * HalfRange
<1>1. HalfRange \in Nat \ {0} /\ m \in Nat \ {0}
  BY PartitionAssumption
<1>2. \A a \in Nat : a < m => a % m = a
  BY <1>1
<1>3. \A k \in MinInt..MaxInt : Wrap(k) = k
  <2> TAKE k \in MinInt..MaxInt
  <2>1. k - MinInt \in Nat /\ k - MinInt < m /\ k \in Int /\ MinInt \in Int
    BY <1>1 DEF MinInt, MaxInt
  <2>2. (k - MinInt) % m = k - MinInt
    BY <1>2, <2>1
  <2> QED
    BY <2>1, <2>2 DEF Wrap
<1>4. n = HalfRange => Wrap(Wrap(n) - 1) = n - 1
  <2> SUFFICES ASSUME n = HalfRange
               PROVE  Wrap(Wrap(n) - 1) = n - 1
    OBVIOUS
  <2>1. m % m = 0 /\ (-1) % m = m - 1
    BY <1>1
  <2>2. n - MinInt = m
    BY <1>1 DEF MinInt
  <2>3. Wrap(n) = MinInt
    BY <1>1, <2>1, <2>2 DEF Wrap, MinInt
  <2>4. (Wrap(n) - 1) - MinInt = -1
    BY <1>1, <2>3 DEF MinInt
  <2> QED
    BY <1>1, <2>1, <2>4 DEF Wrap, MinInt
<1>5. n - 1 \in MinInt..MaxInt => n = HalfRange \/ n \in MinInt..MaxInt
  BY <1>1 DEF MinInt, MaxInt
<1>6. n - 1 \in MinInt..MaxInt /\ n \in MinInt..MaxInt => Wrap(Wrap(n) - 1) = n - 1
  BY <1>3
<1> QED
  BY <1>3, <1>4, <1>5, <1>6

\* Division, for what is divided here.
LEMMA Division ==
  ASSUME NEW a \in Nat, NEW s \in Nat \ {0}
  PROVE  /\ a \div s \in Nat
         /\ (a \div s) * s <= a
         /\ a < (a \div s) * s + s
OBVIOUS

\* Multiples of a size are that far apart.
LEMMA Apart ==
  ASSUME NEW m \in Nat, NEW n \in Nat, NEW s \in Nat \ {0}, m < n
  PROVE  m * s \in Nat /\ n * s \in Nat /\ m * s + s <= n * s
OBVIOUS

\* The number b is in the slot of size s with index b \div s + 1, and in no other.
LEMMA Slot ==
  ASSUME NEW b \in Nat, NEW s \in Nat \ {0}, NEW n \in Nat \ {0}
  PROVE  ((n - 1) * s <= b /\ b < (n - 1) * s + s) <=> n = (b \div s) + 1
<1> DEFINE q == b \div s
<1>1. q \in Nat /\ q * s <= b /\ b < q * s + s
  BY Division
<1> HIDE DEF q
<1>2. n - 1 \in Nat /\ (n - 1) * s \in Int /\ q * s \in Int
  BY <1>1
<1>3. CASE n - 1 < q
  BY <1>1, <1>2, <1>3, Apart
<1>4. CASE q < n - 1
  BY <1>1, <1>2, <1>4, Apart
<1>5. CASE q = n - 1
  BY <1>1, <1>2, <1>5
<1> QED
  BY <1>1, <1>2, <1>3, <1>4, <1>5 DEF q

\* CeilDiv is the number of slots that total numbers need: the last one begins
\* below total, and each number has its slot.
LEMMA Slots ==
  ASSUME NEW total \in Nat \ {0}, NEW s \in Nat \ {0}, total + s - 1 <= MaxInt
  PROVE  LET num == CeilDiv(total, s) IN
         /\ num \in Nat \ {0}
         /\ (num - 1) * s < total
         /\ \A b \in 0..(total - 1) : (b \div s) + 1 \in 1..num
<1> DEFINE e == total + s - 1
           num == e \div s
<1>1. e \in Nat /\ e \in MinInt..MaxInt
  BY PartitionAssumption DEF MinInt
<1>2. Wrap(Wrap(total + s) - 1) = e
  <2>1. total + s \in Int /\ (total + s) - 1 = e
    OBVIOUS
  <2> QED
    BY <1>1, <2>1, WrapIs
<1>3. CeilDiv(total, s) = num
  BY <1>1, <1>2 DEF CeilDiv, GoDiv
<1>4. num \in Nat /\ num * s <= e /\ e < num * s + s
  BY <1>1, Division
<1> HIDE DEF num
<1>5. num # 0
  BY <1>4
<1>6. (num - 1) * s = num * s - s
  BY <1>4
<1>7. ASSUME NEW b \in 0..(total - 1)
      PROVE  (b \div s) + 1 \in 1..num
  <2> DEFINE q == b \div s
  <2>1. q \in Nat /\ q * s <= b
    BY Division
  <2> HIDE DEF q
  <2>2. ~(num < q)
    BY <1>4, <2>1, Apart
  <2>3. q # num
    BY <1>4, <2>1
  <2> QED
    BY <1>4, <2>1, <2>2, <2>3 DEF q
<1> QED
  BY <1>3, <1>4, <1>5, <1>6, <1>7

-----------------------------------------------------------------------------
(***************************************************************************)
(* The chunks of one table.                                                *)
(***************************************************************************)

\* A table of Init.
TableOK(t) ==
  /\ t.rows \subseteq Keys /\ Cardinality(t.rows) <= MaxRows
  /\ t.match \subseteq t.rows
  /\ t.totalBlocks \in 0..MaxBlocks
  /\ \A k \in t.rows : /\ t.block[k] \in Nat
                       /\ t.totalBlocks > 0 => t.block[k] < t.totalBlocks
  /\ t.strategy \in Strategies /\ (t.keyless => ~t.integerKey)
  /\ t.chunkSize \in ChunkSizes /\ t.perBlock \in Estimates

\* What a query returns whose order has no ties: the rows by rank of their key
\* or place.
KeyLimit(rows, n, skip) ==
  {k \in rows : Cardinality({j \in rows : j < k}) \in skip..(skip + n - 1)}

Reads(t, c) ==
  CASE c.strategy = "integer_range" /\ c.range # <<>> ->
         KeyLimit({k \in t.match : k >= c.range[1] /\ k <= c.range[2]},
                  t.chunkSize, 0)
    [] c.strategy = "ctid_block" ->
         {k \in t.match :
            /\ Len(c.blocks) >= 1 => t.block[k] >= c.blocks[1]
            /\ Len(c.blocks) = 2 => t.block[k] < c.blocks[2]}
    [] OTHER -> KeyLimit(t.match, t.chunkSize, c.start)

\* The query of chunk c has no ties, or no order.
Steady(t, c) == t.keyless /\ t.totalBlocks = 0 => c.strategy = "ctid_block"

\* The chunks cs partition the rows of t that match.
Cover(t, cs) ==
  /\ Len(cs) \in Nat
  /\ \A n \in 1..Len(cs) : Reads(t, cs[n]) \subseteq t.match
  /\ \A k \in t.match : \E i \in 1..Len(cs) :
       \A n \in 1..Len(cs) : k \in Reads(t, cs[n]) <=> n = i

\* Tables are finite, and sizes are positive.
LEMMA TableIs ==
  ASSUME NEW t, TableOK(t)
  PROVE  /\ IsFiniteSet(t.rows) /\ IsFiniteSet(t.match)
         /\ Cardinality(t.match) \in Nat /\ Cardinality(t.match) <= MaxRows
         /\ t.rows \subseteq Int /\ t.match \subseteq Int
         /\ t.chunkSize \in Nat \ {0} /\ t.perBlock \in Nat \ {0}
         /\ t.totalBlocks \in Nat
<1>1. MinInt \in Int /\ MaxInt \in Int /\ Keys \subseteq MinInt..MaxInt
  BY PartitionAssumption DEF MinInt, MaxInt
<1>2. IsFiniteSet(MinInt..MaxInt)
  BY <1>1, FS_Interval
<1>3. IsFiniteSet(t.rows)
  BY <1>1, <1>2, FS_Subset DEF TableOK
<1>4. IsFiniteSet(t.match) /\ Cardinality(t.match) <= Cardinality(t.rows)
  BY <1>3, FS_Subset DEF TableOK
<1>5. Cardinality(t.match) \in Nat /\ Cardinality(t.rows) \in Nat
  BY <1>3, <1>4, FS_CardinalityType
<1>6. Cardinality(t.match) <= MaxRows
  BY <1>4, <1>5, PartitionAssumption DEF TableOK
<1>7. t.rows \subseteq Int /\ t.match \subseteq Int
  <2>1. MinInt..MaxInt \subseteq Int
    BY <1>1
  <2> QED
    BY <1>1, <2>1 DEF TableOK
<1>8. t.chunkSize \in 1..MaxInt /\ t.perBlock \in 1..MaxInt
  BY PartitionAssumption DEF TableOK
<1>9. t.totalBlocks \in Nat
  BY PartitionAssumption DEF TableOK
<1> QED
  BY <1>1, <1>3, <1>4, <1>5, <1>6, <1>7, <1>8, <1>9

\* The length of a list of chunks.
LEMMA ListLength ==
  ASSUME NEW n \in Nat, NEW f, f = [c \in 1..n |-> f[c]]
  PROVE  Len(f) = n
<1>1. f \in Seq({f[c] : c \in 1..n})
  OBVIOUS
<1>2. Len(f) \in Nat /\ DOMAIN f = 1..Len(f)
  BY <1>1
<1>3. DOMAIN f = 1..n
  OBVIOUS
<1> QED
  BY <1>2, <1>3

\* A query by rank returns rows of the set it selects from.
LEMMA LimitSubset ==
  ASSUME NEW S, NEW n, NEW skip
  PROVE  KeyLimit(S, n, skip) \subseteq S
BY DEF KeyLimit

\* Whatever the chunk, its query returns rows that match.
LEMMA ReadsMatch ==
  ASSUME NEW t, NEW c
  PROVE  Reads(t, c) \subseteq t.match
<1>1. KeyLimit(t.match, t.chunkSize, c.start) \subseteq t.match
  BY LimitSubset
<1>2. KeyLimit({k \in t.match : k >= c.range[1] /\ k <= c.range[2]}, t.chunkSize, 0)
        \subseteq t.match
  BY LimitSubset
<1> QED
  BY <1>1, <1>2 DEF Reads

\* A row's rank among the rows that match.
LEMMA Rank ==
  ASSUME NEW S, IsFiniteSet(S), S \subseteq Int, NEW k \in S
  PROVE  Cardinality({j \in S : j < k}) \in 0..(Cardinality(S) - 1)
<1> DEFINE B == {j \in S : j < k}
<1>1. IsFiniteSet(S \ {k}) /\ Cardinality(S \ {k}) = Cardinality(S) - 1
  BY FS_RemoveElement
<1>2. B \subseteq S \ {k}
  OBVIOUS
<1> HIDE DEF B
<1>3. IsFiniteSet(B) /\ Cardinality(B) <= Cardinality(S \ {k})
  BY <1>1, <1>2, FS_Subset
<1>4. Cardinality(B) \in Nat /\ Cardinality(S) \in Nat
  BY <1>3, FS_CardinalityType
<1> QED
  BY <1>1, <1>3, <1>4 DEF B

\* LIMIT does not cut a set of keys that fit into an interval of that size.
LEMMA LimitWhole ==
  ASSUME NEW lo \in Int, NEW s \in Nat \ {0}, NEW S, S \subseteq lo..(lo + s - 1)
  PROVE  KeyLimit(S, s, 0) = S
<1> SUFFICES ASSUME NEW k \in S
             PROVE  Cardinality({j \in S : j < k}) \in 0..(0 + s - 1)
  BY DEF KeyLimit
<1> DEFINE B == {j \in S : j < k}
<1>1. k \in Int /\ lo <= k /\ k <= lo + s - 1
  OBVIOUS
<1>2. B \subseteq lo..(k - 1)
  <2> SUFFICES ASSUME NEW j \in S, j < k
               PROVE  j \in lo..(k - 1)
    OBVIOUS
  <2>1. j \in lo..(lo + s - 1)
    OBVIOUS
  <2> QED
    BY <1>1, <2>1
<1>3. /\ IsFiniteSet(lo..(k - 1))
      /\ Cardinality(lo..(k - 1)) = IF lo > k - 1 THEN 0 ELSE (k - 1) - lo + 1
  BY <1>1, FS_Interval
<1> HIDE DEF B
<1>4. /\ IsFiniteSet(B) /\ Cardinality(B) <= Cardinality(lo..(k - 1))
      /\ Cardinality(B) \in Nat
  BY <1>2, <1>3, FS_Subset, FS_CardinalityType
<1>5. Cardinality(B) <= s - 1
  BY <1>1, <1>3, <1>4
<1> QED
  BY <1>4, <1>5 DEF B

\* Where there are no ties, the query does not depend on how they are broken.
LEMMA TieFree ==
  ASSUME NEW t, TableOK(t), NEW tie \in Ties(t), NEW c, Steady(t, c)
  PROVE  ChunkRows(t, tie, c) = Reads(t, c)
<1>1. CASE c.strategy = "ctid_block"
  BY <1>1 DEF ChunkRows, Reads
<1>2. CASE c.strategy # "ctid_block"
  <2>1. ASSUME NEW S, S \subseteq t.match, NEW n, NEW skip
        PROVE  Limit(t, tie, S, n, skip) = KeyLimit(S, n, skip)
    <3>1. S \subseteq Int
      BY <2>1, TableIs
    <3>2. ASSUME NEW k \in S
          PROVE  {j \in S : Before(t, tie, j, k)} = {j \in S : j < k}
      <4>1. k \in t.rows /\ k \in Int
        BY <2>1, <3>1 DEF TableOK
      <4>2. tie[k] \in 1..Cardinality(t.rows)
        BY <4>1 DEF Ties
      <4>3. ~(tie[k] < tie[k])
        <5>1. Cardinality(t.rows) \in Nat
          BY TableIs, FS_CardinalityType
        <5> QED
          BY <4>2, <5>1
      <4>4. \A j \in S : OrderBy(t, j) = j
        BY <1>2 DEF OrderBy, Steady
      <4>5. ASSUME NEW j \in S
            PROVE  Before(t, tie, j, k) <=> j < k
        BY <4>3, <4>4 DEF Before
      <4> QED
        BY <4>5
    <3> QED
      BY <3>2 DEF Limit, KeyLimit
  <2> QED
    BY <1>2, <2>1 DEF ChunkRows, Reads
<1> QED
  BY <1>1, <1>2

\* offset: LIMIT and OFFSET cut the ranks into slots.
LEMMA OffsetCover ==
  ASSUME Roomy, NEW t, TableOK(t)
  PROVE  Cover(t, OffsetChunks(t))
<1> DEFINE total == Cardinality(t.match)
           size == t.chunkSize
           cs == OffsetChunks(t)
<1>1. /\ IsFiniteSet(t.match) /\ total \in Nat /\ total <= MaxRows
      /\ t.match \subseteq Int /\ size \in Nat \ {0}
  BY TableIs
<1>2. \A n \in 1..Len(cs) : Reads(t, cs[n]) \subseteq t.match
  BY ReadsMatch
<1>3. CASE total = 0
  <2>1. t.match = {}
    BY <1>1, <1>3, FS_EmptySet
  <2>2. Len(cs) = 1
    BY <1>3 DEF OffsetChunks
  <2> QED
    BY <1>2, <2>1, <2>2 DEF Cover
<1>4. CASE total # 0
  <2> DEFINE num == CeilDiv(total, size)
  <2>1. total + size - 1 <= MaxInt
    <3>1. MaxRows + size - 1 <= MaxInt
      BY DEF Roomy, TableOK
    <3> QED
      BY <1>1, <3>1, PartitionAssumption DEF MaxInt
  <2>2. num \in Nat \ {0} /\ \A b \in 0..(total - 1) : (b \div size) + 1 \in 1..num
    BY <1>1, <1>4, <2>1, Slots
  <2>3. cs = [n \in 1..num |-> Chunk("offset", (n - 1) * size, <<>>, <<>>)]
    BY <1>4 DEF OffsetChunks
  <2> HIDE DEF num, cs, total, size
  <2>4. Len(cs) = num
    BY <2>2, <2>3, ListLength
  <2>5. ASSUME NEW k \in t.match, NEW n \in 1..num
        PROVE  k \in Reads(t, cs[n]) <=>
                 n = (Cardinality({j \in t.match : j < k}) \div size) + 1
    <3> DEFINE b == Cardinality({j \in t.match : j < k})
    <3>1. b \in 0..(total - 1)
      BY <1>1, Rank DEF total
    <3>2. cs[n].strategy = "offset" /\ cs[n].start = (n - 1) * size
      BY <2>3 DEF Chunk
    <3>3. Reads(t, cs[n]) = KeyLimit(t.match, size, (n - 1) * size)
      BY <3>2 DEF Reads, size
    <3> HIDE DEF b
    <3>4. k \in Reads(t, cs[n]) <=> b \in ((n - 1) * size)..((n - 1) * size + size - 1)
      BY <3>3 DEF KeyLimit, b
    <3>5. b \in Nat /\ n \in Nat \ {0} /\ (n - 1) * size \in Int
      BY <1>1, <2>2, <3>1
    <3>6. ((n - 1) * size <= b /\ b < (n - 1) * size + size) <=> n = (b \div size) + 1
      BY <1>1, <3>5, Slot
    <3>7. k \in Reads(t, cs[n]) <=> n = (b \div size) + 1
      BY <1>1, <3>4, <3>5, <3>6
    <3> QED
      BY <3>7 DEF b
  <2>6. ASSUME NEW k \in t.match
        PROVE  \E i \in 1..num : \A n \in 1..num : k \in Reads(t, cs[n]) <=> n = i
    <3> DEFINE i == (Cardinality({j \in t.match : j < k}) \div size) + 1
    <3>1. i \in 1..num
      BY <1>1, <2>2, Rank DEF total
    <3>2. \A n \in 1..num : k \in Reads(t, cs[n]) <=> n = i
      BY <2>5
    <3> HIDE DEF i
    <3> QED
      BY <3>1, <3>2
  <2> QED
    BY <1>2, <2>2, <2>4, <2>6 DEF Cover, cs
<1> QED
  BY <1>3, <1>4

\* ctid_block: the pages are cut into slots, and the last one is open.
LEMMA CTIDCover ==
  ASSUME Roomy, NEW t, TableOK(t)
  PROVE  Cover(t, CTIDBlockChunks(t))
<1> DEFINE total == t.totalBlocks
           per == MaxOf(GoDiv(t.chunkSize, t.perBlock), 1)
           cs == CTIDBlockChunks(t)
<1>1. total \in Nat /\ t.chunkSize \in Nat \ {0} /\ t.perBlock \in Nat \ {0}
  BY TableIs
<1>2. \A n \in 1..Len(cs) : Reads(t, cs[n]) \subseteq t.match
  BY ReadsMatch
<1>3. CASE total = 0
  <2>1. cs = <<Chunk("ctid_block", 0, <<>>, <<>>)>>
    BY <1>3 DEF CTIDBlockChunks
  <2>2. Len(cs) = 1 /\ cs[1].strategy = "ctid_block" /\ cs[1].blocks = <<>>
    BY <2>1 DEF Chunk
  <2> HIDE DEF cs
  <2>3. Reads(t, cs[1]) = t.match
    BY <2>2 DEF Reads
  <2> QED
    BY <1>2, <2>2, <2>3 DEF Cover, cs
<1>4. CASE total # 0
  <2>1. per \in Nat \ {0} /\ per <= t.chunkSize
    <3>1. GoDiv(t.chunkSize, t.perBlock) = t.chunkSize \div t.perBlock
      BY <1>1 DEF GoDiv
    <3> DEFINE q == t.chunkSize \div t.perBlock
    <3>2. q \in Nat /\ q * t.perBlock <= t.chunkSize
      BY <1>1, Division
    <3> HIDE DEF q
    <3>3. q <= q * t.perBlock
      BY <1>1, <3>2
    <3>4. q <= t.chunkSize
      BY <1>1, <3>2, <3>3
    <3> QED
      BY <1>1, <3>1, <3>2, <3>4 DEF MaxOf, q
  <2> DEFINE num == CeilDiv(total, per)
             from(n) == (n - 1) * per
  <2>2. cs = [n \in 1..num |->
                Chunk("ctid_block", from(n), <<>>,
                      IF n = num THEN <<from(n)>>
                      ELSE <<from(n), MinOf(from(n) + per, total)>>)]
    BY <1>4 DEF CTIDBlockChunks
  <2> HIDE DEF per
  <2>3. total + per - 1 <= MaxInt
    <3>1. MaxBlocks + t.chunkSize - 1 <= MaxInt
      BY DEF Roomy, TableOK
    <3>2. total \in 0..MaxBlocks /\ MaxBlocks \in Nat
      BY PartitionAssumption DEF TableOK
    <3> QED
      BY <1>1, <2>1, <3>1, <3>2, PartitionAssumption DEF MaxInt
  <2>4. /\ num \in Nat \ {0} /\ (num - 1) * per < total
        /\ \A b \in 0..(total - 1) : (b \div per) + 1 \in 1..num
    BY <1>1, <1>4, <2>1, <2>3, Slots
  <2> HIDE DEF num, cs, total
  <2>5. Len(cs) = num
    BY <2>2, <2>4, ListLength
  <2>6. ASSUME NEW k \in t.match
        PROVE  t.block[k] \in 0..(total - 1)
    BY <1>1, <1>4 DEF TableOK, total
  <2>7. ASSUME NEW k \in t.match, NEW n \in 1..num
        PROVE  k \in Reads(t, cs[n]) <=> n = (t.block[k] \div per) + 1
    <3> DEFINE b == t.block[k]
    <3>1. b \in Nat /\ b < total /\ n \in Nat \ {0} /\ n <= num /\ from(n) \in Nat
      BY <1>1, <2>1, <2>4, <2>6
    <3>2. (from(n) <= b /\ b < from(n) + per) <=> n = (b \div per) + 1
      BY <2>1, <3>1, Slot
    <3>3. CASE n = num
      <4>1. cs[n].strategy = "ctid_block" /\ cs[n].blocks = <<from(n)>>
        BY <2>2, <3>3 DEF Chunk
      <4>2. Len(<<from(n)>>) = 1 /\ <<from(n)>>[1] = from(n)
        OBVIOUS
      <4>3. k \in Reads(t, cs[n]) <=> b >= from(n)
        BY <4>1, <4>2 DEF Reads
      <4>4. b < from(n) + per
        <5>1. (b \div per) + 1 \in 1..num
          BY <1>1, <2>4, <3>1
        <5>2. b \div per \in Nat /\ b < (b \div per) * per + per
          BY <2>1, <3>1, Division
        <5> DEFINE q == b \div per
        <5> HIDE DEF q
        <5>3. q = n - 1 \/ q < n - 1
          BY <3>3, <5>1, <5>2, <2>4 DEF q
        <5>4. q \in Nat /\ b < q * per + per /\ n - 1 \in Nat
          BY <3>1, <5>2 DEF q
        <5>5. CASE q = n - 1
          BY <5>4, <5>5
        <5>6. CASE q < n - 1
          <6>1. q * per + per <= (n - 1) * per /\ q * per \in Nat /\ (n - 1) * per \in Nat
            BY <2>1, <5>4, <5>6, Apart
          <6> QED
            BY <2>1, <3>1, <5>4, <6>1
        <5> QED
          BY <5>3, <5>5, <5>6
      <4> QED
        BY <3>1, <3>2, <4>3, <4>4
    <3>4. CASE n # num
      <4>1. from(n) + per <= total
        <5>1. n < num /\ n - 1 < num - 1 /\ n - 1 \in Nat /\ num - 1 \in Nat
          BY <2>4, <3>1, <3>4
        <5>2. (n - 1) * per + per <= (num - 1) * per
          BY <2>1, <5>1, Apart
        <5> QED
          BY <1>1, <2>1, <2>4, <3>1, <5>2
      <4>2. MinOf(from(n) + per, total) = from(n) + per
        BY <4>1 DEF MinOf
      <4> DEFINE bl == <<from(n), from(n) + per>>
      <4>3. cs[n].strategy = "ctid_block" /\ cs[n].blocks = bl
        BY <2>2, <3>4, <4>2 DEF Chunk
      <4>4. Len(bl) = 2 /\ bl[1] = from(n) /\ bl[2] = from(n) + per
        OBVIOUS
      <4> HIDE DEF bl, from
      <4>5. k \in Reads(t, cs[n]) <=> b >= from(n) /\ b < from(n) + per
        BY <4>3, <4>4 DEF Reads
      <4> QED
        BY <3>1, <3>2, <4>5
    <3> QED
      BY <3>3, <3>4
  <2>8. ASSUME NEW k \in t.match
        PROVE  \E i \in 1..num : \A n \in 1..num : k \in Reads(t, cs[n]) <=> n = i
    <3> DEFINE i == (t.block[k] \div per) + 1
    <3>1. i \in 1..num
      BY <2>4, <2>6
    <3>2. \A n \in 1..num : k \in Reads(t, cs[n]) <=> n = i
      BY <2>7
    <3> HIDE DEF i
    <3> QED
      BY <3>1, <3>2
  <2> QED
    BY <1>2, <2>4, <2>5, <2>8 DEF Cover, cs
<1> QED
  BY <1>3, <1>4

\* integer_range: the distances from the smallest key are cut into slots, and
\* LIMIT cuts nothing off a range.
LEMMA RangeCover ==
  ASSUME Roomy, NEW t, TableOK(t)
  PROVE  Cover(t, RangeChunks(t))
<1> DEFINE size == t.chunkSize
           min == Min(t.rows)
           max == Max(t.rows)
           cs == RangeChunks(t)
<1>1. /\ t.match \subseteq t.rows /\ t.rows \subseteq Int /\ size \in Nat \ {0}
      /\ size \in ChunkSizes /\ t.rows \subseteq Keys
  BY TableIs DEF TableOK
<1>2. \A n \in 1..Len(cs) : Reads(t, cs[n]) \subseteq t.match
  BY ReadsMatch
<1>3. CASE t.rows = {}
  <2>1. Len(cs) = 1 /\ t.match = {}
    BY <1>1, <1>3 DEF RangeChunks
  <2> QED
    BY <1>2, <2>1 DEF Cover
<1>4. CASE t.rows # {}
  <2>1. /\ min \in t.rows /\ max \in t.rows
        /\ \A k \in t.rows : min <= k /\ k <= max
    BY <1>1, <1>4, KeyBounds
  <2>2. min \in Int /\ max \in Int /\ min <= max
    BY <1>1, <2>1
  <2>3. /\ max - min + size <= MaxInt /\ max + size - 1 <= MaxInt
        /\ min \in MinInt..MaxInt /\ max \in MinInt..MaxInt
        /\ MinInt \in Int /\ MaxInt \in Nat /\ MinInt < 0
    <3>1. min \in Keys /\ max \in Keys
      BY <1>1, <2>1
    <3>2. max - min + size <= MaxInt /\ max + size - 1 <= MaxInt
      <4> HIDE DEF min, max, size
      <4> QED
        BY <1>1, <3>1 DEF Roomy
    <3>3. Keys \subseteq MinInt..MaxInt
      BY PartitionAssumption
    <3>4. MinInt \in Int /\ MaxInt \in Nat /\ MinInt < 0
      BY PartitionAssumption DEF MinInt, MaxInt
    <3> QED
      BY <3>1, <3>2, <3>3, <3>4
  <2> DEFINE total == max - min + 1
             num == CeilDiv(total, size)
  <2>4. RangeCount(t) = num
    <3>1. Wrap(max - min) = max - min
      <4>1. max - min \in MinInt..MaxInt /\ max - min \in Int
        BY <1>1, <2>2, <2>3
      <4> QED
        BY <4>1, WrapIs
    <3>2. Wrap((max - min) + 1) = total
      <4>1. total \in MinInt..MaxInt /\ total \in Int
        BY <1>1, <2>2, <2>3
      <4> QED
        BY <4>1, WrapIs
    <3> QED
      BY <1>4, <3>1, <3>2 DEF RangeCount, IntegerRangeChunkCount
  <2>5. total \in Nat \ {0} /\ total + size - 1 <= MaxInt
    BY <1>1, <2>2, <2>3
  <2>6. /\ num \in Nat \ {0} /\ (num - 1) * size < total
        /\ \A b \in 0..(total - 1) : (b \div size) + 1 \in 1..num
    BY <1>1, <2>5, Slots
  <2>7. cs = [n \in 1..num |-> RangeChunk(min, max, size, n - 1)]
    BY <1>4, <2>4 DEF RangeChunks
  <2> HIDE DEF num, cs, min, max, size
  <2>8. Len(cs) = num
    BY <2>6, <2>7, ListLength
  <2>9. ASSUME NEW n \in 1..num
        PROVE  /\ (n - 1) * size \in Nat /\ (n - 1) * size < total
               /\ cs[n].strategy = "integer_range"
               /\ cs[n].range = <<min + (n - 1) * size,
                                  MinOf(min + (n - 1) * size + size - 1, max)>>
    <3> DEFINE d == (n - 1) * size
               lo == min + d
    <3>1. n - 1 \in Nat /\ num - 1 \in Nat /\ n - 1 <= num - 1
      BY <2>6
    <3>2. d \in Nat /\ d < total
      <4>1. CASE n = num
        BY <1>1, <2>6, <4>1
      <4>2. CASE n # num
        <5>1. /\ (n - 1) * size \in Nat /\ (num - 1) * size \in Nat
              /\ (n - 1) * size + size <= (num - 1) * size
          <6>1. n - 1 < num - 1
            BY <2>6, <4>2
          <6> QED
            BY <1>1, <3>1, <6>1, Apart
        <5> QED
          BY <1>1, <2>5, <2>6, <5>1
      <4> QED
        BY <4>1, <4>2
    <3> HIDE DEF d
    <3>3. Wrap(d) = d
      <4>1. d \in MinInt..MaxInt
        BY <1>1, <2>2, <2>3, <3>2
      <4> QED
        BY <3>2, <4>1, WrapIs
    <3>4. lo \in Int /\ lo <= max /\ Wrap(lo) = lo
      <4>1. lo \in Int /\ lo <= max /\ lo \in MinInt..MaxInt
        BY <2>2, <2>3, <3>2
      <4> QED
        BY <4>1, WrapIs
    <3>5. Wrap(Wrap(lo + size) - 1) = lo + size - 1
      <4>1. lo + size \in Int /\ (lo + size) - 1 \in MinInt..MaxInt
        BY <1>1, <2>2, <2>3, <3>2
      <4> QED
        BY <1>1, <3>4, <4>1, WrapIs
    <3>6. cs[n] = RangeChunk(min, max, size, n - 1)
      BY <2>7
    <3>7. RangeChunk(min, max, size, n - 1)
            = Chunk("integer_range", d, <<lo, MinOf(lo + size - 1, max)>>, <<>>)
      <4>1. Wrap(min + Wrap((n - 1) * size)) = lo
        BY <3>3, <3>4 DEF d
      <4>2. Wrap((n - 1) * size) = d
        BY <3>3 DEF d
      <4> QED
        BY <3>5, <4>1, <4>2 DEF RangeChunk
    <3> QED
      BY <3>2, <3>6, <3>7 DEF Chunk, d
  <2>10. ASSUME NEW k \in t.match
         PROVE  k - min \in 0..(total - 1) /\ k \in Int
    BY <1>1, <2>1, <2>2
  <2>11. ASSUME NEW k \in t.match, NEW n \in 1..num
         PROVE  k \in Reads(t, cs[n]) <=> n = ((k - min) \div size) + 1
    <3> DEFINE d == (n - 1) * size
               lo == min + d
               hi == MinOf(lo + size - 1, max)
               S == {j \in t.match : j >= lo /\ j <= hi}
               r == <<lo, hi>>
    <3>1. d \in Nat /\ cs[n].strategy = "integer_range" /\ cs[n].range = r
      BY <2>9
    <3> HIDE DEF d
    <3>2. r # <<>> /\ r[1] = lo /\ r[2] = hi
      OBVIOUS
    <3>3. Reads(t, cs[n]) = KeyLimit(S, size, 0)
      <4> HIDE DEF lo, hi, r
      <4> QED
        BY <3>1, <3>2 DEF Reads, size
    <3>4. lo \in Int /\ hi \in Int /\ hi <= lo + size - 1 /\ hi <= max
          /\ (hi = lo + size - 1 \/ hi = max)
      BY <1>1, <2>2, <3>1 DEF MinOf
    <3> HIDE DEF lo, hi
    <3>5. S \subseteq lo..(lo + size - 1)
      <4> SUFFICES ASSUME NEW j \in S
                   PROVE  j \in lo..(lo + size - 1)
        OBVIOUS
      <4>1. j \in Int /\ j >= lo /\ j <= hi
        BY <1>1
      <4> QED
        BY <1>1, <3>4, <4>1
    <3>6. KeyLimit(S, size, 0) = S
      <4> HIDE DEF S
      <4> QED
        BY <1>1, <3>4, <3>5, LimitWhole
    <3>7. k \in Reads(t, cs[n]) <=> k >= lo /\ k <= hi
      BY <3>3, <3>6
    <3>8. k \in Int /\ min <= k /\ k <= max
      BY <1>1, <2>1, <2>10
    <3>9. k \in Reads(t, cs[n]) <=> d <= k - min /\ k - min < d + size
      BY <1>1, <2>2, <3>1, <3>4, <3>7, <3>8 DEF lo
    <3>10. k - min \in Nat /\ n \in Nat \ {0}
      BY <2>2, <3>8, <2>6
    <3>11. (d <= k - min /\ k - min < d + size) <=> n = ((k - min) \div size) + 1
      BY <1>1, <3>10, Slot DEF d
    <3> QED
      BY <3>9, <3>11
  <2>12. ASSUME NEW k \in t.match
         PROVE  \E i \in 1..num : \A n \in 1..num : k \in Reads(t, cs[n]) <=> n = i
    <3> DEFINE i == ((k - min) \div size) + 1
    <3>1. i \in 1..num
      BY <2>6, <2>10
    <3>2. \A n \in 1..num : k \in Reads(t, cs[n]) <=> n = i
      BY <2>11
    <3> HIDE DEF i
    <3> QED
      BY <3>1, <3>2
  <2> QED
    BY <1>2, <2>6, <2>8, <2>12 DEF Cover, cs
<1> QED
  BY <1>3, <1>4

-----------------------------------------------------------------------------
(***************************************************************************)
(* Creating and reading the chunks.                                        *)
(***************************************************************************)

\* If the chunks agree on the order of the rows, a row was counted once when a
\* chunk with it has been read, and not before.
PartitionInv ==
  /\ TableOK(table) /\ next \in Nat
  /\ next = 0 => chunks = <<>> /\ count = [k \in table.rows |-> 0]
  /\ next > 0 =>
       /\ Cover(table, chunks) /\ next <= Len(chunks) + 1
       /\ count \in [table.rows -> Nat]
       /\ Ordered(table) =>
            /\ \A n \in 1..Len(chunks) : Steady(table, chunks[n])
            /\ \A k \in table.rows :
                 count[k] = IF \E i \in 1..(next - 1) : k \in Reads(table, chunks[i])
                              THEN 1 ELSE 0

\* Init describes tables that are in order.
LEMMA InitPartition == Init => PartitionInv
<1> SUFFICES ASSUME Init
             PROVE  PartitionInv
  OBVIOUS
<1>1. PICK rows \in {r \in SUBSET Keys : Cardinality(r) <= MaxRows},
           pages \in 1..MaxBlocks, partitioned, keyFails \in BOOLEAN,
           key \in {"none", "integer", "other"},
           strategy \in Strategies, size \in ChunkSizes, est \in Estimates :
        \E match \in SUBSET rows, block \in [rows -> 0..(pages - 1)] :
          /\ keyFails => strategy \in {"auto", "integer_range"}
          /\ key = "none" /\ ~partitioned =>
               \A j, k \in rows : j < k => block[j] <= block[k]
          /\ table = [rows |-> rows, match |-> match, block |-> block,
                      integerKey |-> key = "integer", keyless |-> key = "none",
                      keyFails |-> keyFails,
                      totalBlocks |-> IF partitioned THEN 0 ELSE pages,
                      strategy |-> strategy, chunkSize |-> size,
                      perBlock |-> est]
          /\ count = [k \in rows |-> 0]
  BY Zenon DEF Init
<1>4. PICK match \in SUBSET rows, block \in [rows -> 0..(pages - 1)] :
        /\ table = [rows |-> rows, match |-> match, block |-> block,
                    integerKey |-> key = "integer", keyless |-> key = "none",
                    keyFails |-> keyFails,
                    totalBlocks |-> IF partitioned THEN 0 ELSE pages,
                    strategy |-> strategy, chunkSize |-> size,
                    perBlock |-> est]
        /\ count = [k \in rows |-> 0]
  BY <1>1, Zenon
<1>2. pages \in Nat /\ pages <= MaxBlocks /\ MaxBlocks \in Nat
  BY PartitionAssumption
<1>3. TableOK(table)
  <2>1. /\ table.rows = rows /\ table.match = match /\ table.block = block
        /\ table.totalBlocks = (IF partitioned THEN 0 ELSE pages)
        /\ table.strategy = strategy /\ table.chunkSize = size /\ table.perBlock = est
        /\ (table.integerKey <=> key = "integer") /\ (table.keyless <=> key = "none")
    BY <1>4
  <2>2. \A k \in rows : block[k] \in Nat /\ block[k] < pages
    BY <1>2
  <2> QED
    BY <1>1, <1>2, <2>1, <2>2 DEF TableOK
<1> QED
  BY <1>3, <1>4 DEF Init, PartitionInv

\* Every strategy's chunks partition the rows.
LEMMA CreatePartition ==
  ASSUME Roomy, PartitionInv, CreateTableChunks
  PROVE  PartitionInv'
<1>1. CASE TriesRange(table) /\ RangePanics(table)
  BY <1>1 DEF CreateTableChunks, PartitionInv
<1>2. CASE ~(TriesRange(table) /\ RangePanics(table))
  <2>1. /\ chunks' = IF table.strategy = "auto" THEN ChunksAutoDetect(table)
                                                ELSE ChunksWithStrategy(table)
        /\ next = 0 /\ next' = 1 /\ table' = table /\ count' = count
    BY <1>2 DEF CreateTableChunks
  <2>2. chunks' \in {RangeChunks(table), CTIDBlockChunks(table), OffsetChunks(table)}
    BY <2>1 DEF ChunksAutoDetect, ChunksWithStrategy, PartitionInv, TableOK, Strategies
  <2>3. Cover(table, chunks')
    BY <2>2, RangeCover, CTIDCover, OffsetCover DEF PartitionInv
  <2>4. Len(chunks') \in Nat
    BY <2>3 DEF Cover
  <2>5. count' \in [table.rows -> Nat] /\ \A k \in table.rows : count'[k] = 0
    BY <2>1 DEF PartitionInv
  <2>6. ASSUME Ordered(table), table.keyless, table.totalBlocks = 0
        PROVE  \A n \in 1..Len(chunks') : chunks'[n].strategy = "ctid_block"
    <3>1. ~HasIntegerKey(table)
      BY <2>6 DEF HasIntegerKey, PartitionInv, TableOK
    <3>2. chunks' = CTIDBlockChunks(table)
      BY <2>1, <2>6, <3>1 DEF ChunksAutoDetect, ChunksWithStrategy, Ordered,
                              PartitionInv, TableOK, Strategies
    <3>3. CTIDBlockChunks(table) = <<Chunk("ctid_block", 0, <<>>, <<>>)>>
      BY <2>6 DEF CTIDBlockChunks
    <3> QED
      BY <3>2, <3>3 DEF Chunk
  <2>7. Ordered(table) => \A n \in 1..Len(chunks') : Steady(table, chunks'[n])
    BY <2>6 DEF Steady
  <2> QED
    BY <2>1, <2>3, <2>4, <2>5, <2>7 DEF PartitionInv
<1> QED
  BY <1>1, <1>2

\* Reading the next chunk counts rows that no chunk before it had.
LEMMA ProcessPartition ==
  ASSUME PartitionInv, ProcessChunk
  PROVE  PartitionInv'
<1>1. /\ next \in 1..Len(chunks) /\ next' = next + 1
      /\ table' = table /\ chunks' = chunks
  BY DEF ProcessChunk
<1>2. PICK tie \in Ties(table) :
        count' = [k \in table.rows |->
                    count[k] + IF k \in ChunkRows(table, tie, chunks[next])
                                 THEN 1 ELSE 0]
  BY DEF ProcessChunk
<1>3. next # 0
  <2>1. CASE next = 0
    <3>1. Len(chunks) = 0
      BY <2>1 DEF PartitionInv
    <3> QED
      BY <1>1, <3>1
  <2> QED
    BY <2>1
<1>4. /\ TableOK(table) /\ Cover(table, chunks) /\ next \in Nat /\ next > 0
      /\ Len(chunks) \in Nat /\ next <= Len(chunks) /\ count \in [table.rows -> Nat]
  <2>1. next \in Nat /\ next > 0
    BY <1>1, <1>3 DEF PartitionInv
  <2>2. TableOK(table) /\ Cover(table, chunks) /\ count \in [table.rows -> Nat]
    BY <2>1 DEF PartitionInv
  <2>3. Len(chunks) \in Nat
    BY <2>2 DEF Cover
  <2> QED
    BY <1>1, <2>1, <2>2, <2>3
<1>5. ASSUME Ordered(table), NEW k \in table.rows
      PROVE  count'[k] = IF \E i \in 1..next : k \in Reads(table, chunks[i])
                           THEN 1 ELSE 0
  <2>3. count[k] = IF \E i \in 1..(next - 1) : k \in Reads(table, chunks[i])
                     THEN 1 ELSE 0
    BY <1>4, <1>5 DEF PartitionInv
  <2>4. ChunkRows(table, tie, chunks[next]) = Reads(table, chunks[next])
    <3>1. Steady(table, chunks[next])
      BY <1>1, <1>4, <1>5 DEF PartitionInv
    <3> QED
      BY <1>2, <1>4, <3>1, TieFree
  <2>5. count'[k] = count[k] + IF k \in Reads(table, chunks[next]) THEN 1 ELSE 0
    BY <1>2, <2>4
  <2>1. CASE k \in Reads(table, chunks[next])
    <3>1. k \in table.match
      BY <1>1, <1>4, <2>1 DEF Cover
    <3>2. PICK i \in 1..Len(chunks) :
            \A n \in 1..Len(chunks) : k \in Reads(table, chunks[n]) <=> n = i
      BY <1>4, <3>1 DEF Cover
    <3>3. \A n \in 1..(next - 1) : k \notin Reads(table, chunks[n])
      BY <1>1, <1>4, <2>1, <3>2
    <3>4. count[k] = 0
      BY <2>3, <3>3
    <3> QED
      BY <1>1, <1>4, <2>1, <2>5, <3>4
  <2>2. CASE k \notin Reads(table, chunks[next])
    <3>1. count'[k] = count[k] /\ count[k] \in Nat
      BY <1>4, <2>2, <2>5
    <3>2. (\E i \in 1..next : k \in Reads(table, chunks[i])) <=>
            \E i \in 1..(next - 1) : k \in Reads(table, chunks[i])
      <4>1. \A i \in 1..next : i = next \/ i \in 1..(next - 1)
        BY <1>4
      <4>2. \A i \in 1..(next - 1) : i \in 1..next
        BY <1>4
      <4> QED
        BY <2>2, <4>1, <4>2
    <3> QED
      BY <2>3, <3>1, <3>2
  <2> QED
    BY <2>1, <2>2
<1>6. count' \in [table.rows -> Nat]
  BY <1>2, <1>4
<1>7. next' - 1 = next /\ next' > 0 /\ next' \in Nat /\ next' <= Len(chunks) + 1
  BY <1>1, <1>4
<1>8. Ordered(table') => \A k \in table'.rows :
        count'[k] = IF \E i \in 1..(next' - 1) : k \in Reads(table', chunks'[i])
                      THEN 1 ELSE 0
  BY <1>1, <1>5, <1>7
<1>9. TableOK(table') /\ Cover(table', chunks') /\ count' \in [table'.rows -> Nat]
  BY <1>1, <1>4, <1>6
<1>11. Ordered(table') => \A n \in 1..Len(chunks') : Steady(table', chunks'[n])
  BY <1>1, <1>4 DEF PartitionInv
<1>10. next' \in Nat /\ next' > 0 /\ next' # 0 /\ next' <= Len(chunks') + 1
  BY <1>1, <1>7
<1> QED
  BY <1>8, <1>9, <1>10, <1>11 DEF PartitionInv

\* The chunks partition the rows: for every table, strategy and chunk size for
\* which no sum leaves the integers, a snapshot that has read every chunk has
\* handed each row that satisfies the query condition to the listener exactly
\* once, and no other row.  A partitioned table without a key is the exception
\* when it is read by offset.
THEOREM ChunksPartitionRows == Roomy => (Spec => []ExactlyOnce)
<1> SUFFICES ASSUME Roomy
             PROVE  Spec => []ExactlyOnce
  OBVIOUS
<1>1. PartitionInv /\ [Next]_vars => PartitionInv'
  <2> SUFFICES ASSUME PartitionInv, [Next]_vars
               PROVE  PartitionInv'
    OBVIOUS
  <2>1. CASE UNCHANGED vars
    BY <2>1 DEF vars, PartitionInv
  <2> QED
    BY <2>1, CreatePartition, ProcessPartition DEF Next
<1>2. PartitionInv => ExactlyOnce
  <2> SUFFICES ASSUME PartitionInv, AllRead, Ordered(table), NEW k \in table.rows
               PROVE  count[k] = IF k \in table.match THEN 1 ELSE 0
    BY DEF ExactlyOnce, EachRowOnce
  <2>1. /\ Cover(table, chunks) /\ Len(chunks) \in Nat /\ next - 1 = Len(chunks)
        /\ count[k] = IF \E i \in 1..(next - 1) : k \in Reads(table, chunks[i])
                        THEN 1 ELSE 0
    BY DEF AllRead, PartitionInv, Cover
  <2>2. (\E i \in 1..Len(chunks) : k \in Reads(table, chunks[i])) <=> k \in table.match
    BY <2>1 DEF Cover
  <2> QED
    BY <2>1, <2>2
<1> QED
  BY InitPartition, <1>1, <1>2, PTL DEF Spec
=============================================================================
