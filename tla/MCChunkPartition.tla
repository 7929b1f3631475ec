-------------------------- MODULE MCChunkPartition --------------------------
(***************************************************************************)
(* Small instances of ChunkPartition: integers of five bits, tables of at  *)
(* most three rows.                                                        *)
(***************************************************************************)
EXTENDS ChunkPartition

\* Keys on both sides of zero, far from the ends of the integers.
MiddleKeys == -3..3

\* Keys at the upper end, within a chunk of the largest integer.
TopKeys == (MaxInt - 3)..MaxInt

\* A key span far larger than the number of rows.
SparseKeys == {-2, 0, 12}
=============================================================================
