CONSTANTS
  HalfRange = 16
  Keys <- SparseKeys
  MaxRows = 2
  MaxBlocks = 1
  ChunkSizes = {1, 2}
  Estimates = {1}
  MaxAlloc = 8
SPECIFICATION Spec
CHECK_DEADLOCK FALSE
INVARIANT SparseKeysHandled
