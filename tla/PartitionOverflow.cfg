CONSTANTS
  HalfRange = 16
  Keys <- TopKeys
  MaxRows = 2
  MaxBlocks = 1
  ChunkSizes = {2, 3}
  Estimates = {1}
  MaxAlloc = 16
SPECIFICATION Spec
CHECK_DEADLOCK FALSE
INVARIANT ExactlyOnce
