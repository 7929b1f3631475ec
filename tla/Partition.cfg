CONSTANTS
  HalfRange = 16
  Keys <- MiddleKeys
  MaxRows = 3
  MaxBlocks = 2
  ChunkSizes = {1, 2, 3}
  Estimates = {1, 2}
  MaxAlloc = 16
SPECIFICATION Spec
CHECK_DEADLOCK FALSE
INVARIANT ExactlyOnce
