SPECIFICATION Spec
CONSTANTS
  Xids <- TwoXids
  Wals <- PlainWals
  Streaming = FALSE
  ChanCap = 2
  MaxUnacked = 1
  UseAckLSN = FALSE
  MayCancel = TRUE
  SnapshotLSN = 0
  MaxFaults = 0
INVARIANTS AtLeastOnce
