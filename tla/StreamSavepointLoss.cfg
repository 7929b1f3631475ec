SPECIFICATION Spec
CONSTANTS
  Xids <- TwoXids
  Wals <- SavepointWal
  Streaming = TRUE
  ChanCap = 2
  MaxUnacked = 1
  UseAckLSN = FALSE
  MayCancel = FALSE
  SnapshotLSN = 0
  MaxFaults = 0
INVARIANTS AtLeastOnce
