SPECIFICATION Spec
CONSTANTS
  Xids <- TwoXids
  Wals <- HeartbeatAfterRow
  Streaming = FALSE
  ChanCap = 2
  MaxUnacked = 2
  UseAckLSN = FALSE
  MayCancel = FALSE
  SnapshotLSN = 0
  MaxFaults = 0
INVARIANTS AtLeastOnce
