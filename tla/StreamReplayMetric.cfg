SPECIFICATION Spec
CONSTANTS
  Xids <- TwoXids
  Wals <- NestedWal
  Streaming = FALSE
  ChanCap = 2
  MaxUnacked = 1
  UseAckLSN = FALSE
  MayCancel = FALSE
  SnapshotLSN = 0
  MaxFaults = 1
INVARIANTS ReplayIsNotNew
