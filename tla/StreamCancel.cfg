SPECIFICATION Spec
CONSTANTS
  Xids <- TwoXids
  Wals <- CancelWals
  Streaming = TRUE
  ChanCap = 2
  MaxUnacked = 1
  UseAckLSN = FALSE
  MayCancel = TRUE
  SnapshotLSN = 0
  MaxFaults = 1
INVARIANT OnlyCommittedDelivered
