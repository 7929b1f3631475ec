SPECIFICATION Spec
CONSTANTS
  Xids <- TwoXids
  Wals <- PlainWals
  Streaming = TRUE
  ChanCap = 1
  MaxUnacked = 2
  UseAckLSN = TRUE
  MayCancel = FALSE
  SnapshotLSN = 0
  MaxFaults = 2
INVARIANTS TypeOK DeliveryInv AtLeastOnce OnlyCommittedDelivered CommitContext LastMeansComplete CommitOrder
PROPERTIES HonoursContract
