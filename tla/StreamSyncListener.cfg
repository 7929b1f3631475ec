SPECIFICATION FairSpec
CONSTANTS
  Xids <- TwoXids
  Wals <- ListenerWals
  Streaming = TRUE
  ChanCap = 1
  MaxUnacked = 1
  UseAckLSN = FALSE
  MayCancel = FALSE
  SnapshotLSN = 3
  MaxFaults = 2
PROPERTIES HonoursContract EverythingProcessed SlotCatchesUp
