CONSTANTS
  Instances = {a, b}
  Nobody = Nobody
  Chunks = {1, 2}
  MaxExecute = 2
  MaxPrepare = 2
  MaxExports = 2
  Settings <- Faulty
SPECIFICATION Spec
CHECK_DEADLOCK FALSE
SYMMETRY InstanceSymmetry
INVARIANTS ZeroDataLossAlone ConsistentAfterCrash NoChunkSkippedAlone ExportCompleteAlone
