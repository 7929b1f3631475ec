CONSTANTS
  Instances = {a}
  Nobody = Nobody
  Chunks = {1, 2}
  MaxExecute = 2
  MaxPrepare = 2
  MaxExports = 2
  Settings <- HiddenCommit
SPECIFICATION Spec
CHECK_DEADLOCK FALSE
INVARIANT ZeroDataLoss
