CONSTANTS
  Instances = {a, b}
  Nobody = Nobody
  Chunks = {1, 2}
  MaxExecute = 2
  MaxPrepare = 2
  MaxExports = 2
  Settings <- ErringPair
SPECIFICATION Spec
CHECK_DEADLOCK FALSE
SYMMETRY InstanceSymmetry
INVARIANT ZeroDataLoss
