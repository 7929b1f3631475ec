CONSTANTS
  Instances = {a, b}
  Nobody = Nobody
  Chunks = {1, 2}
  MaxExecute = 2
  MaxPrepare = 2
  MaxExports = 2
  Settings <- CrashingPair
SPECIFICATION Spec
CHECK_DEADLOCK FALSE
SYMMETRY InstanceSymmetry
\* Neither of the two holds: check one at a time.
INVARIANT ZeroDataLoss
\* PROPERTY CompletedJobKept
