CONSTANTS
  Instances = {a, b}
  Nobody = Nobody
  Chunks = {1, 2}
  MaxExecute = 2
  MaxPrepare = 2
  MaxExports = 2
  Settings <- ResnapshotPair
SPECIFICATION FairSpec
CHECK_DEADLOCK FALSE
PROPERTY JobCompletes
