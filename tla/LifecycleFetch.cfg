SPECIFICATION Spec
CONSTANTS
  Configs <- WithSnapshot
  ChanCap = 1
CHECK_DEADLOCK FALSE
PROPERTY ContextEndsRun
