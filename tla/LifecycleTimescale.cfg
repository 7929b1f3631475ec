SPECIFICATION Spec
CONSTANTS
  Configs <- WithTimescale
  ChanCap = 1
CHECK_DEADLOCK FALSE
INVARIANT NothingLeaks
