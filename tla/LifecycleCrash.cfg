SPECIFICATION Spec
CONSTANTS
  Configs <- Direct
  ChanCap = 1
CHECK_DEADLOCK FALSE
INVARIANT NeverCrashes
