SPECIFICATION Spec
CONSTANTS
  Configs <- Reconnecting
  ChanCap = 1
CHECK_DEADLOCK FALSE
PROPERTY Recovers
