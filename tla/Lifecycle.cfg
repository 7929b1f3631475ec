SPECIFICATION Spec
CONSTANTS
  Configs <- SupervisedAndDirect
  ChanCap = 1
CHECK_DEADLOCK FALSE
INVARIANTS
  TypeOK
  NoConnectionLeft
  NoFalseAlarm
  NoCrash
PROPERTIES
  RunReturns
  CloseReturns
  WaiterReleased
  Settles
