SPECIFICATION Spec
CONSTANTS
  Instances = {a, b}
  Tables = {"t1", "t2", "hb"}
  Heartbeat = "hb"
  Deployments <- Rolling
  Databases <- AllDatabases
  MaxRestarts = 0
CHECK_DEADLOCK FALSE
INVARIANT EveryConfigPublished
