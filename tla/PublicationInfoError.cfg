SPECIFICATION Spec
CONSTANTS
  Instances = {a}
  Tables = {"t1", "t2", "hb"}
  Heartbeat = "hb"
  Deployments <- PlainConfigs
  Databases <- AllDatabases
  MaxRestarts = 0
CHECK_DEADLOCK FALSE
INVARIANT ConfigTakesEffect
