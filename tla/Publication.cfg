SPECIFICATION Spec
CONSTANTS
  Instances = {a, b, c}
  Tables = {"t1", "t2", "hb"}
  Heartbeat = "hb"
  Deployments <- SameConfigs
  Databases <- AllDatabases
  MaxRestarts = 1
CHECK_DEADLOCK FALSE
INVARIANTS
  TypeOK
  PublicationMatches
  IdentitiesMatch
  WhatItUsesIsStreamed
PROPERTIES
  NoOpinionNoChange
  SomeoneStarts
