SPECIFICATION FairSpec
CONSTANTS
  Nil = Nil
  Posts = {p1, p2}
  Triggers = {t1}
  Bodies <- MCBodies
  EnvConfigs <- MCEnv
  Defaults <- MCDefaults
INVARIANTS
  TypeOK
  SensorsFollowConfig
  LatestIsNewest
PROPERTIES
  NobodyWaitsForEver
CHECK_DEADLOCK FALSE
