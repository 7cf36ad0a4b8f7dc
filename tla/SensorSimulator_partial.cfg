SPECIFICATION Spec
CONSTANTS
  Nil = Nil
  Posts = {p1}
  Triggers = {t1}
  Bodies <- MCPartial
  EnvConfigs <- MCEnv
  Defaults <- MCDefaults
PROPERTIES
  PartialUpdateKeepsRest
CHECK_DEADLOCK FALSE
