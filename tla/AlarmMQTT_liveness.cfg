SPECIFICATION FairSpec
CONSTANTS
  s1 = s1
  s2 = s2
  Nil = Nil
  Alarms = {a1, a2}
  Sensors = {s1}
  Values = {2}
  Config <- MCConfig
  ChanCap = 1
  MaxRetries = 1
  Faults = {"crash"}
  MaxOffers = 2
  MaxStarts = 1
PROPERTIES
  AlarmSettles
  StopTerminates
CHECK_DEADLOCK FALSE
