SPECIFICATION Spec
CONSTANTS
  s1 = s1
  s2 = s2
  Nil = Nil
  Alarms = {a1, a2}
  Sensors = {s1}
  Values = {0, 1, 2}
  Config <- MCConfig
  ChanCap = 1
  MaxRetries = 1
  Faults = {"db", "late", "crash"}
  MaxOffers = 2
  MaxStarts = 1
PROPERTIES
  DangerMaskedOnlyByAlarm
CHECK_DEADLOCK FALSE
