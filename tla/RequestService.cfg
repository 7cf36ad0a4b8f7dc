SPECIFICATION FairSpec
CONSTANTS
  sim = sim
  opt = opt
  c1 = c1
  c2 = c2
  c3 = c3
  Nil = Nil
  Calls = {c1, c2, c3}
  Workers <- MCWorkers
  Target <- MCTargetOne
  GridWorkers <- MCGridWorkers
  StopOrder <- MCStopOrder
  QueueCap = 1
  Faults = {"db", "crash"}
CONSTRAINT InOrder
INVARIANTS
  TypeOK
  StoredWhole
  CallsFailOnlyAfterDeadline
PROPERTIES
  ImplementsCalls
  AcceptedRuns
  ShutdownEnds
CHECK_DEADLOCK FALSE
