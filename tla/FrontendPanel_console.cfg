SPECIFICATION FairSpec
CONSTANTS
  sim = sim
  again = again
  opt = opt
  stored = stored
  dflt = dflt
  None = None
  Ops = {sim, again, opt, stored, dflt}
  Kind <- MCKind
  Steps = 2
  Alarms = {1,2}
  Loads = {1,2}
  MaxRemovals = 2
INVARIANTS TypeOK OverlayFits ShownOfOneRun
CONSTRAINT OneAtATime
PROPERTIES HandledLeaves StaysShown
CHECK_DEADLOCK FALSE
