SPECIFICATION SolverSpec
CONSTANTS
  NX = 5
  NY = 5
  Sections <- MCSections
  Waters <- MCWaters
  Covers <- MCCovers
  NoCover = NoCover
  MinIter = 2
  MaxIter = 12
INVARIANTS
  EfficiencyShowsSaving
CHECK_DEADLOCK FALSE
