SPECIFICATION FeatureSpec
CONSTANTS
  tashan = tashan
  tuojiang = tuojiang
  None = None
  Requests = {r1, r2, r3}
  Dams = {tashan, tuojiang}
  Design <- MCDesign
  Asked <- MCAsked
  Pressures = {0, 190, 600}
  NX = 5
  NY = 5
  Sections <- MCSections
  Waters <- MCWaters
  Covers <- MCCovers
  NoCover = NoCover
  MinIter = 2
  MaxIter = 12
  Wearings <- MCWearings
  FlowRatios = {900, 6000}
  Frequencies = {"high", "low", ""}
  Spans <- MCSpans
  BuildYears = {833}
  NoDam = NoDam
  Now = 2024
  DefaultYears = 10
  Limit = 3
  weir = weir
  gravity = gravity
  KnownDams = {weir, gravity}
  Unknown = Unknown
  Ancient = {weir}
  Findings <- MCFindings
  MostKeys = 3
  Huge = 100
SYMMETRY RequestSymmetry
INVARIANTS
  FeatureTypes
  NeverUnderReported
  MaximumPrinciple
  SteadyButForLifts
  ForecastTells
  ComparisonTells
PROPERTIES
  LeftOnlyWithMargin
CHECK_DEADLOCK FALSE
