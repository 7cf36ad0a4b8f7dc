SPECIFICATION Spec
CONSTANTS
  PopulationSize = 4
  MaxGenerations = 4
  Window = 2
  Most = 9
  Founders <- MCFounders
  Bred <- MCBred
INVARIANTS
  TypeOK
  FrontsAreRanks
  AnswerIsBestOffered
PROPERTIES
  ExtremesKept
CHECK_DEADLOCK FALSE
