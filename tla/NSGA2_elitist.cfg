SPECIFICATION Spec
CONSTANTS
  PopulationSize = 4
  MaxGenerations = 4
  Window = 2
  Most = 9
  Founders <- MCFounders
  Bred <- MCBred
PROPERTIES
  Elitist
CHECK_DEADLOCK FALSE
