SPECIFICATION FairSpec
CONSTANTS
  MaxFlowers <- ThreePhotos
INVARIANTS
  MismatchHasCause
PROPERTIES
  NeverLeftBlank
CHECK_DEADLOCK FALSE
