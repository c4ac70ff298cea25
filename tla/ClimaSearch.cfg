SPECIFICATION FairSpec
CONSTANTS
  london = london
  saoPaulo = saoPaulo
  City <- Cities1
  Unparsable <- Texts1
  NoText = NoText
  Here = Here
  Question <- Questions
  MaxRequests = 3
  MaxPresses = 2
INVARIANTS
  StaleOnlyAfterOverlap
PROPERTIES
  EveryRequestEnds
  EveryPressIsLocated
CHECK_DEADLOCK FALSE
