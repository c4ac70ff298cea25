SPECIFICATION FairSpec
CONSTANTS
  MaxTaps <- OnceRound
  MaxTimers <- ThreeAtOnce
INVARIANTS
  TypeOK
  ScoreIsDeserved
  ScreenFollows
PROPERTIES
  LagIsBrief
CHECK_DEADLOCK FALSE
