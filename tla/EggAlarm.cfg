SPECIFICATION FairSpec
CONSTANTS
  Hardness <- Buttons
  EggTimes <- Times
  AlarmTime = 5
  MaxTaps = 3
INVARIANTS
  OneTimer
PROPERTIES
  AlarmIsOnTime
  EveryEggIsDone
CHECK_DEADLOCK FALSE
