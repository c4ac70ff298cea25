SPECIFICATION Spec
CONSTANTS
  d1 = d1
  d2 = d2
  d3 = d3
  u1 = u1
  u2 = u2
  p1 = p1
  p2 = p2
  Doc <- Docs2
  User <- TwoUsers
  NoUser = NoUser
  Env <- RestartEnv
  MaxBacklog = 3
  WellFormed <- WellFormed2
  Placeholder <- Placeholders
  MaxSignIns = 0
  MaxRelaunches = 1
INVARIANTS
  CompletionsAreTruthful
PROPERTIES
  LifecycleHolds
CHECK_DEADLOCK FALSE
