SPECIFICATION Spec
CONSTANTS
  d1 = d1
  d2 = d2
  d3 = d3
  u1 = u1
  u2 = u2
  p1 = p1
  p2 = p2
  Doc <- Docs3
  User <- OneUser
  NoUser = NoUser
  Env <- SendingEnv
  MaxBacklog = 4
  WellFormed <- WellFormed2
  Placeholder <- Placeholders
  MaxSignIns = 0
  MaxRelaunches = 0
SYMMETRY SymmetricDocs
INVARIANTS
  TypeOK
  TableLagsOnlyBriefly
  RowFailsOnlyAfterLoss
  UnsentTextIsSafe
  ScrollFailsOnlyAfterLoss
CHECK_DEADLOCK FALSE
