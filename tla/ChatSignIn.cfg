SPECIFICATION FairSpec
CONSTANTS
  u1 = u1
  User <- Users1
  NoUser = NoUser
  MaxVisits = 2
  MaxPresses = 3
  MaxRelaunches = 1
INVARIANTS
  TypeOK
  ChatMeansSignedIn
  WarningIsHonest
  LoggedOutStaysOut
  OneChatPerPress
PROPERTIES
  PressIsAnswered
CHECK_DEADLOCK FALSE
