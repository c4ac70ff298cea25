SPECIFICATION Spec
CONSTANTS
  short = short
  long = long
  NoText = NoText
  Titles <- Titles3
  Texts <- Texts2
  TextsIn <- TextsIn3
  MaxObjects = 5
  MaxRelaunches = 1
INVARIANTS
  TypeOK
  RowsFollowResults
  RaisesOnlyAfterFailedCommit
  ShownIsSaved
  SearchIsSound
PROPERTIES
  TypingOnlyNarrows
  SavedOnlyWhenMade
CHECK_DEADLOCK FALSE
