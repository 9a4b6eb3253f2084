SPECIFICATION FairSpec
CONSTANTS
  empty = empty
  frontEnd = frontEnd
  frontEnd2 = frontEnd2
  Lists <- AllLists
  EmptyList = empty
  Editors <- Renaming
  MaxTime = 3
  MaxEdits = 1
CHECK_DEADLOCK FALSE
PROPERTY
  Converges
