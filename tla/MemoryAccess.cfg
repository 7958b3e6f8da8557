SPECIFICATION Spec
CONSTANTS
  PULL_LOW_FIRST = TRUE
  Vector <- MCVector
  BOARD <- MCBoard
  PROGRAM <- MCTabled
  STARTS <- MCStarts
  CONTENTS <- MCContents
  WATCHED <- MCWatched
  STEPS = 2
  MOVE = 3
INVARIANTS MemTypeOK LeftOnlyAtTheEnd
PROPERTIES FlatSpec
CHECK_DEADLOCK FALSE
