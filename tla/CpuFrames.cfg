SPECIFICATION Spec
CONSTANTS
  PULL_LOW_FIRST = TRUE
  Vector <- MCVector
  StackLows = {0}
  StackArea <- MCStack
  Code <- MCCode
  Banks = {0, 1}
  MAX_SAVED = 2
INVARIANTS FramesTypeOK StatusSurvivesStack
PROPERTIES CallStackSpec
