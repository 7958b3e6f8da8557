SPECIFICATION Spec
CONSTANTS
  PULL_LOW_FIRST = TRUE
  Vector <- MCVector
  StackLows = {0, 1}
  StackArea <- MCStack
  Words <- MCWords
  MAX_HELD = 2
  Statuses = {0, 255}
  Masks = {16, 32}
INVARIANTS RegistersTypeOK IndexFitsEmulation
PROPERTIES HiddenByteKept
