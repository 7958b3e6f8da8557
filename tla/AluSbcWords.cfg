SPECIFICATION Spec
CONSTANTS
  Words <- MCWords
  Flags <- MCFlags
  MAX_OPS = 1
INVARIANTS SubtractionOfWordsBorrows
