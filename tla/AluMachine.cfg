SPECIFICATION Spec
CONSTANTS
  Words <- MCWords
  Flags <- MCFlags
  MAX_OPS = 1
INVARIANTS AluTypeOK AdditionIsExact SubtractionOfBytesIsExact
  DecimalAdditionIsExact AdditionOfBytesChains CompareIsSubtract RotationUndone
PROPERTIES TestBitsMask
