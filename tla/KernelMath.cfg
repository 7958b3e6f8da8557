SPECIFICATION Spec
CONSTANTS
  Numbers <- MCNumbers
INVARIANTS PrefixInDecimal NumeralIsExact
