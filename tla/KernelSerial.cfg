SPECIFICATION KSpec
CONSTANTS
  Byte = {0, 16, 33, 72, 85, 105, 170}
  FIFO_SIZE = 2
  Keys = {0, 33}
  Cycles = {2, 7}
  PowerOn = {0, 85}
  PowerOnClocks <- MCClocks
  Messages <- MCMessages
  TEST1 = 85
  TEST2 = 170
  DIVISOR = 16
  Idle = {1, 4}
INVARIANTS KTypeOK NeverUndefined ConfiguredForWriting OneByteAtATime
  FailsOnlyForAKey
PROPERTIES ConsoleSpec
