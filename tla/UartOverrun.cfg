SPECIFICATION Spec
CONSTANTS
  Byte = {0, 1}
  FIFO_SIZE = 2
  Keys = {0, 1}
  Cycles = {1, 2}
  PowerOn = {0}
  PowerOnClocks = {0}
  CLOCK_FLOOR <- MCFloor
  DLLs = {1}
  DLMs = {0}
  FCRs <- MCFCRs
  LCRs <- MCLCRs
  MCRs <- MCMCRs
  IERs <- MCIERs
PROPERTIES OverrunMeansLoss
