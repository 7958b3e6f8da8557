SPECIFICATION Spec
CONSTANTS
  PULL_LOW_FIRST = TRUE
  Vector <- MCVector
  RAM_BANKS <- MCRamBanks
  ROM_SIZES <- MCRomSizes
  STACK <- MCStack
  StackLows = {255}
INVARIANTS PostTypeOK BalancedInBankZero ZeroPageKept
PROPERTIES SelfTestSpec
CHECK_DEADLOCK FALSE
