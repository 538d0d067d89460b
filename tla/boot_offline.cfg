SPECIFICATION BootFairSpec
CONSTANTS
  Crystals = {TRUE}
  Interfaces = {"unlinked"}
  HSE_TIMEOUT = 1
  LINK_TIMEOUT = 2
  MaxTick = 6
PROPERTY LinkWaitEnds
CHECK_DEADLOCK FALSE
