SPECIFICATION FairSpec
CONSTANTS
  Paths = {a}
  MaxDrops = 0
PROPERTY CloseReturns
CHECK_DEADLOCK FALSE
