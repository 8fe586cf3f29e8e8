CONSTANTS
  Thread = {t1}
  NULL = NULL
  BLKSZ = 2
  BLKCNT = 2
  Byte = {0, 1}
  Sizes = {1, 3}
  Setting <- Boot
  CALLS = 2
SPECIFICATION FairSpec
PROPERTY CallReturns
CHECK_DEADLOCK FALSE
