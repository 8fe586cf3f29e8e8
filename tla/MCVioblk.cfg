CONSTANTS
  Thread = {t1, t2}
  NULL = NULL
  BLKSZ = 2
  BLKCNT = 2
  Byte = {0, 1}
  Sizes = {1, 3}
  Setting <- Settings
  CALLS = 2
SPECIFICATION FairSpec
INVARIANTS CopyIsFresh OneRequest CountIsOnDisk
PROPERTIES WritesOnlyChunk SyscallReturns
CHECK_DEADLOCK FALSE
