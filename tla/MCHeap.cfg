CONSTANTS
  PAGE_CNT = 3
  HEAP_INIT = 6
  PAGE_SIZE = 4
  UNIT = 2
  Size = {1, 3, 5}
SPECIFICATION HeapSpec
INVARIANTS ListIsComplement BlocksApart
CHECK_DEADLOCK FALSE
