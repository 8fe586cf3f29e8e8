CONSTANTS
  Proc = {p0, p1}
  MAIN = p0
  PAGE_CNT = 11
  VPAGES = 2
  PER_TABLE = 1
  PAGE_SIZE = 2
  Program <- Programs
  Data = {1}
  OPS = 2
SPECIFICATION Spec
INVARIANTS OneUse RunsInOwnSpace ValidatesFromBoundary
PROPERTIES Isolation ForkCopies LostOnlyByFault
CHECK_DEADLOCK FALSE
