CONSTANTS
  NPROC = 3
  NTHR = 4
  FS_MAXOPEN = 2
  Fd = {0}
  Sig = {1, 2}
  Residue <- Residues
  OPENS = 2
SPECIFICATION Spec
INVARIANTS RefcntExact ThreadsMatch ForkNumbersThread
PROPERTIES TermAtReturn
CHECK_DEADLOCK FALSE
