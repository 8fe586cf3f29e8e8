CONSTANTS
  Process = {p, q}
  FS_MAXOPEN = 2
  FS_BLKSZ = 2
  Content <- PartBlocks
  Asked = {1, 4}
  Written <- Bytes
  p = p
  q = q
SYMMETRY Processes
SPECIFICATION Spec
INVARIANT OneCallAtDisk
PROPERTY ImplementsFiles
