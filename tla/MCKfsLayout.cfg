CONSTANTS
  Process = {p}
  FS_MAXOPEN = 2
  FS_BLKSZ = 2
  Content <- FullBlock
  Asked = {1, 4}
  Written <- NoBytes
  p = p
SPECIFICATION Spec
PROPERTY ImplementsFiles
