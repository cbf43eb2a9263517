SPECIFICATION Spec
CONSTANTS
  INODE_TABLE_BLOCKS = 2
  INODES_PER_BLOCK = 2
  TOTAL_BLOCKS = 12
  BLOCK_SIZE = 2
  DIRECT_BLOCKS = 2
  INDIRECT_PTRS = 1
  DIRENTS_PER_BLOCK = 3
  MAX_OPEN_FILES = 2
  Path <- MCPath
  DirPath <- MCDirPath
  OpenFlags <- MCOpenFlags
  Count = {5}
  MaxTroubles = 1
INVARIANTS
  
  
  NothingLeaks
PROPERTY MountsExisting
CHECK_DEADLOCK FALSE
