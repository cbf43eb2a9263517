SPECIFICATION Spec
CONSTANTS
  SYSCALL_MAX_FDS = 2
  ARESFS_MAX_OPEN_FILES = 3
  Path = {"f"}
  EDITOR_BUFFER_SIZE = 5
  EDITOR_TEXT_ROWS = 2
  EDITOR_SCREEN_COLS = 2
  Char <- MCChar
  Programs = 2
INVARIANTS
  CursorOnCharacter
  
  DescriptorsPaired
PROPERTY VerticalMoves
CHECK_DEADLOCK FALSE
