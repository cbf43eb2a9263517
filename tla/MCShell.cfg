SPECIFICATION Spec
CONSTANTS
  VGA_WIDTH = 4
  VGA_HEIGHT = 2
  TabStop = 2
  SHELL_MAX_LINE = 4
  SHELL_MAX_ARGS = 2
  SHELL_HISTORY_SIZE = 2
  Prompt <- MCPrompt
  Char = {"a", " "}
  Output <- MCOutput
INVARIANTS
  EchoIsLine
  HistoryIsRecent
  
