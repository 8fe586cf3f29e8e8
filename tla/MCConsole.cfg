CONSTANTS
  MAX_INPUT = 4
  MAX_HISTORY = 2
  MAX_ARGS = 3
  Letter <- Letters
  ExitWord <- Exit
  CHARS = 5
  BUF = 3
  LINE = 3
SPECIFICATION Spec
INVARIANTS ScreenShowsLine HistoryIsLog LineEndings EchoShowsLine
CHECK_DEADLOCK FALSE
