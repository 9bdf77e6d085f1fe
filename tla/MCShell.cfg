SPECIFICATION MCSpec
CONSTANTS
  INPUT_BUF = 3
  Char = {"[", "D"}
  Key = {"[", "D", "nl", "^D", "^U", "tab", "up", "^N", "bs", "esc", "left", "right"}
  NBUF = 3
  DEFAULT_LOAD = 5
  Name <- Names
  Tool <- Tools
  Files <- Histories
  MaxCmds = 5
  MaxKeys = 6
INVARIANT HistoryKept
PROPERTY EditsLines
CHECK_DEADLOCK FALSE
