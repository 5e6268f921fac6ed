SPECIFICATION FairSpec
CONSTANTS
  Prog <- MCProg
  SliceLen = 2
  MaxBreak = 1
  MaxCmds = 3
  BreakAt <- MCNoBreaks
  Restarts = TRUE
CHECK_DEADLOCK FALSE
PROPERTIES StopJoins
