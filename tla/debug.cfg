SPECIFICATION FairSpec
CONSTANTS
  Prog <- MCProg
  SliceLen = 2
  MaxBreak = 1
  MaxCmds = 5
  BreakAt <- MCBreakAt
  Restarts = TRUE
CHECK_DEADLOCK FALSE
INVARIANTS InspectQuiet StepIsOne NoSpuriousStop
PROPERTIES PauseStops StopSpec
