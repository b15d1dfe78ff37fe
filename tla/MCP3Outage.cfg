CONSTANTS
  Parts = {"decoder"}
  None = none
  MaxCommands = 2
  MaxSeq = 1
  MaxFaults = 1
  MaxAttempts = 2
  MaxGap = 2
  MaxCatchUp = 2
  MaxPassings = 3
  MaxOutages = 1
SPECIFICATION Spec
INVARIANT OutageCaughtUp
CHECK_DEADLOCK FALSE
