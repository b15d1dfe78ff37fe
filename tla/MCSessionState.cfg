CONSTANTS
  Parts = {"commands"}
  None = none
  MaxCommands = 2
  MaxSeq = 1
  MaxFaults = 1
  MaxAttempts = 2
  MaxGap = 1
  MaxCatchUp = 2
  MaxPassings = 3
  MaxOutages = 1
SPECIFICATION Spec
INVARIANT StateFitsMeasurement
CHECK_DEADLOCK FALSE
