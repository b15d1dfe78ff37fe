CONSTANTS
  Parts = {"commands", "decoder"}
  None = none
  MaxCommands = 2
  MaxSeq = 1
  MaxFaults = 2
  MaxAttempts = 2
  MaxGap = 1
  MaxCatchUp = 2
  MaxPassings = 3
  MaxOutages = 2
SPECIFICATION FairSpec
INVARIANTS TypeOK OneAtATime WindowsOrdered Accounted
PROPERTIES QueueServed CatchUpEnds
CHECK_DEADLOCK FALSE
