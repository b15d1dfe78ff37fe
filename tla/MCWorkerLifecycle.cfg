CONSTANTS
  MaxSpawns = 3
  NoWorker = null
  MaxFaults = 2
SPECIFICATION FairSpec
INVARIANTS TypeOK RunningIsManaged
PROPERTIES ReportsFollowWorker
CHECK_DEADLOCK FALSE
