CONSTANTS
  MaxSpawns = 3
  NoWorker = null
  MaxFaults = 2
SPECIFICATION Spec
INVARIANT Singleton
CHECK_DEADLOCK FALSE
