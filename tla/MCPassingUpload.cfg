CONSTANTS
  Passings = {p1, p2, p3}
  MaxBatch = 2
  MaxQueue = 3
  MaxAdds = 4
  MaxFaults = 3
SPECIFICATION FairSpec
INVARIANTS TypeOK OneRowPerPassing ReliableUntilFull
PROPERTIES SeqNeverReused QueueDrains
CHECK_DEADLOCK FALSE
