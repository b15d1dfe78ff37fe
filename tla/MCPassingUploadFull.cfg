CONSTANTS
  Passings = {p1, p2, p3}
  MaxBatch = 2
  MaxQueue = 2
  MaxAdds = 4
  MaxFaults = 3
SPECIFICATION Spec
INVARIANT NoSilentLoss
CHECK_DEADLOCK FALSE
