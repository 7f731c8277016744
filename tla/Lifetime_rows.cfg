CONSTANTS
  TableNames = {"T"}
  Ttl <- MCTtl
  Registers = TRUE
  Callers = {"a"}
  MaxRows = 2
  MaxTime = 3
  MaxStarts = 1
  MaxRestarts = 2
SPECIFICATION LifeFairSpec
INVARIANTS NoSweepAfterStop ShownInTime
PROPERTIES NothingLiveLost StopReturns ExpiredSwept
CHECK_DEADLOCK FALSE
