CONSTANTS
  TableNames = {"T"}
  Ttl <- MCTtl
  Registers = TRUE
  Callers = {"a"}
  MaxRows = 2
  MaxTime = 4
  MaxStarts = 1
  MaxRestarts = 0
SPECIFICATION LifeFairSpec
INVARIANTS ExpiredNotShown
CHECK_DEADLOCK FALSE
