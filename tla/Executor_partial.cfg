CONSTANTS
  Workers = {w1}
  TableNames = {"T"}
  Rows <- MCRows
  BadRow = bad
  Batches <- MCPartial
  Oversized <- NoBatches
  Queries <- ScanQueries
  Recovered <- Loaded
  Upper <- MCUpper
  Capacity = 2
  MaxStmts = 4
SPECIFICATION Spec
INVARIANT FreshAnswers
CHECK_DEADLOCK FALSE
