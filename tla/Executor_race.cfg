CONSTANTS
  Workers = {w1, w2}
  TableNames = {"T"}
  Rows <- MCRows
  BadRow = bad
  Batches <- MCOneRow
  Oversized <- NoBatches
  Queries <- ScanQueries
  Recovered <- Loaded
  Upper <- MCUpper
  Capacity = 2
  MaxStmts = 4
SPECIFICATION Spec
INVARIANT FreshAnswers
CHECK_DEADLOCK FALSE
