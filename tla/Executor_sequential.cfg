CONSTANTS
  Workers = {w1}
  TableNames = {"T", "U"}
  Rows <- MCRows
  BadRow = bad
  Batches <- MCBatches
  Oversized <- NoBatches
  Queries <- SequentialQueries
  Recovered <- Fresh
  Upper <- MCUpper
  Capacity = 2
  MaxStmts = 6
SPECIFICATION Spec
INVARIANTS FreshAnswers CacheTracked
CHECK_DEADLOCK FALSE
