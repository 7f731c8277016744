CONSTANTS
  Workers = {w1}
  TableNames = {"T", "U"}
  Rows <- MCRows
  BadRow = bad
  Batches <- MCOneRow
  Oversized <- NoBatches
  Queries <- JoinQueries
  Recovered <- Loaded
  Upper <- MCUpper
  Capacity = 2
  MaxStmts = 4
SPECIFICATION Spec
INVARIANT FreshAnswers
CHECK_DEADLOCK FALSE
