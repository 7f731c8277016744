CONSTANTS
  Workers = {w1, w2}
  TableNames = {"T"}
  Rows <- MCRows
  BadRow = bad
  Batches <- MCOneRow
  Oversized <- NoBatches
  Queries <- IdQueries
  Recovered <- Loaded
  Upper <- MCUpper
  Capacity = 2
  MaxStmts = 4
SPECIFICATION Spec
INVARIANT NoIndexRace
CHECK_DEADLOCK FALSE
