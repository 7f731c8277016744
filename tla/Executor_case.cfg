CONSTANTS
  Workers = {w1}
  TableNames = {"T"}
  Rows <- MCCaseRows
  BadRow = bad
  Batches <- MCCaseBatches
  Oversized <- NoBatches
  Queries <- NameQueries
  Recovered <- Loaded
  Upper <- MCUpper
  Capacity = 2
  MaxStmts = 4
SPECIFICATION Spec
INVARIANT FreshAnswers
CHECK_DEADLOCK FALSE
