CONSTANTS
  Workers = {w1, w2}
  TableNames = {"T", "U"}
  Rows <- MCRows
  BadRow = bad
  Batches <- MCPartial
  Oversized <- NoBatches
  Queries <- ConcurrentQueries
  Recovered <- Loaded
  Upper <- MCUpper
  Capacity = 2
  MaxStmts = 3
SPECIFICATION FairSpec
INVARIANTS PastAnswers AckedShown EffectIsExecSql
PROPERTY AllAnswered
CHECK_DEADLOCK FALSE
