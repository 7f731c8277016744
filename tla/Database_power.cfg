CONSTANTS
  r1 = r1
  r2 = r2
  TableNames = {t1}
  Rows = {r1, r2}
  BadRow = bad
  Batches <- MCBatches
  Oversized <- NoBatches
  Frontend = "library"
  Faults = {"power"}
  MaxStmts = 3
SPECIFICATION SpecCrashOnly
INVARIANT AckedSurvive
