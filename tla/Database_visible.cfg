CONSTANTS
  r1 = r1
  r2 = r2
  TableNames = {t1}
  Rows = {r1, r2}
  BadRow = bad
  Batches <- MCBatches3
  Oversized <- MCOversized
  Frontend = "library"
  Faults = {"torn", "power", "full"}
  MaxStmts = 4
SPECIFICATION SpecVisible
INVARIANT AckedSurvive
PROPERTY ImplementsDurableStore
