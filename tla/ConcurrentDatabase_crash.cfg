CONSTANTS
  Threads = {h1, h2}
  Names = {T, U}
  MaxStmts = 3
  MaxSnapshots = 2
SPECIFICATION DbSpec
SYMMETRY Symmetry
INVARIANTS CalmAckedSurvive RefusedLeaveTheSame
CHECK_DEADLOCK FALSE
