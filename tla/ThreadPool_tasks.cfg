CONSTANTS
  Workers = {w1, w2}
  Clients = {c1, c2}
  Tasks = {t1, t2, t3}
  MayStop = TRUE
SPECIFICATION FairSpec
INVARIANTS EachTaskOnce ShutdownDrains
PROPERTIES AcceptedRuns ShutdownReturnsUnlessLost IsWorkPool
CHECK_DEADLOCK FALSE
