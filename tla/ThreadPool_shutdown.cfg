CONSTANTS
  Workers = {w1, w2}
  Clients = {c1}
  Tasks = {t1}
  MayStop = TRUE
SPECIFICATION FairSpec
PROPERTY ShutdownReturnsEventually
CHECK_DEADLOCK FALSE
