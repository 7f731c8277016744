CONSTANTS
  c1 = c1
  c2 = c2
  Workers = {w1}
  Tasks = {c1, c2}
  Queries <- ServingQueries
  Mortal = {c2}
  MaxExecs <- ServingExecs
  MaxSignals = 1
  SignalPoints = {"start", "listening", "loop", "accept", "submit", "locked"}
SPECIFICATION FairSpec
INVARIANTS AnswersOwnQuery ExecutedOnce SnapshotIsFinal
PROPERTIES ExecReturns StopCompletes
CHECK_DEADLOCK FALSE
