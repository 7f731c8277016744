CONSTANTS
  ChunkSize = 48
  Sizes = {}
  Schemas <- MCSchemas
  Offered <- MCOffered
  Ttls = {0, 1}
  MaxRows = 3
  MaxTime = 4
SPECIFICATION Spec
INVARIANTS BlocksDisjoint BlocksInside ReadBack LiveInTime IndexAgrees
CHECK_DEADLOCK FALSE
