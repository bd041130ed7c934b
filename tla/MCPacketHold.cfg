CONSTANTS
  Packet = {p1, p2, p3}
  MaxLen = 2
  Retries = 2
  MaxId = 2
  NeighIds = {2}
  SlowHook = TRUE
SPECIFICATION FairSpec
INVARIANTS TypeOK FloodsBounded
PROPERTIES GivesUp
CHECK_DEADLOCK FALSE
