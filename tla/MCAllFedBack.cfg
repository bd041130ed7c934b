CONSTANTS
  Packet = {p1, p2}
  MaxLen = 2
  Retries = 2
  MaxId = 2
  NeighIds = {}
  SlowHook = FALSE
SPECIFICATION FairSpec
PROPERTIES AllFedBack
CHECK_DEADLOCK FALSE
