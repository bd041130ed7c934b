CONSTANTS
  s = s  b = b  c = c  Null = Null
  Node = {s, b, c}
  Flow <- Flows
  Path <- Paths
  MaxLinks = 2
  MaxTasks = 2
SPECIFICATION Spec
INVARIANTS RcvpPaid ListSorted HeardBacked
CHECK_DEADLOCK FALSE
