CONSTANTS
  Life = 4
  MaxTasks = 4
  MaxEntries = 2
SPECIFICATION FairSpec
INVARIANTS TypeOK OneWatch
PROPERTIES LossNoticed
CHECK_DEADLOCK FALSE
