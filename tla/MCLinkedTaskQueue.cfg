CONSTANTS
  Task = {t1, t2, t3, t4}
  Null = Null
SPECIFICATION Spec
INVARIANTS WellLinked
PROPERTIES ImplementsTaskQueue CleanupFreesQueue
SYMMETRY Symmetry
CHECK_DEADLOCK FALSE
