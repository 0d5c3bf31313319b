SPECIFICATION Spec
CHECK_DEADLOCK FALSE
CONSTANTS
  Terms = {1, 2}
  MaxLog = 4
  Boundaries = {0, 1}
  MaxRestarts = 1
  MaxApplying = 2
  Keep = 1
  Batch = 1
INVARIANTS
  LogSound
PROPERTIES
  ImplementsAbstractLog
