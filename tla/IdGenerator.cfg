SPECIFICATION Spec
CONSTANTS
  n1 = n1
  n2 = n2
  t1 = t1
  t2 = t2
  L = L
  M = M
  None = None
  Node = {n1, n2}
  Thread = {t1, t2}
  Name = {L, M}
  RangeSize = 2
  MaxId = 5
  Scenarios <- PassScenarios
INVARIANTS GivenOnce
CHECK_DEADLOCK FALSE
