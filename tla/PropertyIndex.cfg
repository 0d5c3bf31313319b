SPECIFICATION Spec
CONSTANTS
  t1 = t1
  t2 = t2
  v1 = v1
  v2 = v2
  a = a
  b = b
  None = None
  Same = Same
  Txn = {t1, t2}
  Vid = {v1, v2}
  Val = {a, b}
  MaxIndex = 2
  Scenarios <- AllScenarios
INVARIANTS PublishedExact CatalogSound
CHECK_DEADLOCK FALSE
