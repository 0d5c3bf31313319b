SPECIFICATION Spec
CONSTANTS
    v1 = v1
    v2 = v2
    a = a
    b = b
    Vid = {v1, v2}
    Txn = {t1, t2}
    Val = {a, b}
    None = None
    Empty = Empty
    Same = Same
    MaxIndex = 2
    BatchSize = 2
    Interval = 2
    Scenarios <- AllScenarios
INVARIANTS IndexExact StoreWhole
PROPERTY Settles
CHECK_DEADLOCK FALSE
