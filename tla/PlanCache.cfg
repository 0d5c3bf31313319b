SPECIFICATION FairSpec
CONSTANTS
    Threads = {t1, t2}
    Queries = {"q1"}
    Capacities = {0, 1}
    MaxCalls = 3
    MaxEpoch = 1
    MaxCatalog = 1
INVARIANTS CacheSound SingleFlight
PROPERTIES CallsReturn
CHECK_DEADLOCK FALSE
