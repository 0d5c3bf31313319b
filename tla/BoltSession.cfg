SPECIFICATION FairSpec
CONSTANTS
    Kinds = {"Begin", "Run", "Commit", "Rollback", "Reset", "Route", "Goodbye"}
    MaxPull = 1
    MaxQid = 0
    MaxRequests = 3
    Window = 2
    MaxRows = 1
CHECK_DEADLOCK FALSE
INVARIANTS AnsweredInOrder InterruptsExact SessionSound AnswersAreTrue
PROPERTIES SessionsEnd
