CONSTANTS
    Executors = {e1}
    Workflows = {w1, w2}
    Id <- AllLocal
    Concurrency = 1
    Limited = FALSE
    Limit = 1
    Period = 1
    MaxAttempts = 2
    NoRow = NoRow
    MaxDispatch = 1
    MaxTime = 1
    MaxCalls = 2
    MaxCrashes = 2
    MaxCancels = 1
SPECIFICATION FairSpec
PROPERTIES RowsReleased PendingEnds
