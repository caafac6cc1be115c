CONSTANTS
    Executors = {e1, e2}
    Workflows = {w1}
    Id <- OwnId
    Concurrency = 1
    Limited = FALSE
    Limit = 1
    Period = 1
    MaxAttempts = 9
    NoRow = NoRow
    MaxDispatch = 1
    MaxTime = 2
    MaxCalls = 1
    MaxCrashes = 1
    MaxCancels = 0
SPECIFICATION FairSpec
PROPERTIES PendingEnds
