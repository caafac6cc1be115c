CONSTANTS
    Executors = {e1, e2}
    Workflows = {w1, w2}
    Id <- AllLocal
    Concurrency = 1
    Limited = TRUE
    Limit = 1
    Period = 2
    MaxAttempts = 3
    NoRow = NoRow
    MaxDispatch = 1
    MaxTime = 3
    MaxCalls = 1
    MaxCrashes = 0
    MaxCancels = 0
SYMMETRY QueueSymmetry
SPECIFICATION Spec
INVARIANTS RateRespected ConcurrencyRespected ClaimedOnce RowsHaveInputs
