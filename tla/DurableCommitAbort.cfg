CONSTANTS
    Executors = {x1}
    Runs = {r1, r2}
    NumOps = 3
    Kind <- ReadWriteStep
    Throwing = {}
    Vals = {a, b}
    Args = {i}
    Err = Err
    NoRow = NoRow
    MaxAttempts = 3
    MaxTries = 1
    Exclusive = TRUE
    CommitAborts = TRUE
    MaxInvokes = 1
    MaxCrashes = 1
    MaxFaults = 1
    MaxAdmin = 0
SPECIFICATION Spec
CHECK_DEADLOCK FALSE
INVARIANTS NoGaps
