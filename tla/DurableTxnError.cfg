CONSTANTS
    Executors = {x1}
    Runs = {r1, r2, r3}
    NumOps = 1
    Kind <- OneWrite
    Throwing = {1}
    Vals = {a, b}
    Args = {i}
    Err = Err
    NoRow = NoRow
    MaxAttempts = 3
    MaxTries = 1
    Exclusive = TRUE
    CommitAborts = FALSE
    MaxInvokes = 1
    MaxCrashes = 1
    MaxFaults = 0
    MaxAdmin = 0
SPECIFICATION FairSpec
CHECK_DEADLOCK FALSE
PROPERTIES RunsToCompletion
