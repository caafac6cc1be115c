CONSTANTS
    Executors = {x1}
    Runs = {r1, r2, r3}
    NumOps = 3
    Kind <- ReadWriteStep
    Throwing = {3}
    Vals = {a, b}
    Args = {i}
    Err = Err
    NoRow = NoRow
    MaxAttempts = 2
    MaxTries = 1
    Exclusive = TRUE
    CommitAborts = FALSE
    MaxInvokes = 1
    MaxCrashes = 2
    MaxFaults = 1
    MaxAdmin = 0
SPECIFICATION FairSpec
CHECK_DEADLOCK FALSE
INVARIANTS RecoveriesBounded
PROPERTIES RunsToCompletion CompleteStepNotRerun
