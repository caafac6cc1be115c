CONSTANTS
    Executors = {x1}
    Runs = {r1, r2}
    NumOps = 3
    Kind <- ReadSendStep
    Throwing = {2, 3}
    Vals = {a, b}
    Args = {i}
    Err = Err
    NoRow = NoRow
    MaxAttempts = 3
    MaxTries = 1
    Exclusive = FALSE
    CommitAborts = FALSE
    MaxInvokes = 2
    MaxCrashes = 0
    MaxFaults = 1
    MaxAdmin = 0
SPECIFICATION FairSpec
CHECK_DEADLOCK FALSE
PROPERTIES WaitersReturn OutputStable
