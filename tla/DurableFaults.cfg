CONSTANTS
    Executors = {x1}
    Runs = {r1, r2}
    NumOps = 4
    Kind <- ReadGetEventSleepWrite
    Throwing = {1, 4}
    Vals = {a, b}
    Args = {i, j}
    Err = Err
    NoRow = NoRow
    MaxAttempts = 3
    MaxTries = 1
    Exclusive = FALSE
    CommitAborts = TRUE
    MaxInvokes = 2
    MaxCrashes = 1
    MaxFaults = 1
    MaxAdmin = 1
SYMMETRY RunSymmetry
SPECIFICATION Spec
CHECK_DEADLOCK FALSE
INVARIANTS SharedInputs OutcomeRecorded
