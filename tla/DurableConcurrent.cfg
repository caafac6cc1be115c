CONSTANTS
    Executors = {x1, x2}
    Runs = {r1, r2}
    NumOps = 4
    Kind <- ReadGetEventWriteStep
    Throwing = {4}
    Vals = {a, b}
    Args = {i}
    Err = Err
    NoRow = NoRow
    MaxAttempts = 3
    MaxTries = 2
    Exclusive = FALSE
    CommitAborts = FALSE
    MaxInvokes = 2
    MaxCrashes = 1
    MaxFaults = 0
    MaxAdmin = 0
SYMMETRY RunSymmetry
SPECIFICATION Spec
CHECK_DEADLOCK FALSE
INVARIANTS TypeOK ExactlyOnce ObservedRecorded NoGaps
PROPERTIES CausalRecord JournalSpec
