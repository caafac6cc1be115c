SPECIFICATION MCSpec
CONSTANTS
    MaxIters = 2
    Loops = {p, q}
    Patterns <- MCPatterns
    MaxClock = 5
    None = None
    LastOffset = 3
    Method = "transaction"
    Poison = {2}
    MaxRetries = 2
    Messages = {"m1", "m2"}
    WFKey <- MCWFKey
    MaxStreamFaults = 2
    Expiration = 2
    Extra = 1
    MaxDay = 6
    MaxS3Faults = 1
INVARIANTS OncePerInterval NoMessageLost BucketMatchesTable
PROPERTIES MissedMadeUp StopEnds EveryMessageRuns
CHECK_DEADLOCK FALSE
