SPECIFICATION MCSpec
CONSTANTS
    Jobs = {j1, j2}
    SingleTxn = {j1}
    Reads = {j2}
    FlushBatch = 1
    MaxDbFails = 1
    Starters = {p1, p2, p3}
    Migrators = {p1, p2}
    Migrations = 2
    Callers = {k1, k2}
    Conns = {c1, c2}
    MaxTxns = 2
    Calls = 2
    ProcClients = {"knex", "prisma"}
    MaxCrashes = 2
    MaxAborts = 1
    BodyLength = 2
    OpKinds = {"write", "read", "step", "send", "recv", "setEvent", "getEvent", "sleep", "sleep0", "childStatus", "retrieveStatus"}
    MaxReplayCrashes = 1
    Requests = {q1, q2}
    Endpoints = {"transaction", "workflow", "step", "handler"}
    ClassNames = {"A", "B"}
    FunctionNames = {"f"}
    InstanceNames = {"i"}
    MaxDeploys = 2
INVARIANTS NothingDropped InputsFollowStatus ReadyMeansUsable AbortedLeavesNothing
           ProcedureOnce ReplayFaithful AnsweredAlike RecoversTheSame ValidatedAlike
PROPERTIES StopsWhenAsked EveryRequestAnswered
CHECK_DEADLOCK FALSE
