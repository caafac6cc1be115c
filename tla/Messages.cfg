SPECIFICATION SysSpec
CONSTANTS
    Workflows <- MCWorkflows
    Clients <- MCClients
    Steps <- MCSteps
    Executions <- MCExecutions
    WorkflowOf <- MCWorkflowOf
    ProcessOf <- MCProcessOf
    Called <- MCCalled
    Timeout = 1
    MaxTime = 1
    Null = Null
INVARIANT AnswersRecorded
PROPERTY ImplementsMailbox CallsReturn
CHECK_DEADLOCK FALSE
