SPECIFICATION Spec
CONSTANTS
    s1 = s1
    v1 = v1
    v2 = v2
    x1 = x1
    o1 = o1
    Session = {s1}
    Task = {t1}
    Service = {v1, v2}
    Terminal = {x1}
    Owner = {o1}
    OwnerOf <- SessionAndTerminal
    maxProcesses = 1
    maxCompletedProcesses = 1
    maxAttempts <- OneAttempt
    RemovalFails = TRUE
    ShortWrites = FALSE
    MaxRequests = 1
INVARIANTS
    LimitHolds
    WaitingOnlyWhenFull
    StoppedForGood
    EveryGroupRecorded
    RunningIsLive
PROPERTIES
    StopAllIsComplete
    OutcomeKept
CHECK_DEADLOCK FALSE
