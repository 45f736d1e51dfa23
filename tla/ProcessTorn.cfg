SPECIFICATION Spec
CONSTANTS
    s1 = s1
    v1 = v1
    v2 = v2
    x1 = x1
    o1 = o1
    Session = {}
    Task = {t1, t2}
    Service = {v1}
    Terminal = {}
    Owner = {o1}
    OwnerOf <- NoOwner
    maxProcesses = 2
    maxCompletedProcesses = 1
    maxAttempts <- OneService
    RemovalFails = TRUE
    ShortWrites = TRUE
    MaxRequests = 0
PROPERTIES
    ExitCodeKept
CHECK_DEADLOCK FALSE
