SPECIFICATION Spec
CONSTANTS
    Client = {c1}
    Duration = {1}
    NoLease = NoLease
    WithoutProof = WithoutProof
    Slot = {r1, r2}
    Kind = {"acquire", "exec", "take"}
    LosesResponse = {"exec"}
    HandlerMayFail = FALSE
    MaxGateway = 1
    MaxGeneration = 3
INVARIANT NoOrphanProcess
CHECK_DEADLOCK FALSE
