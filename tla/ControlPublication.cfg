SPECIFICATION Spec
CONSTANTS
    Client = {c1}
    Duration = {1}
    NoLease = NoLease
    WithoutProof = WithoutProof
    Slot = {r1, r2}
    Kind = {"acquire", "publish"}
    LosesResponse = {}
    HandlerMayFail = FALSE
    MaxGateway = 2
    MaxGeneration = 2
INVARIANT NoStalePublication
CHECK_DEADLOCK FALSE
