SPECIFICATION Spec
CONSTANTS
    Client = {c1}
    Duration = {1}
    NoLease = NoLease
    WithoutProof = WithoutProof
    Slot = {r1, r2}
    Kind = {"acquire", "release", "exec", "compatExec", "publish", "take", "humanRelease"}
    LosesResponse = {"compatExec"}
    HandlerMayFail = TRUE
    MaxGateway = 2
    MaxGeneration = 2
SYMMETRY SlotSymmetry
INVARIANTS
    NoOrphanProcess
    OnlyLateOnesLeft
CHECK_DEADLOCK FALSE
