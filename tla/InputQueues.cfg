SPECIFICATION Spec
CONSTANTS
    Client = {a1}
    Duration = {1}
    NoLease = NoLease
    WithoutProof = WithoutProof
    Slot = {c1, c2}
    NoCall = NoCall
    QueueLimit = 2
    MaxChanges = 2
    MaxWork = 2
SYMMETRY SlotSymmetry
INVARIANTS
    FewLateInputs
    NotStartedStaysSo
    PointerOfOwner
CHECK_DEADLOCK FALSE
