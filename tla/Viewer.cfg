SPECIFICATION Spec
CONSTANTS
    Session = {s1, s2}
    Socket = {k1, k2}
    NoSession = NoSession
    LosesAnswer = {"take", "restore"}
    MaxQueue = 2
SYMMETRY ViewerSymmetry
INVARIANTS
    InputFenced
    InputOfOwner
    AbandonmentNoticed
    NoStrandedFence
CHECK_DEADLOCK FALSE
