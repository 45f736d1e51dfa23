SPECIFICATION FairLockSpec
CONSTANTS
    Command = {c1, c2, c3, c4}
    Crashing = {c1, c2}
    Inode = {i1, i2, i3}
    NoFile = NoFile
    SlowWriter = FALSE
    WritesFail = TRUE
INVARIANTS
    MutualExclusion
PROPERTIES
    StaleLockReclaimed
CHECK_DEADLOCK FALSE
