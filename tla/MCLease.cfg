SPECIFICATION FairSpec
CONSTANTS
    Client = {c1, c2}
    Duration = {1}
    NoLease = NoLease
    WithoutProof = WithoutProof
    Takeover = {t1}
    MaxGeneration = 4
    MaxEpoch = 1
    MaxJobs = 2
INVARIANTS
    PredecessorsFenced
    NothingForgotten
    TakeoverFences
    NoLostWakeup
PROPERTIES
    TakeoverEnds
    StaleStaysStale
    FirstComeFirstServed
    ImplementsOwnership
CHECK_DEADLOCK FALSE
