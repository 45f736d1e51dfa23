SPECIFICATION FairSpec
CONSTANTS
    Id = {a, b}
    Name = {x, y}
    None = None
    MaxOps = 4
    Storage = TRUE
    OutsideStops = TRUE
INVARIANTS
    AuditPasses
PROPERTIES
    RevokedForever
    ImplementsRegistry
    RecoveryEnds
CHECK_DEADLOCK FALSE
