SPECIFICATION FairSpec
CONSTANTS
    desktop = desktop
    executor = executor
    Container = {desktop, executor}
    Planned = {"stop", "quiesced", "recover"}
    MaxOps = 2
    MaxFaults = 1
    MaxOutside = 1
    Touched = {desktop}
    None = None
INVARIANTS
    PausesAreUndone
    OneJournal
    BackupsAreOfOneMoment
    ReportedOverIsOver
PROPERTIES
    ChangesAreRecorded
    RecoveryEnds
CHECK_DEADLOCK FALSE
