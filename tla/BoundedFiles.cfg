SPECIFICATION FilesSpec
CONSTANTS
    FileName = {a, b}
    Object = {o1, o2, o3, o4}
    Absent = Absent
    Faults = TRUE
SYMMETRY Symmetry
INVARIANTS
    NothingLost
    OutcomeTells
PROPERTIES
    EditKeepsOthersWork
    OldUntilNew
CHECK_DEADLOCK FALSE
