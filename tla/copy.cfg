SPECIFICATION Spec
CONSTANTS
    MaxRecords = 4
    Captures <- MCCaptures
INVARIANTS
    TypeOK
    NothingSkipped
    CopyComplete
    FilesKept
PROPERTY
    ForLoopEnds
CHECK_DEADLOCK FALSE
