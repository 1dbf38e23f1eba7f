SPECIFICATION Spec
CONSTANTS
    MaxRecords = 4
    Captures <- MCCaptures
INVARIANT
    EachFrameStored
CHECK_DEADLOCK FALSE
