SPECIFICATION Spec
CONSTANTS
    MaxFrames = 4
    MaxWrites = 3
INVARIANTS
    TypeOK
    InOrder
    EchoNeverIdle
PROPERTY
    RejectedPassed
CHECK_DEADLOCK FALSE
