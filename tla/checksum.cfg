SPECIFICATION Spec
CONSTANTS
    B = 2
    MaxBytes = 13
    Inputs <- MCInputs
INVARIANTS
    TypeOK
    NoPanic
    CastExact
    MatchesReference
    VerifiesToZero
CHECK_DEADLOCK FALSE
