SPECIFICATION Spec
CONSTANTS
    Built <- MCBuilt
    Received <- MCReceived
    Payloads <- MCPayloads
    Counts = {0, 4, 5, 6, 7, 8, 15}
INVARIANTS
    TypeOK
    HeaderExact
    WellFormedAccepted
    OptionsComeBack
CHECK_DEADLOCK FALSE
