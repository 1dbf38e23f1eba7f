SPECIFICATION Spec
CONSTANTS
    Clients = {"a", "b"}
    Server = "server"
    SeqMod = 16
    ServerIsn = 15
    FirstSeqs = {15}
    GetBytes = 5
    ResponseBytes = 3
    Pads = {0, 2}
INVARIANTS
    TypeOK
    RepliesFit
    NoEarlyResponse
PROPERTY
    EveryoneServed
CHECK_DEADLOCK FALSE
