SPECIFICATION Spec
CONSTANTS
    Addr <- MCAddr
    Data <- MCData
    Sums <- MCSums
    Zero <- MCZero
    Checksum <- MCChecksum
    NarrowWriteFails = TRUE
    UserLayers <- AllUser
    Stacks <- AllStacks
INVARIANT
    TransportRightAfterOne
