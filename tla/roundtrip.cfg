SPECIFICATION RTSpec
CONSTANTS
    Addr <- MCAddr
    Data <- MCData
    Sums <- MCSums
    Zero <- MCZero
    Checksum <- MCChecksum
    NarrowWriteFails = FALSE
    UserLayers <- MCUser
    Stacks <- MCStacks
    Pads = {0, 6}
    Joined = "joined"
    Regular <- MCRegular
INVARIANTS
    FinalizedComesBack
    CaptureStable
    PaddingAdopted
CHECK_DEADLOCK FALSE
