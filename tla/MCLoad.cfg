SPECIFICATION MCSpec
CONSTANTS
    Value <- MCValue
    NULL = NULL
    RangePort = {}
    Programs <- MCPrograms
    OldRules <- MCOldRules
    Packets <- MCPackets
    JumpLimit = 6
    PipeBound = 0
INVARIANTS
    NeverOpen
    BothSides
    NothingRefused
    FailClosed
    LoadedPolicy
    LoadInv
CHECK_DEADLOCK FALSE
