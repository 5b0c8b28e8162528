SPECIFICATION Spec
CONSTANTS
    Value <- MCValue
    NULL = NULL
    RangePort = {}
    Programs <- RelatedPrograms
    OldRules <- MCOldRules
    Packets <- MCPackets
    JumpLimit = 6
    PipeBound = 0
INVARIANTS
    DenialsHold
CHECK_DEADLOCK FALSE
