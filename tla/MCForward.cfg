SPECIFICATION Spec
CONSTANTS
    Value <- MCValue
    NULL = NULL
    RangePort = {}
    Programs <- ForwardPrograms
    OldRules <- MCOldRules
    Packets <- MCPackets
    JumpLimit = 6
INVARIANTS
    ForwardedPass
CHECK_DEADLOCK FALSE
