SPECIFICATION Spec
CONSTANTS
    Value <- MCValue
    NULL = NULL
    RangePort = {}
    Programs <- NatPrograms
    OldRules <- MCOldRules
    Packets <- MCPackets
    JumpLimit = 6
PROPERTIES
    LoadsAtomically
CHECK_DEADLOCK FALSE
