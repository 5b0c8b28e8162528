SPECIFICATION MCSpec
CONSTANTS
    Value <- MCValue
    NULL = NULL
    RangePort = {}
    Programs <- MCPrograms
    OldRules <- MCOldRules
    Packets <- MCPackets
    JumpLimit = 6
INVARIANTS
    RestoreInv
    FailsForAReason
    RestoredPolicy
PROPERTIES
    LoadsAtomically
    LoadEnds
CHECK_DEADLOCK FALSE
