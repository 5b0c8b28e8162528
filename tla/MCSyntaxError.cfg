SPECIFICATION Spec
CONSTANTS
    Value <- MCValue
    NULL = NULL
    RangePort = {}
    Sensible = Sensible
    Sensible2 = Sensible2
    Unparsable = Unparsable
    Senseless = Senseless
    Crashing = Crashing
    Exiting = Exiting
    Text <- MCText
    Compiled <- MCCompiled
    OldRules <- MCOldRules
    ByHand <- MCByHand
    PipeBound = 0
    Commands = 1
    Troubles <- MCTroubles
    OldFiles <- MCOldFiles
PROPERTY
    TestedForErrors
CHECK_DEADLOCK FALSE
