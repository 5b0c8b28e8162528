SPECIFICATION Spec
CONSTANTS
    Value <- MCValue
    NULL = NULL
    RangePort = {}
    Sensible = Sensible
    Sensible2 = Sensible2
    Unparsable = Unparsable
    Senseless = Senseless
    Crashing = Crashing
    Exiting = Exiting
    Text <- MCText
    Compiled <- MCCompiled
    OldRules <- MCOldRules
    ByHand <- MCByHand
    PipeBound = 0
    Commands = 1
    Troubles <- MCTroubles
    OldFiles <- MCOldFiles
INVARIANTS
    PipeInv
    FileWhole
    ReloadWhole
    ErrorsKeepRules
    OneText
    ReloadNeverOpen
    StopOpens
    AdminInv
PROPERTY
    CommandsEnd
CHECK_DEADLOCK FALSE
