SPECIFICATION MCSpec
CONSTANTS
    NULL = NULL
    Value <- MCValue
    RangePort = {}
    RuleResults <- MCResults
    DefaultRtype = "LOCALONLY"
INVARIANTS
    GenTypeOK
    NoMatchLost
    NegFaithful
    CountNeverZero
    ChainDeclaredFirst
    GenInv
PROPERTY
    ErrorIsFinal
