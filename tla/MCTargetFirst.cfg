SPECIFICATION Spec
CONSTANTS
    NULL = NULL
    Value <- MCValue
    RangePort = {"1:1023", "tcpmux:1023"}
    BadMask = {"40"}
    Protocols <- MCProtocols
    Addresses <- MCAddresses
    Services <- MCServices
    IcmpCodes <- MCIcmpCodes
    StaleMask = {NULL}
    RuleResults = {1}
    DefaultRtype = NULL
    Asts <- TargetFirstAsts
INVARIANT
    EveryRuleCompiled
