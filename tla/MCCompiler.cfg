SPECIFICATION Spec
CONSTANTS
    NULL = NULL
    Value <- MCValue
    RangePort = {"1:1023", "tcpmux:1023"}
    BadMask = {"40"}
    Protocols <- MCProtocols
    Addresses <- MCAddresses
    Services <- MCServices
    IcmpCodes <- MCIcmpCodes
    StaleMask = {NULL, "8"}
    RuleResults <- MCResults
    DefaultRtype = NULL
    Asts <- MCAsts
INVARIANTS
    TypeOK
    SinglePathOut
    Acyclic
    PassesSucceed
    ReprintsProgram
PROPERTIES
    ImplementsPolicy
    Terminates
