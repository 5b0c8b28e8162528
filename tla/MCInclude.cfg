SPECIFICATION MCSpec
CONSTANTS
    Word <- MCWord
    MAX_SRCFILE_DEPTH = 3
INVARIANTS
    TypeOK
    OpenFilesBounded
    LinesRight
    ReadsLiterally
    IncludeInv
PROPERTY
    Terminates
