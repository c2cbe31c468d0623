SPECIFICATION FairSpec
CONSTANTS
    Sdks <- AllSdks
    Limit = 3
    ErrorLimit = 2
    MaxBody = 5
    Window = 3
    None = None
INVARIANTS
    TypeOK
    NoFalseSuccess
    NoFalseRefusal
    HeldBounded
    Released
PROPERTIES
    SettlesOnce
    DeadlinesHold
    ReaderEnds
CHECK_DEADLOCK FALSE
