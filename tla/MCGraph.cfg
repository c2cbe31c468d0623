SPECIFICATION FairSpec
CONSTANTS
    Calls = {c1, c2}
    Tags = {"first", "second"}
    MaxBytes = 2
    MaxBody = 3
    None = None
INVARIANTS
    TypeOK
    Guarded
PROPERTIES
    ConfirmedIsKept
    AbortIsAuthoritative
    KeptIsComplete
    Settles
CHECK_DEADLOCK FALSE
