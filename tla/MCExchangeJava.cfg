SPECIFICATION FairSpec
CONSTANTS
    Sdks = {"java"}
    Limit = 3
    ErrorLimit = 2
    MaxBody = 5
    Window = 3
    None = None
PROPERTIES
    Settles
CHECK_DEADLOCK FALSE
