SPECIFICATION Spec
CONSTANTS
    Sdks <- AllSdks
    Limit = 3
    Slack = 2
    MaxMeta = 3
    MaxSize = 6
    MaxEdits = 2
    None = None
INVARIANTS
    UndisturbedIsWhole
    OverrunBounded
CHECK_DEADLOCK FALSE
