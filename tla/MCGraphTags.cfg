SPECIFICATION Spec
CONSTANTS
    Calls = {c1}
    Tags = {"first", "star"}
    MaxBytes = 1
    MaxBody = 2
    None = None
PROPERTIES
    ConfirmedIsKept
CHECK_DEADLOCK FALSE
