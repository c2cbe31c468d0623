SPECIFICATION Spec
CONSTANTS
    Calls = {c1, c2, c3}
    Sdks <- Mature
    Versions = {v1, v2}
    Slugs = {s1}
    Ops = {"publish", "yank", "restore", "download", "claim"}
    None = None
SYMMETRY Symmetry
CONSTRAINT ClaimsApart
INVARIANTS
    TypeOK
    RefusedHadNoEffect
    ReleasedAsDescribed
    DownloadsAreGenuine
    LastWordStands
PROPERTIES
    WritesOnce
CHECK_DEADLOCK FALSE
