SPECIFICATION Spec
CONSTANTS
    w1 = w1
    w2 = w2
    w3 = w3
    p1 = p1
    p2 = p2
    Writers = {w1, w2}
    Procs = {p1, p2}
    ProcOf <- OneProcess
    Sdks = {"rust", "kotlin"}
    Artifacts = {a1}
    Corrupt = Corrupt
    Blocks = 2
    Inodes = {i1, i2, i3}
    Slots = {s1}
    CoarseClock = TRUE
    None = None
VIEW Referenced
SYMMETRY Interchangeable
PROPERTIES
    TornOnlyByOverwriting
CHECK_DEADLOCK FALSE
