SPECIFICATION Spec
CONSTANTS
    w1 = w1
    w2 = w2
    w3 = w3
    p1 = p1
    p2 = p2
    Writers = {w1, w2, w3}
    Procs = {p1, p2}
    ProcOf <- OneProcess
    Sdks = {"rust"}
    Artifacts = {a1}
    Corrupt = Corrupt
    Blocks = 2
    Inodes = {i1, i2, i3}
    Slots = {s1, s2}
    CoarseClock = TRUE
    None = None
VIEW Referenced
SYMMETRY Interchangeable
INVARIANTS
    DestWhole
CHECK_DEADLOCK FALSE
