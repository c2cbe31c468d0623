SPECIFICATION Spec
CONSTANTS
    w1 = w1
    w2 = w2
    w3 = w3
    p1 = p1
    p2 = p2
    Writers = {w1, w2}
    Procs = {p1, p2}
    ProcOf <- TwoProcesses
    Sdks = {"python", "erlang"}
    Artifacts = {a1, a2}
    Corrupt = Corrupt
    Blocks = 2
    Inodes = {i1, i2, i3}
    Slots = {s1, s2}
    CoarseClock = FALSE
    None = None
VIEW Referenced
SYMMETRY Interchangeable
INVARIANTS
    TypeOK
    DestWhole
    TempsAccountedFor
PROPERTIES
    OwnTempsOnly
    CommitsAtomically
CHECK_DEADLOCK FALSE
