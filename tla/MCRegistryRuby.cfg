SPECIFICATION Spec
CONSTANTS
    Calls = {c1}
    Sdks = {"ruby"}
    Versions = {v1}
    Slugs = {s1}
    Ops = {"publish"}
    None = None
SYMMETRY Symmetry
INVARIANTS
    RefusedHadNoEffect
CHECK_DEADLOCK FALSE
