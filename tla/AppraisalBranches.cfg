CONSTANTS
    Client = {c1, c2}
    Version = {v1, v2, v3}
    Mix = {m1}
    Cap = {q1, q2}
    Typed = q1
    Saved <- MCSaved
    Supported = q2
    MayCrash = TRUE
    MaxStamp = 3
    None = None
SPECIFICATION Spec
SYMMETRY Symmetry
INVARIANTS OneCurrent
PROPERTIES NoSaveLost ImplementsHistory
CHECK_DEADLOCK FALSE
