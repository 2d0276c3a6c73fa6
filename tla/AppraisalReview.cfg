CONSTANTS
    Client = {c1, c2}
    Version = {v1}
    Mix = {m1, m2}
    Cap = {q1, q2}
    Typed = q1
    Saved <- MCSaved
    Supported = q2
    MayCrash = TRUE
    MaxStamp = 4
    None = None
SPECIFICATION Spec
SYMMETRY Symmetry
INVARIANT ApprovalAnnouncedOnce
PROPERTIES ApprovalIsFinal SignedAsListed OnlyWritesByIdTouchApproved
CHECK_DEADLOCK FALSE
