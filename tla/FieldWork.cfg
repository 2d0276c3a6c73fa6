SPECIFICATION FairSpec
CONSTANTS
    Device = {d1}
    Desk = {w1}
    Photo = {p1}
    None = None
    MaxRows = 3
    MaxSaves = 2
    MaxFail = 1
    MaxReload = 1
INVARIANTS PhotographKept
PROPERTIES PhotographArrives
CHECK_DEADLOCK FALSE
