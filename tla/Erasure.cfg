CONSTANTS
    a = a
    b = b
    f1 = f1
    f2 = f2
    Org = {a, b}
    File = {f1, f2, f3}
    Legacy <- SharedUrl
    Malformed <- OddUrl
    Uploader = {u1}
    Worker = {w1, w2}
    None = None
    MaxFaults = 1
SPECIFICATION FairSpec
INVARIANTS LiveFileKept EveryFileAccounted
PROPERTIES QueuedIsErased
CHECK_DEADLOCK FALSE
