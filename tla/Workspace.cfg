CONSTANTS
    Client = {c1, c2}
    MaxDoc = 2
    Unit = {u1, u2}
    Nobody = nobody
    Server = {s1, s2}
    Package = {k1, k2}
    Contractor = {f1}
    Account = {a1}
    Booking = {b1, b2}
    Line = {l1, l2}
    Deal = {e1}
    NoDeal = none
    User = {n1, n2}
    Founder = n1
    Attempt = {t1, t2, t3}
    ShareLink = {1}
    Chosen = {"AVAILABLE", "EXCHANGED", "COMPLETED", "SIGNED"}
    MaxBills = 2
    MaxWeeks = 1
    MaxGrant = 2
    MaxRefresh = 3
    MaxOpened = 2
    MaxMembers = 2
    MaxLink = 2
    MaxCode = 1
    MAX_FAILURES = 2
    LOCK = 1
    MaxLocked = 4
    MaxSubmission = 1
    MaxTask = 2
    MaxSave = 2
    MaxSent = 3
    \* A value is stale a unit after it was written, and swept after two.
    SourceTTL = 0
    COOLOFF_MS = 1
    Retention = 1
    MaxFetched = 3
    MaxVersion = 2
    Days = 1
    LinkTTL = 1
    MaxViews = 2
    MaxShown = 2
    MaxSold = 2
    MaxId = 4
    MAX_LIMIT = 2
    DEFAULT_LIMIT = 1
    MaxMoved = 1
    Valuer = {c1, c2}
    Column = {u1, u2}
    Paper = {p1}
    Scheme = {e2}
    Job = {j1, j2, j3}
    MapRequest = {r1, r2}
    Tile = {i1, i2, i3}
    Size = {1, 2, 3}
    Value = {1, 2}
    Org = {u1, u2}
    Fault = {c1, c2}
    Failing = {r1, r2, r3}
    MaxStamp = 3
    MaxTyped = 3
    MaxRun = 3
    MaxTurn = 2
    MaxPeriod = 2
    MaxPoint = 3
    MAX_ACTIVE_REPORTS = 2
    MaxBrowser = 1
    MAX_BYTES = 4
    MaxCount = 8
    MaxFailed = 1
    MAX_ROWS = 2
    MaxOccurred = 4
SYMMETRY Symmetry
SPECIFICATION MCSpec
INVARIANTS
    RoomSound CostRecordSound RegisterSound FeedsSound FollowUpsSound
    EditorSound AcceptedIsRecorded WithdrawalReachesAll BoundsHold CountsAddUp
PROPERTIES WaysInHold
CHECK_DEADLOCK FALSE
