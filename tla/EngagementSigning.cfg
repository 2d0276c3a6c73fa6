CONSTANTS
    Caller = {c1, c2}
    Name = {n1, n2}
    None = None
    MaxWrites = 5
    Issues = 2
SPECIFICATION Spec
INVARIANTS OneSignature
PROPERTIES SignatureStands DeadLinkStaysDead ReplacesOnlyWhatItSaw
CHECK_DEADLOCK FALSE
