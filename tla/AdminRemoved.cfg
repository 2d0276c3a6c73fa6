CONSTANTS
    Client = {c1, c2}
    User = {n1, n2}
    Founder = n1
    MaxMembers = 2
    MaxLink = 1
    MaxCode = 1
SPECIFICATION Spec
INVARIANTS AlwaysAnAdmin
CHECK_DEADLOCK FALSE
