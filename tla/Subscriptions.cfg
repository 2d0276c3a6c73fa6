CONSTANTS
    Caller = {c1, c2}
    Sessions = 2
    Manual = {m1}
    Paid = {GROWTH}
    Trial = TRIAL
    None = None
    MaxChanges = 1
    MaxEvents = 3
SPECIFICATION Spec
INVARIANTS NeverBilledTwice ClosedBeforeErasure PaidFeaturesWereBought
CHECK_DEADLOCK FALSE
