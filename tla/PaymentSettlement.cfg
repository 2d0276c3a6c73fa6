CONSTANTS
    Caller = {c1, c2}
    Payments = 1
    Intents = 2
    Kinds = 1
    DueAt <- MCDueAt
    Price = {1, 2}
    Charge <- MCCharge
    LastMilestone = 1
    MaxSaves = 2
    MaxFailures = 1
    None = None
SPECIFICATION FairSpec
INVARIANTS OneReceipt OneIntentPerPayment
PROPERTIES PaidStays ChargeReachesLedger
CHECK_DEADLOCK FALSE
