CONSTANTS
    Worker = {w1, w2, w3}
    Endpoint = {e1}
    Deliveries = 1
    BatchSize = 2
    Lease = 2
    MaxAttempts = 2
    FailureLimit = 1
    Outlive = 1
    MaxCrashes = 1
    Prompt = FALSE
    Unopenable = {}
    Ahead = w2
    None = None
    Skew <- MCSkew
    Delay <- MCDelay
SPECIFICATION Spec
INVARIANTS LeasesDisjoint OneRecorder
CHECK_DEADLOCK FALSE
