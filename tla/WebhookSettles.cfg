CONSTANTS
    Worker = {w1}
    Endpoint = {e1, e2}
    Deliveries = 3
    BatchSize = 2
    Lease = 2
    MaxAttempts = 2
    FailureLimit = 1
    Outlive <- Timely
    MaxCrashes = 1
    Prompt = TRUE
    Unopenable = {e2}
    Ahead = None
    None = None
    Skew <- MCSkew
    Delay <- MCDelay
SPECIFICATION FairSpec
PROPERTIES EverySignableSettles
CHECK_DEADLOCK FALSE
