\* A cancellation racing a new generation.
CONSTANTS
    w1 = w1
    w2 = w2
    w3 = w3
    a1 = a1
    a2 = a2
    s1 = s1
    s2 = s2
    i1 = i1
    i2 = i2
    None = None
    Worker <- TwoWorkers
    Client <- TwoClients
    Sweeper <- OneSweeper
    Input <- TwoInputs
    External = FALSE
    MaxAttempts = 2
    MaxLease = 1
    RetryDelay = 1
    Skew = 0
    MaxGen = 2
SPECIFICATION Spec
PROPERTY CancelReachesLatest
CHECK_DEADLOCK FALSE
