\* One external-effect generation, two sweepers.
CONSTANTS
    w1 = w1
    w2 = w2
    w3 = w3
    a1 = a1
    a2 = a2
    s1 = s1
    s2 = s2
    i1 = i1
    i2 = i2
    None = None
    Worker <- ThreeWorkers
    Client <- OneClient
    Sweeper <- TwoSweepers
    Input <- OneInput
    External = TRUE
    MaxAttempts = 3
    MaxLease = 1
    RetryDelay = 1
    Skew = 1
    MaxGen = 1
SPECIFICATION FairSpec
INVARIANTS
    ExpiredExternalNeedsEvidence
PROPERTY LeaseSettles
CHECK_DEADLOCK FALSE
