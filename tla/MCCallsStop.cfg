\* One call, one replica that stops gracefully, no other fault.
CONSTANTS
    c1 = c1
    c2 = c2
    r1 = r1
    r2 = r2
    o1 = o1
    g1 = g1
    s1 = s1
    None = None
    Call <- OneCall
    Replica <- OneReplica
    Operator <- NoOperator
    Grant <- OneGrant
    GrantOf <- SameGrant
    Server <- OneServer
    ServerOf <- SameServer
    SendTimeout = 1
    Grace = 1
    ReconcileAge = 3
    MaxFaults = 0
    MaxStops = 1
SPECIFICATION Spec
INVARIANT StopLeavesNoMarkedCall
CHECK_DEADLOCK FALSE
