\* One call of one grant, one replica, one barrier agent, one fault of each side.
CONSTANTS
    c1 = c1
    r1 = r1
    g1 = g1
    s1 = s1
    a1 = a1
    None = None
    Call <- OneCall
    Replica <- OneReplica
    Operator <- NoOperator
    Grant <- OneGrant
    GrantOf <- SameGrant
    Server <- OneServer
    ServerOf <- SameServer
    Agent <- OneAgent
    SendTimeout = 1
    Grace = 1
    ReconcileAge = 3
    MaxFaults = 1
    MaxStops = 0
    MaxErrors = 1
SPECIFICATION BarrierSpec
PROPERTIES
    NothingSentAfterRevoked
    CallsFitGrants
CHECK_DEADLOCK FALSE
