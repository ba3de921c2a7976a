\* One grant advanced by two agents, two open calls, two errors, under fairness.
CONSTANTS
    g1 = g1
    g2 = g2
    a1 = a1
    a2 = a2
    a3 = a3
    None = None
    Grant <- OneGrant
    Agent <- TwoAgents
    MaxOpen = 2
    MaxErrors = 2
SPECIFICATION FairSpec
INVARIANTS
    RevokedIsQuiet
    ActiveIsRegistered
    MilestonesOnce
PROPERTIES
    RevocationStays
    BarrierCompletes
CHECK_DEADLOCK FALSE
