SPECIFICATION Spec
CONSTANTS
    h1 = h1
    h2 = h2
    t1 = t1
    t2 = t2
    ann = ann
    bob = bob
    gus = gus
    d1 = d1
    d2 = d2
    a1 = a1
    a2 = a2
    x1 = x1
    x2 = x2
    c1 = c1
    c2 = c2
    None = None
    Host = "host"
    Handler <- TwoHandlers
    Task <- OneTask
    Live <- LiveServers
    Bindings <- RoleFiles
    Command <- GrantCommands
    Request <- AskedForGrants
SYMMETRY Symmetry
INVARIANTS
    OpenGrantIsApproved
    AccessIsSeparated
    DriftIsWithdrawn
    DriftIsReal
    OneRevisionPerDigest
    LastEventTellsState
    OnlyAcceptanceDeadlocks
PROPERTIES
    DecisionsStay
