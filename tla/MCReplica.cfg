\* One process: reloads, requests and a stop; or one reload and two events.
CONSTANTS
    q1 = q1
    g1 = g1
    f1 = f1
    Server = Server
    None = None
    Inputs <- AllInputs
    MaxGen = 3
    MaxChange = 2
    Request <- OneRequest
    Consumer <- Generated
    Grant <- OneGrant
    Fetcher <- OneFetcher
    GateLimit = 1
    MaxEvents = 2
    MaxLost = 1
    Budgets <- FourBudgets
SPECIFICATION FairSpec
INVARIANTS
    TypeOK
    StoreIsOpen
    OneGeneration
    QuietStop
    ReadyIsServing
    AckedIsOnStream
    TakenIsApplied
    EvictedStaysOut
PROPERTIES
    StopCompletes
    ReloadArrives
    ForwardedInTheEnd
CHECK_DEADLOCK FALSE
