SPECIFICATION Spec
CONSTANTS
    r1 = r1
    r2 = r2
    r3 = r3
    n1 = n1
    n2 = n2
    n3 = n3
    Requests = {r1, r2, r3}
    Integrators = {"dapp"}
    Nullifiers = {n1, n2, n3}
    Settings <- MCSettings
    Limit = 1
    PoolSize = 2
    Window = 0
    MaxTime = 1
    MaxCrashes = 1
    EncoderReady = TRUE
    None = None
SYMMETRY Symmetry
INVARIANTS
    TypeOK
    BurstWithinPool
    SpendAccountedFor
    WebhookOncePerNullifier
CHECK_DEADLOCK FALSE
