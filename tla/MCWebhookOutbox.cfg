SPECIFICATION SpecOutbox
CONSTANTS
    Requests = {r1}
    Integrators = {"dapp"}
    Nullifiers = {n1}
    Settings <- MCSettings
    Limit = 1
    PoolSize = 1
    Window = 0
    MaxTime = 0
    MaxCrashes = 1
    EncoderReady = TRUE
    None = None
    Workers = {w1, w2}
    MaxTries = 3
INVARIANTS
    TypeOKOutbox
    GivenUpAfterAllTries
    DeliveredWasAcknowledged
    PostsWithinOverlap
PROPERTIES
    DeliveredIsFinal
CHECK_DEADLOCK FALSE
