SPECIFICATION Spec
CONSTANTS
    r1 = r1
    r2 = r2
    r3 = r3
    n1 = n1
    n2 = n2
    n3 = n3
    Requests = {r1, r2, r3}
    Integrators = {"dapp"}
    Nullifiers = {n1, n2, n3}
    Settings <- MCSettings
    Limit = 2
    PoolSize = 1
    Window = 0
    MaxTime = 0
    MaxCrashes = 0
    EncoderReady = FALSE
    None = None
INVARIANT
    RetryLoopStopped
CHECK_DEADLOCK FALSE
