SPECIFICATION FairSpec
CONSTANTS
    tcp443 = tcp443
    tcp80 = tcp80
    pool = pool
    NoPool = NoPool
    Group <- MCGroup
    serial <- MCserial
    TestID <- MCTestID
    Plans = {1, 2, 3, 4, 5}
    Last = {4, 5}
    Provoking = {4}
    BurstControl = {5}
    Repeat = 1
    Retry = 1
    Parallel = 2
    standalone = FALSE
    CanFetch = FALSE
CHECK_DEADLOCK FALSE
INVARIANTS
    PoolExclusive
    TailAlone
    ControlsBeforeBursts
    CancelledNotBlamed
PROPERTIES
    ScanPromise
    ScanReturns
