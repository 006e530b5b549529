SPECIFICATION FairSpec
CONSTANTS
    a1 = a1
    f1 = f1
    f2 = f2
    Configs <- MCConfigs
    Held <- MCHeld
    Flows = {f1, f2}
    IpOf <- MCIpOf
    maxConnsPerIP = 1
CHECK_DEADLOCK FALSE
INVARIANTS
    ConnsExact
    FailsClosed
    HealthHonest
PROPERTIES
    CloseReturns
    RoomAgain
