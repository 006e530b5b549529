SPECIFICATION Spec
CONSTANTS
    a1 = a1
    s1 = s1
    s2 = s2
    x = x
    y = y
    z = z
    tls = tls
    vless = vless
    port = port
    Addrs = {a1}
    RateKeyOf <- MCRateKeyOf
    Sids = {s1}
    NoSid = NoSid
    Tests = {}
    Kinds = {tls, vless}
    AnyKind = AnyKind
    NoRes = NoRes
    NoAttempt = NoAttempt
    Total = Total
    MaxLiveSessions = 2
    MaxSessionObservations = 9
    ObsMax = 9
    SessPerMin = 1
    AttPer10Min = 3
    BulkPerDay = 1
    BulkGlobalPerDay = 1
    Minute = 1
    TenMinutes = 9
    Retention = 9
    DayLen = 10
    YearDays = 3
    Attempts = {x, y, z}
    SidOf <- MCSidOf
    EpOf <- MCEpOf
    KindOf <- MCKindOf
    LooksLike <- MCBrokenKind
    Modes <- MCModes
    AddrOf <- MCAddrOf
    SessionTTL = 9
    ResTTL = 1
    IdleTimeout = 1
    MaxCopies = 2
    MaxTime = 2
SYMMETRY MCSymmetry
INVARIANTS
    ReservationUsedOnce
    
    
    
