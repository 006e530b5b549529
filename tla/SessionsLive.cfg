SPECIFICATION FairSpec
CONSTANTS
    a1 = a1
    s1 = s1
    s2 = s2
    s3 = s3
    t1 = t1
    t2 = t2
    f1 = f1
    f2 = f2
    h1 = h1
    h2 = h2
    Addrs = {a1}
    RateKeyOf <- MCRateKeyOf
    Sids = {s1}
    NoSid = NoSid
    Tests = {t1}
    Enabled = {t1}
    Kinds = {}
    AnyKind = AnyKind
    NoRes = NoRes
    Total = Total
    MaxLiveSessions = 1
    MaxSessionObservations = 2
    ObsMax = 2
    SessPerMin = 1
    AttPer10Min = 1
    BulkPerDay = 1
    BulkGlobalPerDay = 1
    Minute = 1
    TenMinutes = 3
    Retention = 5
    DayLen = 10
    YearDays = 3
    Openers = {h1}
    Flows = {f1}
    SessionTTL = 1
    MaxStall = 1
    MaxTime = 5
    MaxArrivals = 2
PROPERTIES
    ExpiredFreed
