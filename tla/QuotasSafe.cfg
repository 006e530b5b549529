SPECIFICATION Spec
CONSTANTS
    a1 = a1
    a2 = a2
    b1 = b1
    c1 = c1
    c2 = c2
    Addrs = {a1, a2, b1}
    RateKeyOf <- MCRateKeyOf
    Sids = {}
    NoSid = NoSid
    Tests = {}
    Kinds = {}
    AnyKind = AnyKind
    NoRes = NoRes
    Total = Total
    MaxLiveSessions = 1
    MaxSessionObservations = 1
    ObsMax = 1
    SessPerMin = 2
    AttPer10Min = 1
    BulkPerDay = 2
    BulkGlobalPerDay = 2
    Minute = 3
    TenMinutes = 4
    Retention = 1
    DayLen = 6
    YearDays = 3
    Callers = {c1, c2}
    Loads <- MCLoads
    Sizes = {0, 1, 3}
    MaxRequest = 2
    MaxStall = 1
    MaxTime = 6
SYMMETRY MCSymmetry
INVARIANTS
    RatesHold
    BulkQuotaHolds
