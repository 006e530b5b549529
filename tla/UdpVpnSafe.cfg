SPECIFICATION Spec
CONSTANTS
    a1 = a1
    s1 = s1
    p1 = p1
    p2 = p2
    k1 = k1
    k2 = k2
    port = port
    Addrs = {a1}
    RateKeyOf <- MCRateKeyOf
    Sids = {s1}
    NoSid = NoSid
    Tests = {}
    Kinds <- MCKinds
    AnyKind = AnyKind
    NoRes = NoRes
    NoAttempt = NoAttempt
    Total = Total
    MaxLiveSessions = 1
    MaxSessionObservations = 1
    ObsMax = 1
    SessPerMin = 1
    AttPer10Min = 1
    BulkPerDay = 1
    BulkGlobalPerDay = 1
    Minute = 1
    TenMinutes = 9
    Retention = 9
    DayLen = 10
    YearDays = 3
    Peers = {p1, p2}
    IpOf <- MCIpOf
    Keys = {k1, k2}
    Port = port
    Protocols = {"wireguard", "openvpn", "ike", "l2tp", "dtls", "quic", "stun", "dns"}
    vpnSessionTTL = 1
    vpnSessionMaxData = 1
    quicTTL = 1
    quicQueue = 2
    SessionTTL = 1
    ResTTL = 1
    MaxReservations = 2
    MaxPackets = 4
    MaxTime = 2
SYMMETRY MCSymmetry
INVARIANTS
    FollowUpsAttributed
    AnsweredReserved
    
    LastHandshakeWins
