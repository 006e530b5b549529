SPECIFICATION Spec
CONSTANTS
    a1 = a1
    a2 = a2
    a3 = a3
    six = six
    sink = sink
    bogon = bogon
    V4 = {a1, a2, a3, sink, bogon}
    V6 = {six}
    Bogons = {bogon}
    Scans <- MCScans
    Rounds = {1}
    Genuine = {a1, a2, a3, six}
    ResolverCount = 2
    TrustedA <- MCTrustedA
    TrustedAAAA <- MCTrustedAAAA
    SystemHonest <- MCSystemHonest
    SystemLies <- MCSystemLies
    Refusals = {"connect_reset"}
    Breaks = {"midstream_reset"}
    Worlds <- MCWorlds
    ReresolveAfter = 1
    NoAddr = NoAddr
    MaxTime = 1
INVARIANTS
    OneAddress
    
PROPERTIES
    SkipJustified
