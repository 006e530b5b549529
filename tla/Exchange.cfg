SPECIFICATION FairSpec
CONSTANTS
    SessionPackets = 4
    ovpnControlPackets = 2
    Chunks = 2
    Pieces = 3
    Datagrams = 4
    sessionCutAfter = 3
    vpnSessionMaxData = 6
    CheckedTests <- MCTests
    ReadOutlasts <- MCOutlasts
    FaultKinds <- MCFaults
    MaxFaults = 1

    
    
    
PROPERTY
    AttemptEnds
