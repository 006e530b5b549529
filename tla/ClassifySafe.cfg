SPECIFICATION Spec
CONSTANTS
    TransientSpan = 2
    TransientMin = 3
    TransientPorts = 3
    LocalMin = 2
    LocalGap = 2
    LocalLead = 1
    Scenarios <- MCScenarios
INVARIANTS
    
    OneExplanation
    
    ClearMeasured
    NameInEvidence
PROPERTIES
    ReclassifyStable
