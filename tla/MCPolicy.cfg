SPECIFICATION PolicySpec
CONSTANTS
    NumDomains = 1
    VcpusPerDomain = 2
    NumPcpus = 2
    MaskWidth = 2
    MaxTicks = 2
    Quantum = 1
    MaxWeight = 2
ACTION_CONSTRAINT ReweightsBounded
INVARIANTS
    WorkConserving
    SettledIsFixpoint
PROPERTIES
    AdvanceReturns
