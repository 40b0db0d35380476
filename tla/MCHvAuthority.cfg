SPECIFICATION AuthoritySpec
CONSTANTS
    NumDomains = 4
    VcpusPerDomain = 0
    NumPcpus = 0
    MaskWidth = 0
    MaxTicks = 0
    PortsPerDomain = 0
    NumVirqs = 0
    NumFrames = 0
    MaxCount = 0
    GrefsPerDomain = 0
    TableSlots = 0
    MaxLevel = 1
    NumDevices = 0
    MaxCredit = 0
    MaxAmount = 0
CHECK_DEADLOCK FALSE
INVARIANTS
    AuthorityLive
    ControlForest
    SweepExact
    WalkDecidesSubtree
PROPERTIES
    ProvenanceStable
    NoFabricatedAuthority
    SweepTerminates
