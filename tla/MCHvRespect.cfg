SPECIFICATION HvSpec
CONSTANTS
    NumDomains = 3
    VcpusPerDomain = 0
    NumPcpus = 0
    MaskWidth = 0
    MaxTicks = 0
    PortsPerDomain = 0
    NumVirqs = 0
    NumFrames = 2
    MaxCount = 2
    GrefsPerDomain = 1
    TableSlots = 1
    MaxLevel = 1
    NumDevices = 0
    MaxCredit = 0
    MaxAmount = 0
CHECK_DEADLOCK FALSE
ACTION_CONSTRAINT OnlyDom0Served
PROPERTY LocalRespectAsStated
