SPECIFICATION HvSpec
CONSTANTS
    NumDomains = 2
    VcpusPerDomain = 1
    NumPcpus = 1
    MaskWidth = 1
    MaxTicks = 0
    PortsPerDomain = 0
    NumVirqs = 0
    NumFrames = 0
    MaxCount = 0
    GrefsPerDomain = 0
    TableSlots = 0
    MaxLevel = 1
    NumDevices = 0
    MaxCredit = 0
    MaxAmount = 0
CHECK_DEADLOCK FALSE
INVARIANT
    DeadAffinityDefault
