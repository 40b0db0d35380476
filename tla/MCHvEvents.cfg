SPECIFICATION HvSpec
CONSTANTS
    NumDomains = 3
    VcpusPerDomain = 1
    NumPcpus = 1
    MaskWidth = 1
    MaxTicks = 0
    PortsPerDomain = 1
    NumVirqs = 1
    NumFrames = 0
    MaxCount = 0
    GrefsPerDomain = 0
    TableSlots = 0
    MaxLevel = 1
    NumDevices = 1
    MaxCredit = 1
    MaxAmount = 1
CHECK_DEADLOCK FALSE
ACTION_CONSTRAINT EventsBounded
INVARIANTS
    NoLostWakeup
    SchedSound
    ChannelsSound
PROPERTIES
    TeardownConfined
    ConnectedByConsent
    EventsNotLost
    LocalRespect
