SPECIFICATION MCSpec
CONSTANTS
    NumDomains = 2
    VcpusPerDomain = 1
    NumFrames = 4
    MaxCount = 4
    TableSlots = 2
    MaxLevel = 3
    TableEntries = 4
    Layouts <- MCLayouts
    Budget = 2
INVARIANTS
    SelftestAgrees
    WriteXorExecute
    ScrubCovers
PROPERTIES
    EmissionExact
CHECK_DEADLOCK FALSE
