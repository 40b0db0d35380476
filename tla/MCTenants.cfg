SPECIFICATION TenantsSpec
CONSTANTS
    NumDomains = 2
    NumFrames = 2
    NumDevices = 2
    NumStreams = 2
    NumTenants = 2
    NumSectors = 1
    IdxWrap = 4
    QueueNum = {0, 2}
    Shapes <- MCShapes
    MaxPosts = 5
INVARIANTS
    DmaConfined
    GuestBytesScrubbed
    NoUngrantedBytes
PROPERTIES
    DisksPrivate
    ServedInOrder
CHECK_DEADLOCK FALSE
