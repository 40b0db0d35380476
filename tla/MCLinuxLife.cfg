SPECIFICATION LifeSpec
CONSTANTS
    NumGuests = 3
    VcpusPerGuest = 2
    NumLr = 2
    Ppis = {27}
    Spis = {33}
    Sgis = {1}
    PeerFaultCap = 2
    Budget = 4
INVARIANTS
    MachineUp
PROPERTIES
    EveryVcpuRuns
CHECK_DEADLOCK FALSE
