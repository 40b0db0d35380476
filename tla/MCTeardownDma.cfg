SPECIFICATION TeardownSpec
CONSTANTS
    NumDomains = 2
    NumFrames = 2
    NumDevices = 2
    NumStreams = 2
INVARIANTS
    NothingLeftAtRest
CHECK_DEADLOCK FALSE
