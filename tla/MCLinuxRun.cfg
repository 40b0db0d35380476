SPECIFICATION IrqSpec
CONSTANTS
    NumGuests = 2
    VcpusPerGuest = 2
    NumLr = 2
    Ppis = {27}
    Spis = {33}
    Sgis = {1}
    PeerFaultCap = 2
    Budget = 5
INVARIANTS
    UnderflowArmedExactly
    TimerLineOwned
    NoIrqStorm
PROPERTIES
    BoxesHold
CHECK_DEADLOCK FALSE
