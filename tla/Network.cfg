SPECIFICATION FairSpec
CONSTANTS
    Ports = {p, q}
    Peers = {2}
    Master = 1
    SetSize = 1
    None = None
    MaxSockets = 2
CHECK_DEADLOCK FALSE
INVARIANTS
    WinsockWhileUsed
    ListenersRead
    OneLinkPerPair
    StopOrder
PROPERTIES
    DestructorEnds
