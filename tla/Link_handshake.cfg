\* Three peers and one disconnect, or two peers and two.
SPECIFICATION PSpec
CONSTANTS
    Links = {a, b, c}
    None = None
    Datas <- BothArchs
    Filters <- AnySession
    ListThreshold = 2
    MaxCalls = 4
SYMMETRY Peers
CHECK_DEADLOCK FALSE
INVARIANTS
    BossIsHost
    Agreement
    ConnectOnce
    DisconnectIsLast
    RelaysInOrder
    CloseIsHeard
