SPECIFICATION Spec
CONSTANTS
    Links = {a, b, c, d}
    None = None
    Datas <- MCDatas
    Filters <- MCFilters
    ListThreshold = 2
SYMMETRY Clients
CHECK_DEADLOCK FALSE
INVARIANTS
    HostIsMember
    HostKnown
    PeersIntroduced
    SuccessMeansSession
