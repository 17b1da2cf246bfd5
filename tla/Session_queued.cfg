SPECIFICATION Spec
CONSTANTS
    Links = {a, b}
    Master = m
    App = app
    Workers = {w}
    Async = FALSE
    Listeners = {x, y}
    NumChannels = 2
    None = None
    MaxCalls = 5
    MaxQueued = 2
SYMMETRY Symmetric
CHECK_DEADLOCK FALSE
INVARIANTS
    MembersCaughtUp
    MembersAreOpen
    EventsInOrder
    ListenersHear
PROPERTIES
    AllClosed
