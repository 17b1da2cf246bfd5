SPECIFICATION Spec
CONSTANTS
    Links = {a, b}
    Master = m
    App = app
    Workers = {w}
    Async = TRUE
    Listeners = {}
    NumChannels = 2
    None = None
    MaxCalls = 3
    MaxQueued = 0
CHECK_DEADLOCK FALSE
INVARIANT
    AddingIsAtomic
