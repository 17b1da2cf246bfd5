SPECIFICATION Spec
CONSTANTS
    Threads = {s, t}
    Vars = {a, b, c}
SYMMETRY Symmetric
CHECK_DEADLOCK FALSE
INVARIANTS
    IndexNamesVariable
    WaitingOnce
