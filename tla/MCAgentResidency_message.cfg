SPECIFICATION Spec
CONSTANTS
    Callers = {c1, c2}
    Paths = {pa, pb, pc}
    NThreads = 3
    Capacity = 1
    MaxOps = 4
    MaxCancels = 1
    None = None
    Free = Free
    Reserved = Reserved
INVARIANTS
    MessageKept
CHECK_DEADLOCK FALSE
