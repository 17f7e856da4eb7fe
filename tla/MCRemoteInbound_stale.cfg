\* A stream that is initialized again while its first connection's task ends.
SPECIFICATION Spec
CONSTANTS
    k1 = k1
    k2 = k2
    None = None
    Keys = {k1, k2}
    Logs <- ReinitializedOnly
    EventCapacity = 1
    MaxFaults = 0
PROPERTIES
    ClosesItsOwn
\* Nothing is left to do once the tracker is shut down.
CHECK_DEADLOCK FALSE
