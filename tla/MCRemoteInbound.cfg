SPECIFICATION FairSpec
CONSTANTS
    k1 = k1
    k2 = k2
    None = None
    Keys = {k1, k2}
    Logs <- AllLogs
    EventCapacity = 1
    MaxFaults = 2
INVARIANTS
    TypeOK
    EventsInOrder
    MessagesWithoutGap
    NoOrphan
PROPERTIES
    DroppedIsClosed
    LogIsRead
\* Nothing is left to do once the tracker is shut down.
CHECK_DEADLOCK FALSE
