SPECIFICATION FairSpec
CONSTANTS
    s1 = s1
    s2 = s2
    Streams = {s1, s2}
    Capacity = 2
    MaxSegments = 2
    MaxMessages <- Messages
    MaxBreaks = 2
    MaxAcks = 1
INVARIANTS
    TypeOK
    NothingLost
    BufferBound
PROPERTIES
    ImplementsReliableStreams
    Drains
\* The writer may have nothing to send.
CHECK_DEADLOCK FALSE
