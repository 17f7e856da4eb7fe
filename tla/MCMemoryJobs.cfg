SPECIFICATION FairSpec
CONSTANTS
    Threads = {t1}
    Legacy = {t1}
    Workers = {w1, w2}
    MaxSource = 2
    Retries = 1
    ScanLimit = 1
    MaxClaimed = 1
    MaxInputs = 1
    MaxFaults = 1
    None = None
INVARIANTS
    TypeOK
    OutputIsVouched
    BaselineIsDigested
PROPERTIES
    MarksWhatWasConsumed
    StaleIsProcessed
    PollutedIsForgotten
