\* The circuit breaker aborts a turn that is finishing.
SPECIFICATION FairSpec
CONSTANTS
    Turns = {1, 2, 3}
    Inputs = {i1, i2}
    Mails = {}
    TriggerMails = {}
    Injections = {}
    Sleeping = FALSE
    Budgets <- StartAndBreakBudgets
    MaxSamples = 0
    Loop = Loop
    Breaker = Breaker
    None = None
PROPERTIES
    EveryTurnEnds
\* The session is idle for good when nobody submits anything more.
CHECK_DEADLOCK FALSE
