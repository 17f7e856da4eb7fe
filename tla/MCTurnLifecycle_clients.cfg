\* One client: turns exclude each other and every turn is reported finished.
SPECIFICATION FairSpec
CONSTANTS
    Turns = {1, 2, 3}
    Inputs = {i1, i2}
    Mails = {}
    TriggerMails = {}
    Injections = {j1}
    Sleeping = FALSE
    Budgets <- ClientBudgets
    MaxSamples = 1
    Loop = Loop
    Breaker = Breaker
    None = None
INVARIANTS
    TypeOK
    RunnerIsActive
    OneTerminal
    StartFindsNoTask
    ItemOnce
PROPERTIES
    EveryTurnEnds
\* The session is idle for good when nobody submits anything more.
CHECK_DEADLOCK FALSE
