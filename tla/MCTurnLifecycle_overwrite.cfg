\* A mail-started turn races a turn the client starts.
SPECIFICATION Spec
CONSTANTS
    Turns = {1, 2, 3}
    Inputs = {i1, i2}
    Mails = {m1}
    TriggerMails = {m1}
    Injections = {}
    Sleeping = FALSE
    Budgets <- StartAndMailBudgets
    MaxSamples = 0
    Loop = Loop
    Breaker = Breaker
    None = None
INVARIANTS
    StartFindsNoTask
\* The session is idle for good when nobody submits anything more.
CHECK_DEADLOCK FALSE
