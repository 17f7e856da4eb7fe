\* An interrupt while a turn is finishing.
SPECIFICATION FairSpec
CONSTANTS
    Turns = {1, 2, 3}
    Inputs = {i1}
    Mails = {m1}
    TriggerMails = {m1}
    Injections = {}
    Sleeping = FALSE
    Budgets <- InterruptAndMailBudgets
    MaxSamples = 0
    Loop = Loop
    Breaker = Breaker
    None = None
PROPERTIES
    MailIsTaken
\* The session is idle for good when nobody submits anything more.
CHECK_DEADLOCK FALSE
