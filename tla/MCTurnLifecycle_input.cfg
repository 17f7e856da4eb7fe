\* Input from every side: accepted input and mail is recorded, a turn that is
\* closed to mail makes no new request.
SPECIFICATION FairSpec
CONSTANTS
    Turns = {1, 2, 3}
    Inputs = {i1}
    Mails = {m1, m2}
    TriggerMails = {m1}
    Injections = {j1}
    Sleeping = FALSE
    Budgets <- InputBudgets
    MaxSamples = 1
    Loop = Loop
    Breaker = Breaker
    None = None
INVARIANTS
    SteeredIsRecorded
    NoRequestWhenClosed
    ItemOnce
PROPERTIES
    MailIsRecorded
\* The session is idle for good when nobody submits anything more.
CHECK_DEADLOCK FALSE
