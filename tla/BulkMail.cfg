SPECIFICATION Spec
CONSTANTS
    Recipients = {r1, r2}
    Workers = {w1}
    DailyLimits = {0, 1, 2}
    BatchSize = 2
    RetryAttempts = 2
    MaxJobs = 1
    MaxDeaths = 1
    MaxRequeues = 1
INVARIANTS
    TypeOK
    SentWasDelivered
    RecordedWithinDailyLimit
    MailedWithinRetries
PROPERTIES
    NeverMailedTwice
    EveryoneIsReached
CHECK_DEADLOCK FALSE
