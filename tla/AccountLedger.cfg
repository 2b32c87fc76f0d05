SPECIFICATION FairSpec
CONSTANTS
    w1 = w1
    w2 = w2
    a1 = a1
    t1 = t1
    Workers = {w1, w2}
    Accounts = {a1}
    Tokens = {t1}
    Amounts = {1, 2}
    MaxBalance = 3
    MaxArrivals = 3
    NoWorker = NoWorker
INVARIANTS
    NeverOverdrawn
    AppliedOnceUnlessExcused
    SuccessIsDurable
    AuditCoversCommits
PROPERTIES
    LedgerSpec
    Answered
CHECK_DEADLOCK FALSE
